------------------------------ MODULE MCSession ------------------------------
(* Instances of Session for TLC.                                           *)
EXTENDS Session

Use(calls, sizes, kinds, control, server) ==
    [calls |-> calls, sizes |-> sizes, kinds |-> kinds, control |-> control,
     server |-> server]

\* A publisher that uses stream IDs again; a player; everything else that users
\* write; chunk sizes.
MCWorkloads ==
    {Use(7, {}, {"publish", "audio", "video"}, {}, {}),
     Use(5, {}, {"publish", "play"}, {}, {"audio"}),
     Use(4, {}, Kinds \ {"audio", "video"}, {"releaseStream", "FCPublish", "FCUnpublish"},
         {"audio", "@setDataFrame", "onTextData", "unnamed"}),
     Use(5, {1, Huge, Huge + 1}, {"publish"}, {"checkbw", "ping"}, {})}

MCOneWorkload == {Use(3, {}, {"publish", "play", "audio", "video"}, {}, {})}
=============================================================================
