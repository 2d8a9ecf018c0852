---------------------------- MODULE MCSendQueue ----------------------------
(* Buckets of one to two messages in place of 1500, 64, 1500 and 3.        *)
EXTENDS SendQueue
MCLimit == [p \in Priorities |-> IF p \in {Control, Video} THEN 2 ELSE 1]
=============================================================================
