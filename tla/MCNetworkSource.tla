-------------------------- MODULE MCNetworkSource ---------------------------
(***************************************************************************)
(* Timelines of up to four blocks, with sign blocks alone and in pairs     *)
(* between them and after the last one, and one block that is too big to   *)
(* be loaded ahead.                                                        *)
(***************************************************************************)
EXTENDS NetworkSource

b1 == <<"block", 1>>
b2 == <<"block", 2>>
b3 == <<"block", 3>>
b4 == <<"block", 4>>
s1 == <<"sign", 11>>
s2 == <<"sign", 12>>
s3 == <<"sign", 13>>

Config(tl, big, preLoad, verify) ==
    [timeline |-> tl, big |-> big, preLoad |-> preLoad, verify |-> verify]

\* Not in the order of their hashes.  A node that pre-loads gives the dumps to
\* the wrong hashes then, and asks again for ever.
Unsorted == <<b1, b2, s2, s1, b3, s3>>

Sorted == <<b1, b2, s1, s2, b3, s3>>

\* With verify no sign block gets through the check of its size.
PassConfigs ==
    {Config(Unsorted, {}, FALSE, FALSE),
     Config(<<b1, b2, b3, s1, b4>>, {2}, FALSE, FALSE),
     Config(Sorted, {}, TRUE, FALSE),
     Config(<<b1, s1, b2, b3, b4>>, {3}, TRUE, FALSE),
     Config(<<b1, b2, b3>>, {}, FALSE, TRUE)}
=============================================================================
