--------------------------- MODULE MCMeetingWindow ---------------------------
(* A small instance of MeetingWindow for TLC.                               *)
EXTENDS MeetingWindow

OtherSymmetry == Permutations(Others)

\* Windows with these members, in and out of a meeting, whatever their tiles
\* and the main screen show.
Windows ==
    LET Shown == {"avatar", "picture"}
    IN  UNION {{[partner |-> partner, iplist |-> SetToSeq(partner \ {Self}),
                 selected |-> {}, audioText |-> Open, openAudio |-> audio,
                 openVedio |-> FALSE, inMeeting |-> partner # {}, visible |-> TRUE,
                 session |-> "active",
                 video |-> [displays |-> d, lastImages |-> pictures, main |-> "blank",
                            mainIp |-> mainIp, localIp |-> Self, isRunning |-> FALSE]] :
                    d \in [partner -> Shown], pictures \in SUBSET Ips,
                    audio \in BOOLEAN, mainIp \in Ips \cup {NoIp}} :
               partner \in SUBSET Ips}

\* handle_partner_join2 goes through its list: what join_partners says of a set
\* of members is what joining one after the other does, in any order, up to the
\* order of the list for "@".
ASSUME JoinsOneByOne ==
    \A u \in Windows, ips \in SUBSET Others : \A order \in SetToSeqs(ips) :
        LET all == join_partners(u, ips)
            each == FoldLeft(LAMBDA r, ip : join_partners(r, {ip}), u, order)
        IN  /\ [all EXCEPT !.iplist = each.iplist] = each
            /\ \A ip \in Ips : Cardinality({i \in DOMAIN all.iplist : all.iplist[i] = ip})
                             = Cardinality({i \in DOMAIN each.iplist : each.iplist[i] = ip})
==============================================================================
