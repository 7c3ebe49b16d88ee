----------------------------- MODULE MailIntake -----------------------------
(***************************************************************************)
(* What a connector and the inbox loop promise together, with no listing,  *)
(* cache, retry or connection: an email that can be told from others       *)
(* enters the ledger once, under one id, with what its attachments hold,   *)
(* and only an email of the ledger is put away in the mailbox.             *)
(***************************************************************************)
CONSTANTS
    Mails,
    Contents,    \* [Mails -> what the download of its attachments yields]
    Excluded,    \* emails of excluded senders
    Kin,         \* [Mails -> the emails that count as the same one]
    Nameless     \* emails whose id does not outlast a session: one of these
                 \* may enter again under the next id that it gets

VARIABLES
    taken,       \* ledger: a function from ids to [of, files]
    away         \* emails the program has marked as done in the mailbox

Init == taken = << >> /\ away = {}

Entered(m) == \E i \in DOMAIN taken : taken[i].of \in Kin[m]

Enter(m, files) ==
    /\ m \in Nameless \/ ~Entered(m)
    /\ \E i \in DOMAIN taken' :
         /\ i \notin DOMAIN taken
         /\ taken' = [j \in DOMAIN taken \cup {i} |->
                        IF j = i THEN [of |-> m, files |-> files] ELSE taken[j]]
    /\ UNCHANGED away

Take(m) == m \notin Excluded /\ Enter(m, Contents[m])

Refuse(m) == m \in Excluded /\ Enter(m, << >>)

PutAway(m) ==
    /\ Entered(m)
    /\ away' = away \cup {m}
    /\ UNCHANGED taken

Next == \E m \in Mails : Take(m) \/ Refuse(m) \/ PutAway(m)

Spec == Init /\ [][Next]_<<taken, away>>
=============================================================================
