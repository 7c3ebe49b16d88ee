---------------------------- MODULE GmailConnector ----------------------------
(***************************************************************************)
(* GmailConnector and the inbox loop of run_sync that consumes it.  The    *)
(* query asks for emails with attachments, read or unread, so what has     *)
(* been processed is listed for ever, before everything older.             *)
(*                                                                         *)
(* A page token stands for the place after the page's last email.          *)
(***************************************************************************)
EXTENDS Integers, Sequences, FiniteSets

CONSTANTS
    Mails,
    Parts,      \* [Mails -> sequence of kinds of attachment, see Kinds]
    Excluded,   \* emails of senders on the exclusion list
    Window,     \* max_messages, 100
    PageSize,   \* 50
    Retries,    \* 3
    MaxMails,   \* bound: emails that arrive
    MaxTroubles \* bound: calls that fail, processes killed

(* One with an attachmentId, one whose bytes are in the part itself.        *)
Kinds == {"file", "inline"}

ASSUME GmailAssumption ==
    /\ Parts \in [Mails -> Seq(Kinds)]
    /\ Excluded \subseteq Mails
    /\ {Window, PageSize} \subseteq Nat \ {0}
    /\ {Retries, MaxMails, MaxTroubles} \subseteq Nat

VARIABLES
    box,        \* the emails with attachments, the oldest first
    away,       \* emails without the label UNREAD
    service,    \* whether the engine has the connector
    pc,         \* off, idle, list, page, loop, download, ack
    page,       \* emails of the page not fetched yet, in order
    more,       \* whether the page has a nextPageToken
    token,      \* the place in box where the next page begins; 0: at its end
    envelopes,  \* collected so far
    batch,      \* envelopes the loop has not reached yet
    cur, got,   \* the email at hand and what was downloaded of it, by part
    attempts,   \* failed attempts of the present download
    failed,     \* [part -> failed calls for it], of the email at hand: history
    ledger,     \* rows of messages, by id
    troubles    \* failures so far

listing == <<page, more, token, envelopes>>
handling == <<batch, cur, got, attempts, failed>>
vars == <<box, away, service, pc, page, more, token, envelopes,
          batch, cur, got, attempts, failed, ledger, troubles>>

NoMail == "none"

Init ==
    /\ box = << >> /\ away = {} /\ service = FALSE
    /\ pc = "off" /\ page = << >> /\ more = FALSE /\ token = 0 /\ envelopes = << >>
    /\ batch = << >> /\ cur = NoMail /\ got = << >> /\ attempts = 0 /\ failed = << >>
    /\ ledger = << >> /\ troubles = 0

Trouble == troubles < MaxTroubles /\ troubles' = troubles + 1

Smaller(a, b) == IF a <= b THEN a ELSE b

(* f with the value v for x. *)
Bind(f, x, v) == [y \in DOMAIN f \cup {x} |-> IF y = x THEN v ELSE f[y]]

(* The stubs that traverse_parts makes, by their place in the email.       *)
Stubs(m) == {p \in DOMAIN Parts[m] : Parts[m][p] = "file"}

-----------------------------------------------------------------------------
(* The mailbox. *)

Arrive(m) ==
    /\ \A i \in DOMAIN box : box[i] # m
    /\ Len(box) < MaxMails
    /\ box' = Append(box, m)
    /\ UNCHANGED <<away, service, pc, listing, handling, ledger, troubles>>

-----------------------------------------------------------------------------
(* connect and fetch_new_messages. *)

(* The engine calls connect once; a connector that fails is left out.      *)
Connect ==
    /\ pc = "off"
    /\ pc' = "idle"
    /\ \/ service' = TRUE /\ UNCHANGED troubles
       \/ service' = FALSE /\ Trouble
    /\ UNCHANGED <<box, away, listing, handling, ledger>>

Fetch ==
    /\ pc = "idle" /\ service
    /\ pc' = "list" /\ token' = Len(box) /\ envelopes' = << >>
    /\ UNCHANGED <<box, away, service, page, more, handling, ledger, troubles>>

(* A cycle of an engine that has no connector. *)
EmptyCycle ==
    /\ pc = "idle" /\ ~service
    /\ UNCHANGED vars

(* Mutant: a last page that is not full is counted as full. *)
ListWholePage ==
    /\ pc = "list"
    /\ LET n == Smaller(Smaller(PageSize, Window - Len(envelopes)), token)
       IN /\ page' = [i \in 1..n |-> box[token + 1 - i]]
          /\ token' = token - PageSize
          /\ more' = (token > n)
    /\ pc' = "page"
    /\ UNCHANGED <<box, away, service, envelopes, handling, ledger, troubles>>

(* messages.list: the emails below the token, the newest first.            *)
List ==
    /\ pc = "list"
    /\ LET n == Smaller(Smaller(PageSize, Window - Len(envelopes)), token)
       IN /\ page' = [i \in 1..n |-> box[token + 1 - i]]
          /\ token' = token - n
          /\ more' = (token > n)
    /\ pc' = "page"
    /\ UNCHANGED <<box, away, service, envelopes, handling, ledger, troubles>>

(* messages.get and the parser, which returns nothing without a stub.      *)
Get ==
    /\ pc = "page" /\ page # << >> /\ Len(envelopes) < Window
    /\ envelopes' = IF Stubs(Head(page)) = {} THEN envelopes
                    ELSE Append(envelopes, Head(page))
    /\ page' = Tail(page)
    /\ UNCHANGED <<box, away, service, pc, more, token, handling, ledger, troubles>>

(* The loop over the envelopes begins, unless there are none.              *)
Return(found) ==
    /\ batch' = found
    /\ pc' = IF found = << >> THEN "idle" ELSE "loop"
    /\ UNCHANGED <<box, away, service, listing, cur, got, attempts, failed, ledger>>

PageDone == pc = "page" /\ (page = << >> \/ Len(envelopes) = Window)

(* Mutant: the first page is taken for the whole list. *)
MorePagesNever == FALSE

MorePages == more /\ Len(envelopes) < Window

NextPage ==
    /\ PageDone /\ MorePages
    /\ pc' = "list"
    /\ UNCHANGED <<box, away, service, listing, handling, ledger, troubles>>

EndFetch ==
    /\ PageDone /\ ~MorePages
    /\ Return(envelopes)
    /\ UNCHANGED troubles

(* A list or a get that raises: what there is so far is returned.          *)
FetchRaises ==
    /\ pc \in {"list", "page"} /\ Trouble
    /\ Return(envelopes)

-----------------------------------------------------------------------------
(* The inbox loop. *)

Known(m) == m \in DOMAIN ledger

Enter(m, files) == ledger' = Bind(ledger, m, [of |-> m, files |-> files])

(* The next envelope is taken, and l is where it goes on.                  *)
Take(l) ==
    /\ pc = "loop" /\ batch # << >>
    /\ batch' = Tail(batch)
    /\ cur' = Head(batch) /\ got' = << >> /\ attempts' = 0 /\ failed' = << >>
    /\ pc' = IF l = "loop" /\ Len(batch) = 1 THEN "idle" ELSE l
    /\ UNCHANGED <<box, away, service, listing>>

SkipKnown ==
    /\ Take("loop") /\ Known(cur')
    /\ UNCHANGED <<ledger, troubles>>

Exclude ==
    /\ Take("ack") /\ ~Known(cur') /\ cur' \in Excluded
    /\ Enter(cur', << >>)
    /\ UNCHANGED troubles

Begin ==
    /\ Take("download") /\ ~Known(cur') /\ cur' \notin Excluded
    /\ UNCHANGED <<ledger, troubles>>

Resume == pc' = IF batch = << >> THEN "idle" ELSE "loop"

(* The stub that the loop over them is at: in the order of the email.      *)
NextStub(p) == LET left == Stubs(cur) \ DOMAIN got
               IN p \in left /\ \A q \in left : p <= q

Downloading == pc = "download" /\ DOMAIN got # Stubs(cur)

Payload(m, p) == <<m, p>>

(* Mutant: the attempts are counted by the email and not by the call.      *)
DownloadCounting ==
    /\ Downloading
    /\ \E p \in Stubs(cur) : NextStub(p) /\ got' = Bind(got, p, Payload(cur, p))
    /\ UNCHANGED <<box, away, service, pc, listing, batch, cur, attempts, failed, ledger, troubles>>

Download ==
    /\ Downloading
    /\ \E p \in Stubs(cur) : NextStub(p) /\ got' = Bind(got, p, Payload(cur, p))
    /\ attempts' = 0
    /\ UNCHANGED <<box, away, service, pc, listing, batch, cur, failed, ledger, troubles>>

(* stop_after_attempt(retries + 1) *)
LastAttempt == attempts + 1 = Retries + 1

(* Mutant: when the attempts are used up an empty stream is returned.      *)
DownloadGivesUp ==
    /\ Downloading /\ Trouble
    /\ attempts' = IF LastAttempt THEN 0 ELSE attempts + 1
    /\ \E p \in Stubs(cur) :
         NextStub(p) /\ got' = IF LastAttempt THEN Bind(got, p, << >>) ELSE got
    /\ UNCHANGED <<box, away, service, pc, listing, batch, cur, failed, ledger>>

Failed(p) == IF p \in DOMAIN failed THEN failed[p] ELSE 0

(* attachments.get raises; the last attempt's exception is raised again,   *)
(* and fails the envelope.                                                 *)
DownloadRaises ==
    /\ Downloading /\ Trouble
    /\ attempts' = attempts + 1
    /\ \E p \in Stubs(cur) : NextStub(p) /\ failed' = Bind(failed, p, Failed(p) + 1)
    /\ IF LastAttempt THEN Resume ELSE UNCHANGED pc
    /\ UNCHANGED <<box, away, service, listing, batch, cur, got, ledger>>

(* Any other exception in _process_envelope, whose files are swept: the    *)
(* size ceiling, the disk, the database.  There is no second attempt.      *)
Raise ==
    /\ pc = "download" /\ Trouble
    /\ Resume
    /\ UNCHANGED <<box, away, service, listing, handling, ledger>>

Commit ==
    /\ pc = "download" /\ DOMAIN got = Stubs(cur)
    /\ Enter(cur, got)
    /\ pc' = "ack"
    /\ UNCHANGED <<box, away, service, listing, handling, troubles>>

(* messages.modify, whose exceptions are forgotten. *)
Acknowledge ==
    /\ pc = "ack"
    /\ \/ away' = away \cup {cur} /\ UNCHANGED troubles
       \/ UNCHANGED away /\ Trouble
    /\ Resume
    /\ UNCHANGED <<box, service, listing, handling, ledger>>

(* The process ends at any point; Connect is its successor's. *)
Crash ==
    /\ pc # "off" /\ Trouble
    /\ pc' = "off" /\ service' = FALSE
    /\ page' = << >> /\ more' = FALSE /\ token' = 0 /\ envelopes' = << >>
    /\ batch' = << >> /\ cur' = NoMail /\ got' = << >> /\ attempts' = 0 /\ failed' = << >>
    /\ UNCHANGED <<box, away, ledger>>

(* The calls as they succeed. *)
Engine ==
    \/ Connect \/ Fetch \/ EmptyCycle \/ List \/ Get \/ NextPage \/ EndFetch
    \/ SkipKnown \/ Exclude \/ Begin
    \/ Download \/ Commit \/ Acknowledge

Next ==
    \/ Engine \/ FetchRaises \/ DownloadRaises \/ Raise \/ Crash
    \/ \E m \in Mails : Arrive(m)

Spec == Init /\ [][Next]_vars

(* run_sync is sequential and watch calls it for ever; a process that died *)
(* is started again.                                                       *)
FairSpec == Spec /\ WF_vars(Engine)

-----------------------------------------------------------------------------
(* What the loop holds are emails of the mailbox, and no more envelopes    *)
(* are collected, however the pages fall, than were asked for.             *)
TypeOK ==
    /\ box \in Seq(Mails) /\ away \subseteq Mails /\ service \in BOOLEAN
    /\ pc \in {"off", "idle", "list", "page", "loop", "download", "ack"}
    /\ page \in Seq(Mails) /\ more \in BOOLEAN /\ token \in 0..Len(box)
    /\ envelopes \in Seq(Mails) /\ Len(envelopes) <= Window
    /\ batch \in Seq(Mails)
    /\ pc \in {"download", "ack"} => cur \in Mails /\ DOMAIN got \subseteq Stubs(cur)
    /\ attempts \in 0..Retries + 1
    /\ \A p \in DOMAIN failed : failed[p] \in 1..Retries + 1
    /\ DOMAIN ledger \subseteq Mails
    /\ troubles \in 0..MaxTroubles

(* What the email's attachments hold, without the parts that carry their   *)
(* bytes themselves: the connector does not see them.                      *)
Contents == [m \in Mails |-> [p \in Stubs(m) |-> Payload(m, p)]]

(* Gmail's ids are the emails' own. *)
Kin == [m \in Mails |-> {m}]
Nameless == {}

(* The promise of MailIntake, through pages, retries, partial lists and    *)
(* crashes (gmail_connector.py 53-193; engine.py 168-238).                 *)
Intake == INSTANCE MailIntake WITH taken <- ledger

ImplementsIntake == Intake!Init /\ [][Intake!Next]_<<ledger, away>>

Present(m) == \E i \in DOMAIN box : box[i] = m
Recorded(m) == m \in DOMAIN ledger

(* Window emails with a stub are newer. *)
Beyond(m) == \E i \in DOMAIN box : box[i] = m /\
                Cardinality({k \in i+1..Len(box) : Stubs(box[k]) # {}}) >= Window

(* An email with an attachment that the parser sees is recorded in the     *)
(* end, on whatever page it is and whatever calls fail, unless as many as  *)
(* one fetch returns come after it or the process runs without the         *)
(* connector (gmail_connector.py 62-95).                                   *)
NewestGetIn ==
    \A m \in Mails : Stubs(m) # {} =>
        (Present(m) ~> (Recorded(m) \/ Beyond(m) \/ (pc # "off" /\ ~service)))

(* Each attachment has all the retries for itself: an envelope is given up *)
(* by a download that fails only if Retries + 1 calls have failed for one  *)
(* of its attachments, however the failures before it were spread          *)
(* (resilience.py 44-50, gmail_connector.py 163).  What else raises while  *)
(* an envelope is processed is not retried (engine.py 240-250).            *)
OutagesAbsorbed ==
    [][(pc = "download" /\ pc' \in {"idle", "loop"} /\ failed' # failed)
          => \E p \in DOMAIN failed' : failed'[p] > Retries]_vars
==============================================================================
