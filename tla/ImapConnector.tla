---------------------------- MODULE ImapConnector ----------------------------
(***************************************************************************)
(* IMAPConnector and the inbox loop of run_sync that consumes it.  Within  *)
(* one session of the protocol an email goes by its sequence number, which *)
(* stands for the same email until the session ends: the server announces  *)
(* removals only between commands that this client never sends.  The next  *)
(* session numbers what is left from 1.                                    *)
(*                                                                         *)
(* The triage of unknown senders is FolderControl's.  The moves to the     *)
(* control folders are the no-ops of the base class here.                  *)
(*                                                                         *)
(* The loop's sets are handled from the largest number down: the newest    *)
(* email first.                                                            *)
(***************************************************************************)
EXTENDS Integers, Sequences, FiniteSets, SequencesExt

CONSTANTS
    Mails,
    MessageId,  \* [Mails -> Message-ID header, or NoId if there is none]
    NoId,
    Parts,      \* [Mails -> sequence of kinds of attachment, see Kinds]
    Malformed,  \* emails on which the parsing of a header raises
    Excluded,   \* emails of senders on the exclusion list
    Readers,    \* emails that their reader may open elsewhere
    Removable,  \* emails that their reader may delete
    Window,     \* max_messages, 50
    MaxMails,   \* bound: emails that arrive
    MaxTroubles \* bound: calls that fail on their own, connections lost or
                \* refused, processes killed

(* A file; one that get_content cannot decode; an email forwarded as an     *)
(* attachment; a signature image.                                          *)
Kinds == {"file", "garbled", "forwarded", "logo"}

ASSUME ImapAssumption ==
    /\ Parts \in [Mails -> Seq(Kinds)]
    /\ {Malformed, Excluded, Readers, Removable} \subseteq SUBSET Mails
    /\ Window \in Nat \ {0}
    /\ MaxMails \in Nat /\ MaxTroubles \in Nat

VARIABLES
    box,        \* the mailbox in the order of arrival
    away,       \* emails this program flagged \Seen
    read,       \* emails somebody else flagged \Seen
    gone,       \* emails that were deleted
    session,    \* of the client: none, open, dropped
    view,       \* what the session's sequence numbers stand for
    cache,      \* _cached_payloads, by <<id, number, part>>
    mids,       \* _msg_id_to_mid
    pc,         \* off, idle, fetch, loop, download, ack
    listing,    \* numbers selected and not fetched yet
    batch,      \* numbers of the envelopes not reached yet
    cur, got,   \* the number of the envelope at hand, payloads read so far,
                \* by part
    part,       \* attachments handled so far
    ledger,     \* rows of messages, by id
    troubles    \* failures so far

mailbox == <<box, away, read, gone>>
client == <<session, view, cache, mids>>
control == <<pc, listing, batch, cur, got, part>>
vars == <<box, away, read, gone, session, view, cache, mids,
          pc, listing, batch, cur, got, part, ledger, troubles>>

Init ==
    /\ box = << >> /\ away = {} /\ read = {} /\ gone = {}
    /\ session = "none" /\ view = << >> /\ cache = << >> /\ mids = << >>
    /\ pc = "off" /\ listing = {} /\ batch = {} /\ cur = 0 /\ got = << >> /\ part = 0
    /\ ledger = << >>
    /\ troubles = 0

Elements(s) == {s[i] : i \in DOMAIN s}
Largest(n, S) == n \in S /\ \A k \in S : k <= n
Newest(S, k) == {n \in S : Cardinality({x \in S : x > n}) < k}

(* f with the value v for x. *)
Bind(f, x, v) == [y \in DOMAIN f \cup {x} |-> IF y = x THEN v ELSE f[y]]

(* The id of an email: without a header, its number.                       *)
LedgerId(n) == IF MessageId[view[n]] = NoId
               THEN <<"imap", n>> ELSE <<"header", MessageId[view[n]]>>

(* The key has the number as well: two emails may have one Message-ID.     *)
Key(n, p) == <<LedgerId(n), n, p>>

(* get_content: bytes, or nothing, or an object that is no stream of bytes.*)
Empty == << >>
Unstreamable == <<"object">>
Payload(m, p) == CASE Parts[m][p] \in {"file", "logo"} -> <<m, p>>
                   [] Parts[m][p] = "garbled" -> Empty
                   [] Parts[m][p] = "forwarded" -> Unstreamable

(* What the environment may do at most MaxTroubles times. *)
Trouble == troubles < MaxTroubles /\ troubles' = troubles + 1

-----------------------------------------------------------------------------
(* The mailbox, its reader and the network. *)

Arrive(m) ==
    /\ m \notin Elements(box) \cup gone
    /\ Cardinality(Elements(box) \cup gone) < MaxMails
    /\ box' = Append(box, m)
    /\ view' = IF session = "open" THEN Append(view, m) ELSE view
    /\ UNCHANGED <<away, read, gone, session, cache, mids, control, ledger, troubles>>

ReadElsewhere(m) ==
    /\ m \in Readers \cap Elements(box) /\ m \notin away \cup read
    /\ read' = read \cup {m}
    /\ UNCHANGED <<box, away, gone, client, control, ledger, troubles>>

DeleteElsewhere(m) ==
    /\ m \in Removable
    /\ \E i \in DOMAIN box : box[i] = m /\ box' = RemoveAt(box, i)
    /\ gone' = gone \cup {m}
    /\ UNCHANGED <<away, read, client, control, ledger, troubles>>

LoseConnection ==
    /\ session = "open" /\ Trouble
    /\ session' = "dropped"
    /\ UNCHANGED <<mailbox, view, cache, mids, control, ledger>>

-----------------------------------------------------------------------------
(* The process. *)

(* connect, when the engine is built; there is no other call of it.        *)
Connect ==
    /\ pc = "off"
    /\ pc' = "idle" /\ session' = "open" /\ view' = box
    /\ UNCHANGED <<mailbox, cache, mids, listing, batch, cur, got, part, ledger, troubles>>

(* The connector is not added to the engine's list: its cycles are empty.  *)
ConnectFails ==
    /\ pc = "off" /\ Trouble
    /\ pc' = "idle" /\ session' = "dropped"
    /\ UNCHANGED <<mailbox, view, cache, mids, listing, batch, cur, got, part, ledger>>

Unseen == {n \in DOMAIN view : view[n] \notin away \cup read \cup gone}

(* Mutant: the slice leaves one of the newest out. *)
SearchShort ==
    /\ pc = "idle"
    /\ listing' = IF session = "open" THEN Newest(Unseen, Window - 1) ELSE {}
    /\ pc' = "fetch"
    /\ UNCHANGED <<mailbox, client, batch, cur, got, part, ledger, troubles>>

(* fetch_new_messages: SEARCH UNSEEN, or an empty list if the call fails.  *)
Search ==
    /\ pc = "idle"
    /\ listing' = IF session = "open" THEN Newest(Unseen, Window) ELSE {}
    /\ pc' = "fetch"
    /\ UNCHANGED <<mailbox, client, batch, cur, got, part, ledger, troubles>>

CanFetch(n) == session = "open" /\ view[n] \notin gone

Keys(n) == {Key(n, p) : p \in DOMAIN Parts[view[n]]}

Caching(n) == [k \in DOMAIN cache \cup Keys(n) |->
                 IF k \in Keys(n) THEN Payload(view[n], k[3]) ELSE cache[k]]

(* Mutant: an email that was fetched before is not cached again.           *)
FetchOnce ==
    /\ pc = "fetch"
    /\ \E n \in listing :
       /\ Largest(n, listing)
       /\ CanFetch(n) /\ view[n] \notin Malformed
       /\ listing' = listing \ {n}
       /\ mids' = Bind(mids, LedgerId(n), n)
       /\ cache' = IF LedgerId(n) \in DOMAIN mids THEN cache ELSE Caching(n)
       /\ batch' = IF Parts[view[n]] = << >> THEN batch ELSE batch \cup {n}
    /\ UNCHANGED <<mailbox, session, view, pc, cur, got, part, ledger, troubles>>

(* FETCH BODY.PEEK[]: emails without attachments are not returned, and     *)
(* nothing marks them as seen.                                             *)
FetchMail ==
    /\ pc = "fetch"
    /\ \E n \in listing :
       /\ Largest(n, listing)
       /\ CanFetch(n) /\ view[n] \notin Malformed
       /\ listing' = listing \ {n}
       /\ mids' = Bind(mids, LedgerId(n), n)
       /\ cache' = Caching(n)
       /\ batch' = IF Parts[view[n]] = << >> THEN batch ELSE batch \cup {n}
    /\ UNCHANGED <<mailbox, session, view, pc, cur, got, part, ledger, troubles>>

(* The inner except: one email less. *)
SkipMail ==
    /\ pc = "fetch"
    /\ \E n \in listing :
       /\ Largest(n, listing)
       /\ \/ ~CanFetch(n) /\ UNCHANGED troubles
          \/ CanFetch(n) /\ Trouble
       /\ listing' = listing \ {n}
    /\ UNCHANGED <<mailbox, client, pc, batch, cur, got, part, ledger>>

(* The outer except: what was collected before is returned, the rest of    *)
(* the list is not looked at.  In-Reply-To and Date, which raise, come     *)
(* after the Message-ID.                                                   *)
StopAtMalformed ==
    /\ pc = "fetch"
    /\ \E n \in listing :
       /\ Largest(n, listing)
       /\ CanFetch(n) /\ view[n] \in Malformed
       /\ mids' = Bind(mids, LedgerId(n), n)
    /\ listing' = {}
    /\ UNCHANGED <<mailbox, session, view, cache, pc, batch, cur, got, part, ledger, troubles>>

EndFetch ==
    /\ pc = "fetch" /\ listing = {}
    /\ pc' = IF batch = {} THEN "idle" ELSE "loop"
    /\ UNCHANGED <<mailbox, client, listing, batch, cur, got, part, ledger, troubles>>

-----------------------------------------------------------------------------
(* The inbox loop of run_sync. *)

Known(n) == LedgerId(n) \in DOMAIN ledger

(* Mutant: the count of handled attachments is that of the last email.     *)
TakeCounting(n, l) ==
    /\ pc = "loop" /\ Largest(n, batch)
    /\ batch' = batch \ {n}
    /\ cur' = n /\ got' = << >> /\ part' = part
    /\ pc' = IF l = "loop" /\ batch = {n} THEN "idle" ELSE l

(* The next envelope of the batch is taken, and l is where it goes on.     *)
Take(n, l) ==
    /\ pc = "loop" /\ Largest(n, batch)
    /\ batch' = batch \ {n}
    /\ cur' = n /\ got' = << >> /\ part' = 0
    /\ pc' = IF l = "loop" /\ batch = {n} THEN "idle" ELSE l

(* message_exists: skipped, and not flagged again either. *)
SkipKnown ==
    /\ \E n \in batch : Known(n) /\ Take(n, "loop")
    /\ UNCHANGED <<mailbox, client, listing, ledger, troubles>>

Enter(n, files) == ledger' = Bind(ledger, LedgerId(n), [of |-> view[n], files |-> files])

(* record_excluded_message. *)
Exclude ==
    /\ \E n \in batch : /\ ~Known(n) /\ view[n] \in Excluded
                        /\ Take(n, "ack")
                        /\ Enter(n, << >>)
    /\ UNCHANGED <<mailbox, client, listing, troubles>>

Begin ==
    /\ \E n \in batch : /\ ~Known(n) /\ view[n] \notin Excluded
                        /\ Take(n, "download")
    /\ UNCHANGED <<mailbox, client, listing, ledger, troubles>>

(* Back to the loop, or to the end of the cycle. *)
Resume == pc' = IF batch = {} THEN "idle" ELSE "loop"

NextKind == Parts[view[cur]][part + 1]
Downloading == pc = "download" /\ part < Len(Parts[view[cur]])

(* The signature filter: the payload is left in the cache. *)
SkipLogo ==
    /\ Downloading /\ NextKind = "logo"
    /\ part' = part + 1
    /\ UNCHANGED <<mailbox, client, pc, listing, batch, cur, got, ledger, troubles>>

(* download_attachment_stream: the payload is taken out of the cache, and  *)
(* what is not there is an empty stream.                                   *)
Popped == LET k == Key(cur, part + 1)
          IN IF k \in DOMAIN cache THEN cache[k] ELSE Empty

PopCache == cache' = [k \in DOMAIN cache \ {Key(cur, part + 1)} |-> cache[k]]

Download ==
    /\ Downloading /\ NextKind # "logo" /\ Popped # Unstreamable
    /\ got' = Bind(got, part + 1, Popped)
    /\ part' = part + 1
    /\ PopCache
    /\ UNCHANGED <<mailbox, session, view, mids, pc, listing, batch, cur, ledger, troubles>>

(* io.BytesIO raises on what is no bytes: the envelope has failed. *)
DownloadRaises ==
    /\ Downloading /\ NextKind # "logo" /\ Popped = Unstreamable
    /\ PopCache
    /\ Resume
    /\ UNCHANGED <<mailbox, session, view, mids, listing, batch, cur, got, part, ledger, troubles>>

(* Any other exception in _process_envelope, whose files are swept. *)
Raise ==
    /\ pc = "download" /\ Trouble
    /\ Resume
    /\ UNCHANGED <<mailbox, client, listing, batch, cur, got, part, ledger>>

Commit ==
    /\ pc = "download" /\ part = Len(Parts[view[cur]])
    /\ Enter(cur, got)
    /\ pc' = "ack"
    /\ UNCHANGED <<mailbox, client, listing, batch, cur, got, part, troubles>>

(* acknowledge_processed: the number the id had in the last listing. *)
Target == view[mids[LedgerId(cur)]]

Acknowledge ==
    /\ pc = "ack" /\ session = "open" /\ Target \notin gone
    /\ away' = away \cup {Target}
    /\ Resume
    /\ UNCHANGED <<box, read, gone, client, listing, batch, cur, got, part, ledger, troubles>>

(* Its errors are logged and forgotten. *)
AcknowledgeFails ==
    /\ pc = "ack"
    /\ \/ (session # "open" \/ Target \in gone) /\ UNCHANGED troubles
       \/ Trouble
    /\ Resume
    /\ UNCHANGED <<mailbox, client, listing, batch, cur, got, part, ledger>>

(* The process ends at any point; Connect is its successor's. *)
Crash ==
    /\ pc # "off" /\ Trouble
    /\ session' = "none" /\ view' = << >> /\ cache' = << >> /\ mids' = << >>
    /\ pc' = "off" /\ listing' = {} /\ batch' = {} /\ cur' = 0 /\ got' = << >> /\ part' = 0
    /\ UNCHANGED <<mailbox, ledger>>

Engine ==
    \/ Connect \/ Search \/ FetchMail \/ SkipMail \/ StopAtMalformed \/ EndFetch
    \/ SkipKnown \/ Exclude \/ Begin
    \/ SkipLogo \/ Download \/ DownloadRaises \/ Commit
    \/ Acknowledge \/ AcknowledgeFails

Next ==
    \/ Engine \/ ConnectFails \/ Raise \/ Crash \/ LoseConnection
    \/ \E m \in Mails : Arrive(m) \/ ReadElsewhere(m) \/ DeleteElsewhere(m)

Spec == Init /\ [][Next]_vars

(* run_sync is sequential and watch calls it for ever; a process that died *)
(* is started again.                                                       *)
FairSpec == Spec /\ WF_vars(Engine)

-----------------------------------------------------------------------------
(* Every variable keeps its type: what is cached or listed is an email of  *)
(* the session, what is recorded an email of the mailbox.                  *)
Numbers == 1..Len(view)

TypeOK ==
    /\ box \in Seq(Mails) /\ view \in Seq(Mails)
    /\ {away, read, gone} \subseteq SUBSET Mails
    /\ session \in {"none", "open", "dropped"}
    /\ \A k \in DOMAIN cache : k[2] \in Numbers /\ k = Key(k[2], k[3])
    /\ \A i \in DOMAIN mids : mids[i] \in Numbers /\ LedgerId(mids[i]) = i
    /\ pc \in {"off", "idle", "fetch", "loop", "download", "ack"}
    /\ listing \subseteq Numbers /\ batch \subseteq Numbers
    /\ cur \in Numbers \cup {0}
    /\ pc \in {"download", "ack"} => cur # 0 /\ part \in 0..Len(Parts[view[cur]])
    /\ \A i \in DOMAIN ledger : ledger[i].of \in Elements(box) \cup gone
    /\ troubles \in 0..MaxTroubles

(* The payloads that the attachments of an email stand for, by their place *)
(* in it: what cannot be decoded is delivered empty (imap_connector.py      *)
(* 156), a logo is not delivered.                                          *)
Wanted(m) == {p \in DOMAIN Parts[m] : Parts[m][p] # "logo"}

Contents == [m \in Mails |-> [p \in Wanted(m) |-> Payload(m, p)]]

(* Emails with one Message-ID count as one. *)
Kin == [m \in Mails |->
    {x \in Mails : x = m \/ (MessageId[x] = MessageId[m] /\ MessageId[m] # NoId)}]

(* Without the header an email is known by a number of one session.        *)
Nameless == {m \in Mails : MessageId[m] = NoId}

(* The connector and the loop keep the promise of MailIntake: no email is  *)
(* recorded with other bytes than its own or with an empty stream in place *)
(* of a file, however often its download was tried (193-197), none with a  *)
(* Message-ID that is recorded already (108-111), and \Seen is set on      *)
(* recorded emails only (199-207; engine.py 235-238).                      *)
Intake == INSTANCE MailIntake WITH taken <- ledger

ImplementsIntake == Intake!Init /\ [][Intake!Next]_<<ledger, away>>

Ingestible(m) == /\ Parts[m] # << >>
                 /\ \A p \in DOMAIN Parts[m] : Parts[m][p] # "forwarded"
                 /\ m \notin Malformed

Recorded(m) == \E i \in DOMAIN ledger : ledger[i].of \in Kin[m]
Present(m) == m \in Elements(box)

(* What keeps an email from being looked at: its reader was faster, more   *)
(* emails are unread than the window shows, one on which parsing raises is *)
(* listed before it, the connection is lost, or its number is the ledger   *)
(* id of another email.                                                    *)
Crowded == Cardinality(Unseen) > Window
Hidden(m) == \E n, k \in Unseen : view[n] = m /\ k > n /\ view[k] \in Malformed
Mistaken(m) == /\ MessageId[m] = NoId
               /\ \E n \in DOMAIN view : view[n] = m /\ Known(n)
Excused(m) == \/ m \in read \cup gone \/ Crowded \/ Hidden(m)
              \/ session = "dropped" \/ Mistaken(m)

(* An email with attachments is recorded in the end, whatever calls fail,  *)
(* processes die and emails come before it, unless one of these five       *)
(* causes comes up again and again (imap_connector.py 78-191).             *)
OnlyFiveCausesStarve ==
    \A m \in Mails : Ingestible(m) => (Present(m) ~> (Recorded(m) \/ Excused(m)))

(* Master project specification, line 15: "Under no circumstances should   *)
(* an email or attachment be skipped, permanently lost, or partially       *)
(* corrupted due to network drops, concurrent mobile reads, or application *)
(* crashes."  None of the five causes excuses.                             *)
NoMailSkipped ==
    \A m \in Mails : Parts[m] # << >> => (Present(m) ~> (Recorded(m) \/ m \in gone))

(* An email without Message-ID is skipped as known for its own row only    *)
(* (imap_connector.py 108-111).  Numbers are of one session: it is not so. *)
NumbersNameOne ==
    \A n \in DOMAIN view :
        MessageId[view[n]] = NoId /\ Known(n) => ledger[LedgerId(n)].of = view[n]

(* session_handover_summary.md 31: "zero duplicate downloads", of any      *)
(* email.  One without Message-ID that was recorded and not flagged is     *)
(* listed by another number in the next session.                           *)
RecordedOnce == \A i, j \in DOMAIN ledger : ledger[i].of = ledger[j].of => i = j
==============================================================================
