------------------------- MODULE ImapConnectorProofs -------------------------
(***************************************************************************)
(* Theorems about ImapConnector: its types, and that the connector with    *)
(* the inbox loop keeps the promise of MailIntake for any mailbox, window  *)
(* and number of failures.                                                 *)
(***************************************************************************)
EXTENDS ImapConnector, TLAPS

(* A process that is not there has neither session nor memory. *)
NothingRemembered ==
    pc = "off" => /\ session = "none" /\ view = << >> /\ cache = << >> /\ mids = << >>
                  /\ listing = {} /\ batch = {} /\ cur = 0

(* What has a number is in the mailbox or was. *)
ViewOfBox == \A n \in Numbers : view[n] \in Elements(box) \cup gone

(* What the loop will acknowledge has a number. *)
Targeted == /\ \A n \in batch : LedgerId(n) \in DOMAIN mids
            /\ pc \in {"download", "ack"} => LedgerId(cur) \in DOMAIN mids

TypeInv == TypeOK /\ NothingRemembered /\ ViewOfBox /\ Targeted

-----------------------------------------------------------------------------
(* A deletion takes one email out of the mailbox and leaves the others.    *)
LEMMA RemovedAt ==
    ASSUME NEW s \in Seq(Mails), NEW i \in DOMAIN s
    PROVE  /\ RemoveAt(s, i) \in Seq(Mails)
           /\ Elements(s) \subseteq Elements(RemoveAt(s, i)) \cup {s[i]}
<1> DEFINE a == SubSeq(s, 1, i - 1)  b == SubSeq(s, i + 1, Len(s))
<1>1. i \in 1..Len(s) /\ Len(s) \in Nat
  OBVIOUS
<1>2. /\ a \in Seq(Mails) /\ Len(a) = i - 1
      /\ \A k \in 1..(i - 1) : a[k] = s[k]
  BY <1>1
<1>3. /\ b \in Seq(Mails) /\ Len(b) = Len(s) - i
      /\ \A k \in 1..(Len(s) - i) : b[k] = s[i + k]
  BY <1>1
<1> HIDE DEF a, b
<1>4. /\ a \o b \in Seq(Mails) /\ Len(a \o b) = Len(s) - 1
      /\ \A k \in 1..(i - 1) : (a \o b)[k] = s[k]
      /\ \A k \in i..(Len(s) - 1) : (a \o b)[k] = s[k + 1]
  <2>1. a \o b \in Seq(Mails) /\ Len(a \o b) = Len(s) - 1
    BY <1>1, <1>2, <1>3
  <2>2. ASSUME NEW k \in 1..(i - 1) PROVE (a \o b)[k] = s[k]
    BY <1>1, <1>2, <1>3, <2>2
  <2>3. ASSUME NEW k \in i..(Len(s) - 1) PROVE (a \o b)[k] = s[k + 1]
    <3>1. k - (i - 1) \in 1..(Len(s) - i) /\ i + (k - (i - 1)) = k + 1
      BY <1>1, <2>3
    <3>2. (a \o b)[k] = b[k - (i - 1)]
      BY <1>1, <1>2, <1>3, <2>3
    <3>3. QED
      BY <1>3, <3>1, <3>2
  <2>4. QED
    BY <2>1, <2>2, <2>3
<1>5. RemoveAt(s, i) = a \o b
  BY DEF RemoveAt, a, b
<1>6. ASSUME NEW k \in DOMAIN s, k # i PROVE s[k] \in Elements(a \o b)
  <2>1. k \in 1..Len(s)
    OBVIOUS
  <2>2. CASE k < i
    <3>1. k \in DOMAIN (a \o b) /\ (a \o b)[k] = s[k]
      BY <1>1, <1>4, <2>1, <2>2
    <3>2. QED
      BY <3>1 DEF Elements
  <2>3. CASE k > i
    <3>1. k - 1 \in i..(Len(s) - 1) /\ (k - 1) + 1 = k
      BY <1>1, <2>1, <2>3
    <3>2. k - 1 \in DOMAIN (a \o b) /\ (a \o b)[k - 1] = s[k]
      BY <1>1, <1>4, <3>1
    <3>3. QED
      BY <3>2 DEF Elements
  <2>4. QED
    BY <1>1, <1>6, <2>1, <2>2, <2>3
<1>7. \A k \in DOMAIN s : s[k] \in Elements(a \o b) \cup {s[i]}
  BY <1>6
<1>8. Elements(s) \subseteq Elements(a \o b) \cup {s[i]}
  BY <1>7 DEF Elements
<1>9. QED
  BY <1>4, <1>5, <1>8

-----------------------------------------------------------------------------
(* With nothing in the mailbox and no process the types hold. *)
LEMMA InitTyped == Init => TypeInv
<1> SUFFICES ASSUME Init PROVE TypeInv
  OBVIOUS
<1>1. Numbers = {}
  BY DEF Init, Numbers
<1>2. {away, read, gone} \subseteq SUBSET Mails
  BY DEF Init
<1>3. TypeOK
  BY <1>1, <1>2, ImapAssumption DEF Init, TypeOK
<1>4. QED
  BY <1>1, <1>3 DEF Init, TypeInv, NothingRemembered, ViewOfBox, Targeted

(* What an email of the session is called does not change while it lasts.  *)
LEMMA NamesLast ==
    ASSUME NEW n, view'[n] = view[n]
    PROVE  LedgerId(n)' = LedgerId(n) /\ \A p : Key(n, p)' = Key(n, p)
BY DEF LedgerId, Key

(* The mailbox grows at its end, also in the session's eyes. *)
LEMMA ArriveTyped ==
    ASSUME TypeInv, NEW m \in Mails, Arrive(m)
    PROVE  TypeInv'
<1>1. TypeOK /\ ViewOfBox /\ box \in Seq(Mails) /\ view \in Seq(Mails)
  BY DEF TypeInv, TypeOK
<1>2. /\ box' \in Seq(Mails) /\ Elements(box) \cup {m} \subseteq Elements(box')
  <2>1. box' = Append(box, m)
    BY DEF Arrive
  <2>2. box' \in Seq(Mails) /\ Len(box') = Len(box) + 1 /\ box'[Len(box) + 1] = m
        /\ \A i \in 1..Len(box) : box'[i] = box[i]
    BY <1>1, <2>1
  <2>3. \A i \in DOMAIN box : i \in DOMAIN box' /\ box'[i] = box[i]
    BY <1>1, <2>2
  <2>4. Len(box) + 1 \in DOMAIN box'
    BY <1>1, <2>2
  <2>5. QED
    BY <2>2, <2>3, <2>4 DEF Elements
<1>3. /\ view' \in Seq(Mails) /\ Numbers \subseteq Numbers'
      /\ \A n \in Numbers : view'[n] = view[n]
      /\ \A n \in Numbers' : n \notin Numbers => view'[n] = m
  <2>1. CASE session = "open"
    <3>1. view' = Append(view, m)
      BY <2>1 DEF Arrive
    <3>2. QED
      BY <1>1, <3>1 DEF Numbers
  <2>2. CASE session # "open"
    BY <1>1, <2>2 DEF Arrive, Numbers
  <2>3. QED
    BY <2>1, <2>2
<1>4. \A n \in Numbers : LedgerId(n)' = LedgerId(n) /\ \A p : Key(n, p)' = Key(n, p)
  BY <1>3, NamesLast
<1>5. UNCHANGED <<away, read, gone, session, cache, mids, pc, listing, batch, cur, got, part,
                  ledger, troubles>>
  BY DEF Arrive, control
<1>6. TypeOK'
  <2>1. ASSUME NEW k \in DOMAIN cache'
        PROVE  k[2] \in Numbers' /\ k = Key(k[2], k[3])'
    <3>1. k[2] \in Numbers /\ k = Key(k[2], k[3])
      BY <1>1, <1>5 DEF TypeOK
    <3>2. QED
      BY <1>3, <1>4, <3>1
  <2>2. ASSUME NEW i \in DOMAIN mids'
        PROVE  (mids[i] \in Numbers /\ LedgerId(mids[i]) = i)'
    <3>1. mids[i] \in Numbers /\ LedgerId(mids[i]) = i /\ mids'[i] = mids[i]
      BY <1>1, <1>5 DEF TypeOK
    <3>2. mids'[i] \in Numbers' /\ view'[mids'[i]] = view[mids[i]]
      BY <1>3, <3>1
    <3>3. QED
      BY <3>1, <3>2 DEF LedgerId
  <2>3. pc \in {"download", "ack"} => cur # 0 /\ part \in 0..Len(Parts[view'[cur]])
    BY <1>1, <1>3 DEF TypeOK
  <2>4. \A i \in DOMAIN ledger' : ledger'[i].of \in Elements(box') \cup gone'
    BY <1>1, <1>2, <1>5 DEF TypeOK
  <2>5. QED
    BY <1>1, <1>2, <1>3, <1>5, <2>1, <2>2, <2>3, <2>4 DEF TypeOK
<1>7. ViewOfBox'
  BY <1>1, <1>2, <1>3, <1>5 DEF ViewOfBox
<1>8. NothingRemembered'
  <2>1. pc = "off" => session # "open"
    BY DEF TypeInv, NothingRemembered
  <2>2. QED
    BY <1>5, <2>1 DEF Arrive, TypeInv, NothingRemembered
<1>9. Targeted'
  <2>1. Targeted /\ batch \subseteq Numbers /\ (pc \in {"download", "ack"} => cur \in Numbers)
    BY DEF TypeInv, TypeOK
  <2>2. \A n : n \in batch' => LedgerId(n)' = LedgerId(n)
    BY <1>4, <1>5, <2>1
  <2>3. pc \in {"download", "ack"} => view'[cur'] = view[cur]
    BY <1>3, <1>5, <2>1
  <2>4. \A n \in batch' : LedgerId(n)' \in DOMAIN mids'
    BY <1>5, <2>1, <2>2 DEF Targeted
  <2>5. pc' \in {"download", "ack"} => (LedgerId(cur) \in DOMAIN mids)'
    BY <1>5, <2>1, <2>3 DEF Targeted, LedgerId
  <2>6. QED
    BY <2>4, <2>5 DEF Targeted
<1>10. QED
  BY <1>6, <1>7, <1>8, <1>9 DEF TypeInv

(* Somebody else reads or deletes an email, or the line is cut. *)
LEMMA ReaderTyped ==
    ASSUME TypeInv, NEW m,
           ReadElsewhere(m) \/ DeleteElsewhere(m) \/ LoseConnection
    PROVE  TypeInv'
<1>1. TypeOK /\ ViewOfBox /\ NothingRemembered
  BY DEF TypeInv
<1>2. /\ UNCHANGED <<view, cache, mids, pc, listing, batch, cur, got, part, ledger>>
      /\ session' = session \/ (session = "open" /\ session' = "dropped")
      /\ troubles' \in 0..MaxTroubles
  BY <1>1, ImapAssumption DEF ReadElsewhere, DeleteElsewhere, LoseConnection, Trouble, client,
     control, TypeOK
<1>3. /\ box' \in Seq(Mails) /\ {away', read', gone'} \subseteq SUBSET Mails
      /\ Elements(box) \cup gone \subseteq Elements(box') \cup gone'
  <2>1. CASE ReadElsewhere(m)
    BY <1>1, <2>1, ImapAssumption DEF ReadElsewhere, TypeOK
  <2>2. CASE DeleteElsewhere(m)
    <3>1. PICK i \in DOMAIN box : box[i] = m /\ box' = RemoveAt(box, i)
      BY <2>2 DEF DeleteElsewhere
    <3>2. box' \in Seq(Mails) /\ Elements(box) \subseteq Elements(box') \cup {m}
      BY <1>1, <3>1, RemovedAt DEF TypeOK
    <3>3. gone' = gone \cup {m} /\ away' = away /\ read' = read
      BY <2>2 DEF DeleteElsewhere
    <3>4. QED
      BY <1>1, <2>2, <3>2, <3>3, ImapAssumption DEF DeleteElsewhere, TypeOK
  <2>3. CASE LoseConnection
    BY <1>1, <2>3 DEF LoseConnection, mailbox, TypeOK
  <2>4. QED
    BY <2>1, <2>2, <2>3
<1>4. TypeOK'
  BY <1>1, <1>2, <1>3 DEF TypeOK, Numbers, Key, LedgerId
<1>5. ViewOfBox' /\ NothingRemembered'
  BY <1>1, <1>2, <1>3 DEF ViewOfBox, NothingRemembered, Numbers
<1>6. Targeted'
  BY <1>2 DEF TypeInv, Targeted, LedgerId
<1>7. QED
  BY <1>4, <1>5, <1>6 DEF TypeInv

(* A process comes, or comes without a connection, or goes. *)
LEMMA ProcessTyped ==
    ASSUME TypeInv, Connect \/ ConnectFails \/ Crash
    PROVE  TypeInv'
<1>1. TypeOK /\ ViewOfBox /\ NothingRemembered
  BY DEF TypeInv
<1>2. /\ UNCHANGED <<box, away, read, gone, ledger>>
      /\ session' \in {"none", "open", "dropped"} /\ pc' \in {"off", "idle"}
      /\ cache' = << >> /\ mids' = << >> /\ listing' = {} /\ batch' = {} /\ cur' = 0
      /\ view' = box \/ view' = << >>
      /\ troubles' \in 0..MaxTroubles
      /\ pc' = "off" => session' = "none" /\ view' = << >>
  <2>1. CASE Connect
    BY <1>1, <2>1 DEF Connect, mailbox, NothingRemembered, TypeOK
  <2>2. CASE ConnectFails
    BY <1>1, <2>2, ImapAssumption DEF ConnectFails, Trouble, mailbox, NothingRemembered, TypeOK
  <2>3. CASE Crash
    BY <1>1, <2>3, ImapAssumption DEF Crash, Trouble, mailbox, TypeOK
  <2>4. QED
    BY <2>1, <2>2, <2>3
<1>3. view' \in Seq(Mails)
  <2>1. box \in Seq(Mails) /\ << >> \in Seq(Mails)
    BY <1>1 DEF TypeOK
  <2>2. QED
    BY <1>2, <2>1
<1>4. TypeOK'
  BY <1>1, <1>2, <1>3 DEF TypeOK
<1>5. ViewOfBox' /\ NothingRemembered' /\ Targeted'
  BY <1>1, <1>2, <1>3 DEF ViewOfBox, NothingRemembered, Targeted, Numbers, Elements, TypeOK
<1>6. QED
  BY <1>4, <1>5 DEF TypeInv

(* Everything else is the process's, and leaves mailbox and session alone. *)
InSession == UNCHANGED <<box, read, gone, session, view>> /\ pc # "off" /\ pc' # "off"

LEMMA InSessionTyped ==
    ASSUME TypeInv, InSession,
           away' \subseteq Mails,
           (\A k \in DOMAIN cache : k[2] \in Numbers /\ k = Key(k[2], k[3]))',
           (\A i \in DOMAIN mids : mids[i] \in Numbers /\ LedgerId(mids[i]) = i)',
           pc' \in {"idle", "fetch", "loop", "download", "ack"},
           listing' \subseteq Numbers, batch' \subseteq Numbers, cur' \in Numbers \cup {0},
           pc' \in {"download", "ack"} => cur' # 0 /\ part' \in 0..Len(Parts[view[cur']]),
           \A i \in DOMAIN ledger' : ledger'[i].of \in Elements(box) \cup gone,
           troubles' \in 0..MaxTroubles, Targeted'
    PROVE  TypeInv'
<1>1. TypeOK'
  BY DEF TypeInv, TypeOK, InSession, Numbers
<1>2. ViewOfBox' /\ NothingRemembered'
  BY DEF TypeInv, ViewOfBox, NothingRemembered, InSession, Numbers
<1>3. QED
  BY <1>1, <1>2 DEF TypeInv

(* SEARCH and FETCH (imap_connector.py 78-191). *)
LEMMA FetchTyped ==
    ASSUME TypeInv, Search \/ FetchMail \/ SkipMail \/ StopAtMalformed \/ EndFetch
    PROVE  TypeInv'
<1>1. TypeOK /\ Targeted
  BY DEF TypeInv
<1>2. InSession /\ UNCHANGED <<away, cur, got, part, ledger>>
  BY DEF InSession, Search, FetchMail, SkipMail, StopAtMalformed, EndFetch, mailbox, client
<1>3. CASE Search \/ SkipMail \/ EndFetch
  <2>1. UNCHANGED <<cache, mids>> /\ pc' \in {"idle", "fetch", "loop"}
    BY <1>3 DEF Search, SkipMail, EndFetch, client
  <2>2. listing' \subseteq Numbers /\ batch' = batch /\ troubles' \in 0..MaxTroubles
    <3>1. Newest(Unseen, Window) \subseteq Numbers
      BY <1>1 DEF Newest, Unseen, Numbers, TypeOK
    <3>2. listing' \subseteq listing \cup Newest(Unseen, Window)
      BY <1>3 DEF Search, SkipMail, EndFetch
    <3>3. QED
      BY <1>1, <1>3, <3>1, <3>2, ImapAssumption DEF Search, SkipMail, EndFetch, Trouble, TypeOK
  <2>3. /\ (\A k \in DOMAIN cache : k[2] \in Numbers /\ k = Key(k[2], k[3]))'
        /\ (\A i \in DOMAIN mids : mids[i] \in Numbers /\ LedgerId(mids[i]) = i)'
    BY <1>1, <1>2, <2>1 DEF TypeOK, InSession, Numbers, Key, LedgerId
  <2>4. Targeted'
    BY <1>1, <1>2, <2>1, <2>2 DEF Targeted, InSession, LedgerId
  <2>5. QED
    BY <1>1, <1>2, <2>1, <2>2, <2>3, <2>4, InSessionTyped DEF TypeOK
<1>4. CASE FetchMail \/ StopAtMalformed
  <2>1. PICK n \in listing :
          /\ mids' = Bind(mids, LedgerId(n), n)
          /\ cache' = Caching(n) \/ cache' = cache
          /\ batch' \subseteq batch \cup {n}
          /\ listing' \subseteq listing
    BY <1>4 DEF FetchMail, StopAtMalformed
  <2>2. n \in Numbers /\ listing' \subseteq Numbers /\ batch' \subseteq Numbers
    BY <1>1, <2>1 DEF TypeOK
  <2>3. pc' = "fetch" /\ troubles' = troubles
    BY <1>4 DEF FetchMail, StopAtMalformed
  <2>4. (\A k \in DOMAIN cache : k[2] \in Numbers /\ k = Key(k[2], k[3]))'
    <3>1. \A k \in DOMAIN cache : k[2] \in Numbers /\ k = Key(k[2], k[3])
      BY <1>1 DEF TypeOK
    <3>2. \A k \in Keys(n) : k[2] \in Numbers /\ k = Key(k[2], k[3])
      BY <2>2 DEF Keys, Key
    <3>3. DOMAIN cache' \subseteq DOMAIN cache \cup Keys(n)
      BY <2>1 DEF Caching
    <3>4. QED
      BY <1>2, <3>1, <3>2, <3>3 DEF InSession, Numbers, Key, LedgerId
  <2>5. (\A i \in DOMAIN mids : mids[i] \in Numbers /\ LedgerId(mids[i]) = i)'
    <3>1. \A i \in DOMAIN mids : mids[i] \in Numbers /\ LedgerId(mids[i]) = i
      BY <1>1 DEF TypeOK
    <3>2. \A i \in DOMAIN mids' : mids'[i] \in Numbers /\ LedgerId(mids'[i]) = i
      BY <2>1, <2>2, <3>1 DEF Bind
    <3>3. QED
      BY <1>2, <3>2 DEF InSession, Numbers, LedgerId
  <2>6. Targeted'
    <3>1. DOMAIN mids' = DOMAIN mids \cup {LedgerId(n)}
      BY <2>1 DEF Bind
    <3>2. \A k : LedgerId(k)' = LedgerId(k)
      BY <1>2 DEF InSession, LedgerId
    <3>3. QED
      BY <1>1, <2>1, <2>3, <3>1, <3>2 DEF Targeted
  <2>7. QED
    BY <1>1, <1>2, <2>2, <2>3, <2>4, <2>5, <2>6, InSessionTyped DEF TypeOK
<1>5. QED
  BY <1>3, <1>4

(* The loop takes the next envelope of the batch. *)
LEMMA TakeTyped ==
    ASSUME TypeInv, SkipKnown \/ Exclude \/ Begin
    PROVE  TypeInv'
<1>1. TypeOK /\ ViewOfBox /\ Targeted
  BY DEF TypeInv
<1>2. PICK n \in batch :
        /\ batch' = batch \ {n} /\ cur' = n /\ part' = 0
        /\ pc = "loop" /\ pc' \in {"idle", "loop", "ack", "download"}
        /\ ledger' = ledger \/ Enter(n, << >>)
  BY DEF SkipKnown, Exclude, Begin, Take
<1>3. InSession /\ UNCHANGED <<away, cache, mids, listing, troubles>>
  BY <1>2 DEF InSession, SkipKnown, Exclude, Begin, mailbox, client
<1>4. n \in Numbers /\ Parts[view[n]] \in Seq(Kinds) /\ n # 0
  BY <1>1, ImapAssumption DEF TypeOK, Numbers
<1>5. /\ (\A k \in DOMAIN cache : k[2] \in Numbers /\ k = Key(k[2], k[3]))'
      /\ (\A i \in DOMAIN mids : mids[i] \in Numbers /\ LedgerId(mids[i]) = i)'
  BY <1>1, <1>3 DEF TypeOK, InSession, Numbers, Key, LedgerId
<1>6. \A i \in DOMAIN ledger' : ledger'[i].of \in Elements(box) \cup gone
  BY <1>1, <1>2, <1>4 DEF Enter, ViewOfBox, TypeOK, Bind
<1>7. cur' # 0 /\ part' \in 0..Len(Parts[view[cur']])
  BY <1>2, <1>4
<1>8. Targeted'
  BY <1>1, <1>2, <1>3 DEF Targeted, InSession, LedgerId
<1>9. QED
  BY <1>1, <1>2, <1>3, <1>4, <1>5, <1>6, <1>7, <1>8, InSessionTyped DEF TypeOK

(* An envelope goes through the pipeline, and is acknowledged. *)
LEMMA EnvelopeTyped ==
    ASSUME TypeInv,
           \/ SkipLogo \/ Download \/ DownloadRaises \/ Raise \/ Commit
           \/ Acknowledge \/ AcknowledgeFails
    PROVE  TypeInv'
<1>1. TypeOK /\ ViewOfBox /\ Targeted
  BY DEF TypeInv
<1>2. /\ pc \in {"download", "ack"} /\ pc' \in {"idle", "loop", "download", "ack"}
      /\ InSession /\ UNCHANGED <<mids, listing, batch, cur>>
  BY DEF InSession, SkipLogo, Download, DownloadRaises, Downloading, Raise, Commit, Acknowledge,
     AcknowledgeFails, Resume, mailbox, client
<1>3. /\ cur \in Numbers /\ part \in 0..Len(Parts[view[cur]])
      /\ Len(Parts[view[cur]]) \in Nat
  BY <1>1, <1>2, ImapAssumption DEF TypeOK, Numbers
<1>4. part' \in 0..Len(Parts[view[cur]])
  BY <1>3 DEF SkipLogo, Download, DownloadRaises, Downloading, Raise, Commit, Acknowledge,
     AcknowledgeFails
<1>5. (\A k \in DOMAIN cache : k[2] \in Numbers /\ k = Key(k[2], k[3]))'
  <2>1. DOMAIN cache' \subseteq DOMAIN cache
    BY DEF SkipLogo, Download, DownloadRaises, Raise, Commit, Acknowledge,
       AcknowledgeFails, PopCache, client
  <2>2. QED
    BY <1>1, <1>2, <2>1 DEF TypeOK, InSession, Numbers, Key, LedgerId
<1>6. (\A i \in DOMAIN mids : mids[i] \in Numbers /\ LedgerId(mids[i]) = i)'
  BY <1>1, <1>2 DEF TypeOK, InSession, Numbers, LedgerId
<1>7. \A i \in DOMAIN ledger' : ledger'[i].of \in Elements(box) \cup gone
  <2>1. CASE Commit
    BY <1>1, <1>3, <2>1 DEF Commit, Enter, ViewOfBox, TypeOK, Bind
  <2>2. CASE ~Commit
    BY <1>1, <2>2 DEF SkipLogo, Download, DownloadRaises, Raise, Acknowledge,
       AcknowledgeFails, TypeOK
  <2>3. QED
    BY <2>1, <2>2
<1>8. away' \subseteq Mails
  <2>1. CASE Acknowledge
    <3>1. mids[LedgerId(cur)] \in Numbers
      BY <1>1, <1>2 DEF Targeted, TypeOK
    <3>2. Target \in Mails
      BY <1>1, <3>1 DEF Target, TypeOK, Numbers
    <3>3. QED
      BY <1>1, <2>1, <3>2 DEF Acknowledge, TypeOK
  <2>2. CASE ~Acknowledge
    BY <1>1, <2>2 DEF SkipLogo, Download, DownloadRaises, Raise, Commit, AcknowledgeFails,
       mailbox, TypeOK
  <2>3. QED
    BY <2>1, <2>2
<1>9. troubles' \in 0..MaxTroubles
  BY <1>1, ImapAssumption DEF SkipLogo, Download, DownloadRaises, Raise, Commit, Acknowledge,
     AcknowledgeFails, Trouble, TypeOK
<1>10. Targeted'
  BY <1>1, <1>2 DEF Targeted, InSession, LedgerId
<1>11. QED
  BY <1>1, <1>2, <1>3, <1>4, <1>5, <1>6, <1>7, <1>8, <1>9, <1>10, InSessionTyped DEF TypeOK

LEMMA StepTyped == TypeInv /\ [Next]_vars => TypeInv'
<1> SUFFICES ASSUME TypeInv, [Next]_vars PROVE TypeInv'
  OBVIOUS
<1>1. CASE UNCHANGED vars
  BY <1>1 DEF vars, TypeInv, TypeOK, NothingRemembered, ViewOfBox, Targeted, Numbers, Key, LedgerId
<1>2. CASE \E m \in Mails : Arrive(m) \/ ReadElsewhere(m) \/ DeleteElsewhere(m)
  BY <1>2, ArriveTyped, ReaderTyped
<1>3. CASE LoseConnection
  BY <1>3, ReaderTyped
<1>4. CASE Connect \/ ConnectFails \/ Crash
  BY <1>4, ProcessTyped
<1>5. CASE Search \/ FetchMail \/ SkipMail \/ StopAtMalformed \/ EndFetch
  BY <1>5, FetchTyped
<1>6. CASE SkipKnown \/ Exclude \/ Begin
  BY <1>6, TakeTyped
<1>7. CASE \/ SkipLogo \/ Download \/ DownloadRaises \/ Raise \/ Commit
           \/ Acknowledge \/ AcknowledgeFails
  BY <1>7, EnvelopeTyped
<1>8. QED
  BY <1>1, <1>2, <1>3, <1>4, <1>5, <1>6, <1>7 DEF Next, Engine

(* What is cached, listed or acknowledged is an email of the session, what *)
(* is recorded an email of the mailbox (imap_connector.py 78-207).         *)
THEOREM ImapTypeCorrect == Spec => []TypeOK
<1>1. TypeInv => TypeOK
  BY DEF TypeInv
<1>2. QED
  BY <1>1, InitTyped, StepTyped, PTL DEF Spec

-----------------------------------------------------------------------------
(***************************************************************************)
(* What enters the ledger, once and with its own bytes.                    *)
(***************************************************************************)

(* The cache holds nothing but what was fetched. *)
CacheTrue == \A k \in DOMAIN cache : cache[k] = Payload(view[k[2]], k[3])

(* No envelope of the batch has lost a payload. *)
Ready == \A n \in batch : Keys(n) \subseteq DOMAIN cache

(* The envelope at hand is new, what was read of it is what it holds, and  *)
(* the rest is in the cache.                                               *)
InHand == pc = "download" =>
    /\ ~Known(cur) /\ cur \notin batch
    /\ got = [p \in {p \in Wanted(view[cur]) : p <= part} |-> Payload(view[cur], p)]
    /\ \A p \in DOMAIN Parts[view[cur]] : p > part => Key(cur, p) \in DOMAIN cache

(* The one to be acknowledged has a row. *)
Done == pc = "ack" => Known(cur) /\ ledger[LedgerId(cur)].of = view[cur]

(* An email with a Message-ID has its row under it.                        *)
RowsNamed == \A i \in DOMAIN ledger :
    ledger[i].of \notin Nameless => i = <<"header", MessageId[ledger[i].of]>>

(* What is downloaded is from no excluded sender. *)
Admitted == pc = "download" => view[cur] \notin Excluded

IntakeInv == TypeInv /\ CacheTrue /\ Ready /\ InHand /\ Done /\ RowsNamed /\ Admitted

LEMMA InitIntake == Init => IntakeInv
BY InitTyped DEF Init, IntakeInv, CacheTrue, Ready, InHand, Done, RowsNamed, Admitted

(* The mailbox and the network disturb none of it. *)
LEMMA EnvironmentIntake ==
    ASSUME IntakeInv, NEW m, \/ m \in Mails /\ Arrive(m)
                             \/ ReadElsewhere(m) \/ DeleteElsewhere(m) \/ LoseConnection
    PROVE  CacheTrue' /\ Ready' /\ InHand' /\ Done'
<1>1. TypeOK /\ CacheTrue /\ Ready /\ InHand /\ Done
  BY DEF IntakeInv, TypeInv
<1>2. /\ UNCHANGED <<cache, pc, batch, cur, got, part, ledger>>
      /\ \A n \in Numbers : view'[n] = view[n]
  <2>1. CASE Arrive(m)
    <3>1. view' = view \/ view' = Append(view, m)
      BY <2>1 DEF Arrive
    <3>2. m \in Mails /\ view \in Seq(Mails)
      BY <1>1, <2>1 DEF TypeOK, Arrive, ReadElsewhere, DeleteElsewhere, LoseConnection
    <3>3. QED
      BY <2>1, <3>1, <3>2 DEF Arrive, control, Numbers
  <2>2. CASE ReadElsewhere(m) \/ DeleteElsewhere(m) \/ LoseConnection
    BY <2>2 DEF ReadElsewhere, DeleteElsewhere, LoseConnection, client, control
  <2>3. QED
    BY <2>1, <2>2
<1>3. \A n \in Numbers : LedgerId(n)' = LedgerId(n) /\ \A p : Key(n, p)' = Key(n, p)
  BY <1>2, NamesLast
<1>4. \A k \in DOMAIN cache : k[2] \in Numbers
  BY <1>1 DEF TypeOK
<1>5. CacheTrue'
  BY <1>1, <1>2, <1>4 DEF CacheTrue
<1>6. Ready'
  <2>1. \A n \in batch : n \in Numbers
    BY <1>1 DEF TypeOK
  <2>2. \A n \in batch : Keys(n)' = Keys(n)
    BY <1>2, <1>3, <2>1 DEF Keys
  <2>3. QED
    BY <1>1, <1>2, <2>2 DEF Ready
<1>7. pc \in {"download", "ack"} => /\ view'[cur'] = view[cur]
                                    /\ (Known(cur))' = Known(cur)
                                    /\ \A p : Key(cur, p)' = Key(cur, p)
  <2>1. pc \in {"download", "ack"} => cur \in Numbers
    BY <1>1 DEF TypeOK
  <2>2. QED
    BY <1>2, <2>1 DEF Known, LedgerId, Key
<1>8. InHand'
  BY <1>1, <1>2, <1>7 DEF InHand
<1>9. Done'
  BY <1>1, <1>2, <1>7 DEF Done, LedgerId
<1>10. QED
  BY <1>5, <1>6, <1>8, <1>9

(* A fetch renews the payloads of what it returns, so that an envelope     *)
(* that failed is whole again (imap_connector.py 161).                     *)
LEMMA FetchIntake ==
    ASSUME IntakeInv, Search \/ FetchMail \/ SkipMail \/ StopAtMalformed \/ EndFetch
    PROVE  CacheTrue' /\ Ready' /\ InHand' /\ Done'
<1>1. TypeOK /\ CacheTrue /\ Ready
  BY DEF IntakeInv, TypeInv
<1>2. UNCHANGED view /\ pc' \notin {"download", "ack"}
  BY DEF Search, FetchMail, SkipMail, StopAtMalformed, EndFetch, client
<1>3. \A n, p : LedgerId(n)' = LedgerId(n) /\ Key(n, p)' = Key(n, p)
  BY <1>2 DEF LedgerId, Key
<1>4. CASE FetchMail
  <2>1. PICK n \in listing : cache' = Caching(n) /\ batch' \subseteq batch \cup {n}
    BY <1>4 DEF FetchMail
  <2>2. /\ DOMAIN cache' = DOMAIN cache \cup Keys(n)
        /\ \A k \in DOMAIN cache' :
             cache'[k] = IF k \in Keys(n) THEN Payload(view[n], k[3]) ELSE cache[k]
    BY <2>1 DEF Caching
  <2>3. \A k \in Keys(n) : k[2] = n
    BY DEF Keys, Key
  <2>4. CacheTrue'
    BY <1>1, <1>2, <2>2, <2>3 DEF CacheTrue
  <2>5. \A k : Keys(k)' = Keys(k)
    BY <1>2, <1>3 DEF Keys
  <2>6. Ready'
    BY <1>1, <2>1, <2>2, <2>5 DEF Ready
  <2>7. QED
    BY <1>2, <2>4, <2>6 DEF InHand, Done
<1>5. CASE Search \/ SkipMail \/ StopAtMalformed \/ EndFetch
  <2>1. UNCHANGED <<cache, batch>>
    BY <1>5 DEF Search, SkipMail, StopAtMalformed, EndFetch, client
  <2>2. QED
    BY <1>1, <1>2, <1>3, <2>1 DEF CacheTrue, Ready, Keys, InHand, Done
<1>6. QED
  BY <1>4, <1>5

(* The next envelope is taken with all its payloads. *)
LEMMA TakeIntake ==
    ASSUME IntakeInv, SkipKnown \/ Exclude \/ Begin
    PROVE  CacheTrue' /\ Ready' /\ InHand' /\ Done'
<1>1. TypeOK /\ CacheTrue /\ Ready
  BY DEF IntakeInv, TypeInv
<1>2. UNCHANGED <<view, cache>>
  BY DEF SkipKnown, Exclude, Begin, client
<1>3. batch' \subseteq batch
  BY DEF SkipKnown, Exclude, Begin, Take
<1>4. CacheTrue' /\ Ready'
  BY <1>1, <1>2, <1>3 DEF CacheTrue, Ready, Keys, Key, LedgerId
<1>5. InHand'
  <2>1. CASE Begin
    <3>1. PICK n \in batch : ~Known(n) /\ Take(n, "download")
      BY <2>1 DEF Begin
    <3>2. cur' = n /\ n \notin batch' /\ got' = << >> /\ part' = 0 /\ ledger' = ledger
      BY <2>1, <3>1 DEF Take, Begin
    <3>3. \A p \in DOMAIN Parts[view[n]] : Key(n, p) \in DOMAIN cache
      BY <1>1, <3>1 DEF Ready, Keys
    <3>4. {p \in Wanted(view[n]) : p <= 0} = {}
      <4>1. n \in Numbers /\ view[n] \in Mails
        BY <1>1, <3>1 DEF TypeOK, Numbers
      <4>2. Wanted(view[n]) \subseteq 1..Len(Parts[view[n]])
        BY <4>1, ImapAssumption DEF Wanted
      <4>3. QED
        BY <4>2
    <3>5. ~(Known(cur))'
      BY <1>2, <3>1, <3>2 DEF Known, LedgerId
    <3>6. (got = [p \in {p \in Wanted(view[cur]) : p <= part} |-> Payload(view[cur], p)])'
      BY <1>2, <3>2, <3>4
    <3>7. (\A p \in DOMAIN Parts[view[cur]] : p > part => Key(cur, p) \in DOMAIN cache)'
      BY <1>2, <3>2, <3>3 DEF Key, LedgerId
    <3>8. QED
      BY <3>2, <3>5, <3>6, <3>7 DEF InHand
  <2>2. CASE SkipKnown \/ Exclude
    BY <2>2 DEF SkipKnown, Exclude, Take, InHand
  <2>3. QED
    BY <2>1, <2>2
<1>6. Done'
  <2>1. CASE Exclude
    <3>1. PICK n \in batch : Take(n, "ack") /\ Enter(n, << >>)
      BY <2>1 DEF Exclude
    <3>2. cur' = n /\ ledger' = Bind(ledger, LedgerId(n), [of |-> view[n], files |-> << >>])
      BY <3>1 DEF Take, Enter
    <3>3. QED
      BY <1>2, <3>2 DEF Done, Known, LedgerId, Bind
  <2>2. CASE SkipKnown \/ Begin
    BY <2>2 DEF SkipKnown, Begin, Take, Done
  <2>3. QED
    BY <2>1, <2>2
<1>7. QED
  BY <1>4, <1>5, <1>6

(* What is read of an attachment is what it holds; a logo is passed by     *)
(* (imap_connector.py 193-197).                                            *)
LEMMA ReadIntake ==
    ASSUME IntakeInv, SkipLogo \/ Download
    PROVE  CacheTrue' /\ Ready' /\ InHand' /\ Done'
<1>1. TypeOK /\ CacheTrue /\ Ready /\ InHand
  BY DEF IntakeInv, TypeInv
<1> DEFINE m == view[cur]  q == part + 1
<1>2. /\ pc = "download" /\ pc' = "download" /\ part' = q
      /\ UNCHANGED <<view, batch, cur, ledger>>
  BY DEF SkipLogo, Download, Downloading, client
<1>3. /\ part \in Nat /\ q \in DOMAIN Parts[m] /\ DOMAIN Parts[m] \subseteq Nat
  <2>1. m \in Mails /\ part \in 0..Len(Parts[m]) /\ part < Len(Parts[m])
    BY <1>1, <1>2 DEF TypeOK, Numbers, SkipLogo, Download, Downloading
  <2>2. Parts[m] \in Seq(Kinds)
    BY <2>1, ImapAssumption
  <2>3. QED
    BY <2>1, <2>2
<1>4. Key(cur, q) \in DOMAIN cache
  BY <1>1, <1>2, <1>3 DEF InHand
<1>5. /\ \A n, p : Key(n, p)' = Key(n, p)
      /\ (Known(cur))' = Known(cur) /\ (\A n : Keys(n)' = Keys(n))
  BY <1>2 DEF Known, LedgerId, Key, Keys
<1>6. \A n, p : Key(n, p) = Key(cur, q) <=> n = cur /\ p = q
  BY DEF Key
<1>7. CASE SkipLogo
  <2>1. Parts[m][q] = "logo" /\ UNCHANGED <<cache, got>>
    BY <1>7 DEF SkipLogo, NextKind, client
  <2>2. {p \in Wanted(m) : p <= q} = {p \in Wanted(m) : p <= part}
    BY <1>3, <2>1 DEF Wanted
  <2>3. InHand'
    BY <1>1, <1>2, <1>3, <1>5, <2>1, <2>2 DEF InHand
  <2>4. QED
    BY <1>1, <1>2, <1>5, <2>1, <2>3 DEF CacheTrue, Ready, Done
<1>8. CASE Download
  <2>1. /\ Parts[m][q] # "logo" /\ got' = Bind(got, q, Popped)
        /\ cache' = [k \in DOMAIN cache \ {Key(cur, q)} |-> cache[k]]
    BY <1>8 DEF Download, NextKind, PopCache
  <2>2. Popped = Payload(m, q)
    BY <1>1, <1>4 DEF Popped, CacheTrue, Key
  <2>3. {p \in Wanted(m) : p <= q} = {p \in Wanted(m) : p <= part} \cup {q}
    BY <1>3, <2>1 DEF Wanted
  <2>4. q \notin {p \in Wanted(m) : p <= part}
    BY <1>3
  <2>5. got = [p \in {p \in Wanted(m) : p <= part} |-> Payload(m, p)]
    BY <1>1, <1>2 DEF InHand
  <2>6. got' = [p \in {p \in Wanted(m) : p <= q} |-> Payload(m, p)]
    BY <2>1, <2>2, <2>3, <2>4, <2>5 DEF Bind
  <2>7. \A p \in DOMAIN Parts[m] : p > q => Key(cur, p) \in DOMAIN cache'
    BY <1>1, <1>2, <1>3, <1>6, <2>1 DEF InHand
  <2>8. InHand'
    BY <1>1, <1>2, <1>5, <2>6, <2>7 DEF InHand
  <2>9. Ready'
    <3>1. ASSUME NEW n \in batch, NEW k \in Keys(n) PROVE k \in DOMAIN cache'
      <4>1. n # cur /\ k \in DOMAIN cache
        BY <1>1, <1>2, <3>1 DEF InHand, Ready
      <4>2. k # Key(cur, q)
        BY <1>6, <3>1, <4>1 DEF Keys
      <4>3. QED
        BY <2>1, <4>1, <4>2
    <3>2. QED
      BY <1>2, <1>5, <3>1 DEF Ready
  <2>10. CacheTrue' /\ Done'
    BY <1>1, <1>2, <2>1 DEF CacheTrue, Done
  <2>11. QED
    BY <2>8, <2>9, <2>10
<1>9. QED
  BY <1>7, <1>8

(* The envelope is committed, fails, or has been acknowledged. *)
LEMMA EndIntake ==
    ASSUME IntakeInv, DownloadRaises \/ Raise \/ Commit \/ Acknowledge \/ AcknowledgeFails
    PROVE  CacheTrue' /\ Ready' /\ InHand' /\ Done'
<1>1. TypeOK /\ CacheTrue /\ Ready /\ InHand
  BY DEF IntakeInv, TypeInv
<1>2. UNCHANGED <<view, batch, cur>>
  BY DEF DownloadRaises, Raise, Commit, Acknowledge, AcknowledgeFails, client
<1>3. \A n : Keys(n)' = Keys(n)
  BY <1>2 DEF Keys, Key, LedgerId
<1>4. CASE DownloadRaises
  <2>1. cache' = [k \in DOMAIN cache \ {Key(cur, part + 1)} |-> cache[k]]
    BY <1>4 DEF DownloadRaises, PopCache
  <2>2. \A n \in batch : Key(cur, part + 1) \notin Keys(n)
    <3>1. cur \notin batch
      BY <1>1, <1>4 DEF DownloadRaises, Downloading, InHand
    <3>2. QED
      BY <3>1 DEF Keys, Key
  <2>3. CacheTrue' /\ Ready'
    BY <1>1, <1>2, <1>3, <2>1, <2>2 DEF CacheTrue, Ready
  <2>4. QED
    BY <1>4, <2>3 DEF DownloadRaises, Resume, InHand, Done
<1>5. CASE Raise \/ Commit \/ Acknowledge \/ AcknowledgeFails
  <2>1. UNCHANGED cache /\ pc' # "download"
    BY <1>5 DEF Raise, Commit, Acknowledge, AcknowledgeFails, Resume, client
  <2>2. CacheTrue' /\ Ready' /\ InHand'
    BY <1>1, <1>2, <1>3, <2>1 DEF CacheTrue, Ready, InHand
  <2>3. Done'
    <3>1. CASE Commit
      <4>1. ledger' = Bind(ledger, LedgerId(cur), [of |-> view[cur], files |-> got])
        BY <3>1 DEF Commit, Enter
      <4>2. QED
        BY <1>2, <4>1 DEF Done, Known, LedgerId, Bind
    <3>2. CASE ~Commit
      BY <1>5, <3>2 DEF Raise, Acknowledge, AcknowledgeFails, Resume, Done
    <3>3. QED
      BY <3>1, <3>2
  <2>4. QED
    BY <2>2, <2>3
<1>6. QED
  BY <1>4, <1>5

(* A new row is under the email's header, if it has one. *)
LEMMA StepRows ==
    ASSUME IntakeInv, [Next]_vars
    PROVE  RowsNamed'
<1>1. TypeOK /\ RowsNamed
  BY DEF IntakeInv, TypeInv
<1>2. ASSUME NEW n \in Numbers, NEW files, Enter(n, files)
      PROVE  RowsNamed'
  <2>1. ledger' = Bind(ledger, LedgerId(n), [of |-> view[n], files |-> files])
    BY <1>2 DEF Enter
  <2>2. view[n] \in Mails
    BY <1>1 DEF TypeOK, Numbers
  <2>3. view[n] \notin Nameless => LedgerId(n) = <<"header", MessageId[view[n]]>>
    BY <2>2 DEF Nameless, LedgerId
  <2>4. QED
    BY <1>1, <2>1, <2>3 DEF RowsNamed, Bind
<1>3. CASE Exclude
  <2>1. PICK n \in batch : Enter(n, << >>)
    BY <1>3 DEF Exclude
  <2>2. n \in Numbers
    BY <1>1 DEF TypeOK
  <2>3. QED
    BY <1>2, <2>1, <2>2
<1>4. CASE Commit
  <2>1. cur \in Numbers /\ Enter(cur, got)
    BY <1>1, <1>4 DEF Commit, TypeOK
  <2>2. QED
    BY <1>2, <2>1
<1>5. CASE ledger' = ledger
  BY <1>1, <1>5 DEF RowsNamed
<1>6. QED
  BY <1>3, <1>4, <1>5 DEF Next, Engine, Connect, Search, FetchMail, SkipMail, StopAtMalformed,
     EndFetch, SkipKnown, Begin, SkipLogo, Download, DownloadRaises, Acknowledge,
     AcknowledgeFails, ConnectFails, Raise, Crash, LoseConnection, Arrive, ReadElsewhere,
     DeleteElsewhere, vars

(* Only Begin begins a download. *)
LEMMA StepAdmitted ==
    ASSUME IntakeInv, [Next]_vars
    PROVE  Admitted'
<1> SUFFICES ASSUME pc' = "download" PROVE view'[cur'] \notin Excluded
  BY DEF Admitted
<1>1. TypeOK /\ Admitted
  BY DEF IntakeInv, TypeInv
<1>2. CASE Begin
  BY <1>2 DEF Begin, Take, client
<1>3. CASE pc = "download" /\ cur' = cur /\ view' = view
  BY <1>1, <1>3 DEF Admitted
<1>4. ASSUME NEW m \in Mails, Arrive(m) PROVE view'[cur'] \notin Excluded
  <2>1. pc = "download" /\ cur' = cur /\ view \in Seq(Mails) /\ cur \in Numbers
    BY <1>1, <1>4 DEF Arrive, control, TypeOK
  <2>2. view' = view \/ view' = Append(view, m)
    BY <1>4 DEF Arrive
  <2>3. view'[cur] = view[cur]
    BY <2>1, <2>2 DEF Numbers
  <2>4. QED
    BY <1>1, <2>1, <2>3 DEF Admitted
<1>5. QED
  BY <1>2, <1>3, <1>4 DEF Next, Engine, Connect, Search, FetchMail, SkipMail, StopAtMalformed,
     EndFetch, SkipKnown, Exclude, Take, SkipLogo, Download, DownloadRaises, Resume, Commit,
     Acknowledge, AcknowledgeFails, ConnectFails, Raise, Crash, LoseConnection, ReadElsewhere,
     DeleteElsewhere, vars, client, control

LEMMA StepIntake == IntakeInv /\ [Next]_vars => IntakeInv'
<1> SUFFICES ASSUME IntakeInv, [Next]_vars PROVE IntakeInv'
  OBVIOUS
<1>1. TypeInv' /\ RowsNamed' /\ Admitted'
  BY StepTyped, StepRows, StepAdmitted DEF IntakeInv
<1>2. CASE UNCHANGED vars
  BY <1>1, <1>2 DEF vars, IntakeInv, CacheTrue, Ready, Keys, Key, LedgerId, InHand, Known, Done
<1>3. CASE \/ LoseConnection
           \/ \E m \in Mails : Arrive(m) \/ ReadElsewhere(m) \/ DeleteElsewhere(m)
  BY <1>1, <1>3, EnvironmentIntake DEF IntakeInv
<1>4. CASE Connect \/ ConnectFails \/ Crash
  <2>1. cache' = << >> /\ batch' = {} /\ pc' \in {"off", "idle"}
    BY <1>4 DEF Connect, ConnectFails, Crash, IntakeInv, TypeInv, NothingRemembered
  <2>2. QED
    BY <1>1, <2>1 DEF IntakeInv, CacheTrue, Ready, InHand, Done
<1>5. CASE Search \/ FetchMail \/ SkipMail \/ StopAtMalformed \/ EndFetch
  BY <1>1, <1>5, FetchIntake DEF IntakeInv
<1>6. CASE SkipKnown \/ Exclude \/ Begin
  BY <1>1, <1>6, TakeIntake DEF IntakeInv
<1>7. CASE SkipLogo \/ Download
  BY <1>1, <1>7, ReadIntake DEF IntakeInv
<1>8. CASE DownloadRaises \/ Raise \/ Commit \/ Acknowledge \/ AcknowledgeFails
  BY <1>1, <1>8, EndIntake DEF IntakeInv
<1>9. QED
  BY <1>2, <1>3, <1>4, <1>5, <1>6, <1>7, <1>8 DEF Next, Engine

(* An id that is free is that of an email that has not entered, or of one  *)
(* without Message-ID.                                                     *)
LEMMA NewlyEntered ==
    ASSUME IntakeInv, NEW n \in Numbers, ~Known(n), NEW files, Enter(n, files),
           UNCHANGED away
    PROVE  Intake!Enter(view[n], files)
<1>1. TypeOK /\ RowsNamed
  BY DEF IntakeInv, TypeInv
<1>2. view[n] \in Mails
  BY <1>1 DEF TypeOK, Numbers
<1>3. view[n] \in Nameless \/ ~Intake!Entered(view[n])
  <2> SUFFICES ASSUME view[n] \notin Nameless,
                      NEW i \in DOMAIN ledger, ledger[i].of \in Kin[view[n]]
               PROVE  FALSE
    BY DEF Intake!Entered
  <2>1. MessageId[view[n]] # NoId /\ LedgerId(n) = <<"header", MessageId[view[n]]>>
    BY <1>2 DEF Nameless, LedgerId
  <2>2. ledger[i].of \in Mails /\ MessageId[ledger[i].of] = MessageId[view[n]]
    BY <1>2 DEF Kin
  <2>3. i = LedgerId(n)
    BY <1>1, <2>1, <2>2 DEF RowsNamed, Nameless
  <2>4. QED
    BY <2>3 DEF Known
<1>4. LedgerId(n) \in DOMAIN ledger' /\ LedgerId(n) \notin DOMAIN ledger
  BY DEF Enter, Bind, Known
<1>5. ledger' = [j \in DOMAIN ledger \cup {LedgerId(n)} |->
                   IF j = LedgerId(n) THEN [of |-> view[n], files |-> files] ELSE ledger[j]]
  BY DEF Enter, Bind
<1>6. QED
  BY <1>3, <1>4, <1>5 DEF Intake!Enter

(* A step of the connector and the loop is one of MailIntake, or none.     *)
LEMMA StepImplementsIntake ==
    ASSUME IntakeInv, [Next]_vars
    PROVE  [Intake!Next]_<<ledger, away>>
<1>1. TypeOK /\ Targeted /\ InHand /\ Done /\ Admitted
  BY DEF IntakeInv, TypeInv
<1>2. CASE Exclude
  <2>1. PICK n \in batch : ~Known(n) /\ view[n] \in Excluded /\ Enter(n, << >>)
    BY <1>2 DEF Exclude
  <2>2. n \in Numbers /\ view[n] \in Mails /\ UNCHANGED away
    BY <1>1, <1>2, <2>1 DEF Exclude, mailbox, TypeOK, Numbers
  <2>3. Intake!Enter(view[n], << >>)
    BY <2>1, <2>2, NewlyEntered
  <2>4. QED
    BY <2>1, <2>2, <2>3 DEF Intake!Refuse, Intake!Next
<1>3. CASE Commit
  <2>1. pc = "download" /\ part = Len(Parts[view[cur]]) /\ Enter(cur, got) /\ UNCHANGED away
    BY <1>3 DEF Commit, mailbox
  <2>2. cur \in Numbers /\ view[cur] \in Mails /\ view[cur] \notin Excluded
    BY <1>1, <2>1 DEF TypeOK, Numbers, Admitted
  <2>3. {p \in Wanted(view[cur]) : p <= part} = Wanted(view[cur])
    BY <2>1, <2>2, ImapAssumption DEF Wanted
  <2>4. got = Contents[view[cur]] /\ ~Known(cur)
    BY <1>1, <2>1, <2>2, <2>3 DEF InHand, Contents
  <2>5. Intake!Enter(view[cur], Contents[view[cur]])
    BY <2>1, <2>2, <2>4, NewlyEntered
  <2>6. QED
    BY <2>2, <2>5 DEF Intake!Take, Intake!Next
<1>4. CASE Acknowledge
  <2>1. pc = "ack" /\ away' = away \cup {Target} /\ UNCHANGED ledger
    BY <1>4 DEF Acknowledge
  <2> DEFINE n == mids[LedgerId(cur)]
  <2>2. n \in Numbers /\ LedgerId(n) = LedgerId(cur) /\ cur \in Numbers
    BY <1>1, <2>1 DEF Targeted, TypeOK
  <2>3. Target \in Mails /\ view[cur] \in Mails
    BY <1>1, <2>2 DEF Target, TypeOK, Numbers
  <2>4. view[cur] \in Kin[Target]
    BY <2>2, <2>3 DEF Kin, Target, LedgerId
  <2>5. \E i \in DOMAIN ledger : ledger[i].of \in Kin[Target]
    BY <1>1, <2>1, <2>4 DEF Done, Known
  <2>6. Intake!PutAway(Target)
    BY <2>1, <2>5 DEF Intake!PutAway, Intake!Entered
  <2>7. QED
    BY <2>3, <2>6 DEF Intake!Next
<1>5. CASE \/ Connect \/ Search \/ FetchMail \/ SkipMail \/ StopAtMalformed \/ EndFetch
           \/ SkipKnown \/ Begin \/ SkipLogo \/ Download \/ DownloadRaises
           \/ AcknowledgeFails \/ ConnectFails \/ Raise \/ Crash \/ LoseConnection
           \/ \E m \in Mails : Arrive(m) \/ ReadElsewhere(m) \/ DeleteElsewhere(m)
           \/ UNCHANGED vars
  <2>1. UNCHANGED <<ledger, away>>
    BY <1>5 DEF Connect, Search, FetchMail, SkipMail, StopAtMalformed, EndFetch, SkipKnown,
       Begin, SkipLogo, Download, DownloadRaises, AcknowledgeFails, ConnectFails, Raise, Crash,
       LoseConnection, Arrive, ReadElsewhere, DeleteElsewhere, mailbox, vars
  <2>2. QED
    BY <2>1
<1>6. QED
  BY <1>2, <1>3, <1>4, <1>5 DEF Next, Engine

(* The connector and the inbox loop keep the promise of MailIntake, for    *)
(* any mailbox: no email with a Message-ID enters the ledger when it is    *)
(* there, under whatever id, none of an excluded sender with files and     *)
(* none with other bytes than its own or an empty file in place of a       *)
(* readable one, however often a download was interrupted, and \Seen is    *)
(* set on recorded emails only (imap_connector.py 78-207; engine.py        *)
(* 168-238).                                                               *)
THEOREM ImapKeepsIntake == Spec => ImplementsIntake
<1>1. Init => Intake!Init
  BY DEF Init, Intake!Init
<1>2. IntakeInv /\ [Next]_vars => [Intake!Next]_<<ledger, away>>
  BY StepImplementsIntake
<1>3. QED
  BY <1>1, <1>2, InitIntake, StepIntake, PTL DEF Spec, ImplementsIntake

=============================================================================
