------------------------- MODULE PrintServerProofs -------------------------
(***************************************************************************)
(* Proofs about PrintServer, for every set of operations that clients use: *)
(* its types, the stability of the job states, and what becomes of the USB *)
(* job: that a Print-Job has it alone, that its tail is flushed before the *)
(* guard runs, and that it is counted once.                                *)
(***************************************************************************)
EXTENDS PrintServer, TLAPS, FiniteSetTheorems

-----------------------------------------------------------------------------
(***************************************************************************)
(* The backend's calls                                                     *)
(***************************************************************************)
Be == [state : States, drain : BOOLEAN, age : 0..2, sampled : BOOLEAN,
       owed : Int, senders : SUBSET Senders, unflushed : BOOLEAN, torn : BOOLEAN]

\* Updates of one field: SMT settles each, and the calls are chains of them.
SetState(b, x) == [b EXCEPT !.state = x]
SetDrain(b, x) == [b EXCEPT !.drain = x]
SetAge(b, x) == [b EXCEPT !.age = x]
SetSampled(b, x) == [b EXCEPT !.sampled = x]
SetOwed(b, x) == [b EXCEPT !.owed = x]
SetSenders(b, x) == [b EXCEPT !.senders = x]
SetUnflushed(b, x) == [b EXCEPT !.unflushed = x]
SetTorn(b, x) == [b EXCEPT !.torn = x]

\* What a record keeps when another one differs from it in the named field only.
LEMMA SetStateIs ==
  ASSUME NEW b \in Be, NEW x \in States
  PROVE  /\ SetState(b, x) \in Be /\ SetState(b, x).state = x
         /\ SetState(b, x).drain = b.drain
         /\ SetState(b, x).owed = b.owed
         /\ SetState(b, x).senders = b.senders
         /\ SetState(b, x).unflushed = b.unflushed
BY DEF SetState, Be, States

LEMMA SetDrainIs ==
  ASSUME NEW b \in Be, NEW x \in BOOLEAN
  PROVE  /\ SetDrain(b, x) \in Be /\ SetDrain(b, x).drain = x
         /\ SetDrain(b, x).state = b.state
         /\ SetDrain(b, x).owed = b.owed
         /\ SetDrain(b, x).senders = b.senders
         /\ SetDrain(b, x).unflushed = b.unflushed
BY DEF SetDrain, Be, States

LEMMA SetAgeIs ==
  ASSUME NEW b \in Be, NEW x \in 0..2
  PROVE  /\ SetAge(b, x) \in Be /\ SetAge(b, x).age = x
         /\ SetAge(b, x).state = b.state
         /\ SetAge(b, x).drain = b.drain
         /\ SetAge(b, x).owed = b.owed
         /\ SetAge(b, x).senders = b.senders
         /\ SetAge(b, x).unflushed = b.unflushed
BY DEF SetAge, Be, States

LEMMA SetSampledIs ==
  ASSUME NEW b \in Be, NEW x \in BOOLEAN
  PROVE  /\ SetSampled(b, x) \in Be /\ SetSampled(b, x).sampled = x
         /\ SetSampled(b, x).state = b.state
         /\ SetSampled(b, x).drain = b.drain
         /\ SetSampled(b, x).owed = b.owed
         /\ SetSampled(b, x).senders = b.senders
         /\ SetSampled(b, x).unflushed = b.unflushed
BY DEF SetSampled, Be, States

LEMMA SetOwedIs ==
  ASSUME NEW b \in Be, NEW x \in Int
  PROVE  /\ SetOwed(b, x) \in Be /\ SetOwed(b, x).owed = x
         /\ SetOwed(b, x).state = b.state
         /\ SetOwed(b, x).drain = b.drain
         /\ SetOwed(b, x).senders = b.senders
         /\ SetOwed(b, x).unflushed = b.unflushed
BY DEF SetOwed, Be, States

LEMMA SetSendersIs ==
  ASSUME NEW b \in Be, NEW x \in SUBSET Senders
  PROVE  /\ SetSenders(b, x) \in Be /\ SetSenders(b, x).senders = x
         /\ SetSenders(b, x).state = b.state
         /\ SetSenders(b, x).drain = b.drain
         /\ SetSenders(b, x).owed = b.owed
         /\ SetSenders(b, x).unflushed = b.unflushed
BY DEF SetSenders, Be, States

LEMMA SetUnflushedIs ==
  ASSUME NEW b \in Be, NEW x \in BOOLEAN
  PROVE  /\ SetUnflushed(b, x) \in Be /\ SetUnflushed(b, x).unflushed = x
         /\ SetUnflushed(b, x).state = b.state
         /\ SetUnflushed(b, x).drain = b.drain
         /\ SetUnflushed(b, x).owed = b.owed
         /\ SetUnflushed(b, x).senders = b.senders
BY DEF SetUnflushed, Be, States

LEMMA SetTornIs ==
  ASSUME NEW b \in Be, NEW x \in BOOLEAN
  PROVE  /\ SetTorn(b, x) \in Be /\ SetTorn(b, x).torn = x
         /\ SetTorn(b, x).state = b.state
         /\ SetTorn(b, x).drain = b.drain
         /\ SetTorn(b, x).owed = b.owed
         /\ SetTorn(b, x).senders = b.senders
         /\ SetTorn(b, x).unflushed = b.unflushed
BY DEF SetTorn, Be, States

\* No drain is left, nor anything of the job but that it was begun.
LEMMA NoDrainIs ==
  ASSUME NEW b \in Be
  PROVE  /\ NoDrain(b) \in Be /\ NoDrain(b).drain = FALSE
         /\ NoDrain(b).state = b.state /\ NoDrain(b).owed = b.owed
         /\ NoDrain(b).senders = {} /\ NoDrain(b).unflushed = FALSE
<1>. DEFINE b1 == SetDrain(b, FALSE)
            b2 == SetAge(b1, 0)
            b3 == SetSampled(b2, FALSE)
            b4 == SetSenders(b3, {})
<1>1. NoDrain(b) = SetUnflushed(b4, FALSE)
  BY DEF NoDrain, SetUnflushed, SetSenders, SetSampled, SetAge, SetDrain
<1>. HIDE DEF b1, b2, b3, b4
<1>2. b1 \in Be /\ b1.drain = FALSE /\ b1.state = b.state /\ b1.owed = b.owed
  BY SetDrainIs DEF b1
<1>3. b2 \in Be /\ b2.drain = FALSE /\ b2.state = b.state /\ b2.owed = b.owed
  BY <1>2, SetAgeIs DEF b2
<1>4. b3 \in Be /\ b3.drain = FALSE /\ b3.state = b.state /\ b3.owed = b.owed
  BY <1>3, SetSampledIs DEF b3
<1>5. /\ b4 \in Be /\ b4.drain = FALSE /\ b4.state = b.state /\ b4.owed = b.owed
      /\ b4.senders = {}
  BY <1>4, SetSendersIs DEF b4
<1>. QED  BY <1>1, <1>5, SetUnflushedIs

\* sendDirect() leaves the job printing, its drain as it was unless a job begins,
\* and its sender among the senders.
LEMMA SentIs ==
  ASSUME NEW b \in Be, NEW who \in Senders, b.state \in {"IDLE", "PRINTING"}
  PROVE  /\ Sent(b, who) \in Be
         /\ Sent(b, who).state = "PRINTING"
         /\ Sent(b, who).drain = IF b.state = "IDLE" THEN FALSE ELSE b.drain
         /\ Sent(b, who).owed = IF b.state = "IDLE" THEN b.owed + 1 ELSE b.owed
         /\ Sent(b, who).senders = IF b.state = "IDLE" THEN {who} ELSE b.senders \cup {who}
<1>1. CASE b.state = "IDLE"
  <2>. DEFINE b0 == NoDrain(b)
              b1 == SetState(b0, "PRINTING")
              b2 == SetOwed(b1, b.owed + 1)
              b3 == SetSenders(b2, {who})
  <2>1. Sent(b, who) = SetUnflushed(b3, TRUE)
    <3>1. Sent(b, who) = [NoDrain(b) EXCEPT !.state = "PRINTING", !.owed = NoDrain(b).owed + 1,
                                            !.senders = {who}, !.unflushed = TRUE]
      BY <1>1 DEF Sent
    <3>. QED  BY <3>1, NoDrainIs DEF SetState, SetOwed, SetSenders, SetUnflushed
  <2>. HIDE DEF b0, b1, b2, b3
  <2>2. b0 \in Be /\ b0.drain = FALSE /\ b0.owed = b.owed
    BY NoDrainIs DEF b0
  <2>3. b1 \in Be /\ b1.state = "PRINTING" /\ b1.drain = FALSE /\ b1.owed = b.owed
    BY <2>2, SetStateIs DEF b1, States
  <2>4. /\ b2 \in Be /\ b2.state = "PRINTING" /\ b2.drain = FALSE /\ b2.owed = b.owed + 1
    <3>1. b.owed + 1 \in Int
      BY DEF Be
    <3>. QED  BY <2>3, <3>1, SetOwedIs DEF b2
  <2>5. /\ b3 \in Be /\ b3.state = "PRINTING" /\ b3.drain = FALSE /\ b3.owed = b.owed + 1
        /\ b3.senders = {who}
    BY <2>4, SetSendersIs DEF b3
  <2>. QED  BY <1>1, <2>1, <2>5, SetUnflushedIs
<1>2. CASE b.state = "PRINTING"
  <2>. DEFINE b1 == SetSenders(b, b.senders \cup {who})
  <2>1. Sent(b, who) = SetUnflushed(b1, TRUE)
    BY <1>2 DEF Sent, SetSenders, SetUnflushed
  <2>. HIDE DEF b1
  <2>2. b.senders \cup {who} \in SUBSET Senders
    BY DEF Be
  <2>3. /\ b1 \in Be /\ b1.state = b.state /\ b1.drain = b.drain /\ b1.owed = b.owed
        /\ b1.senders = b.senders \cup {who}
    BY <2>2, SetSendersIs DEF b1
  <2>. QED  BY <1>2, <2>1, <2>3, SetUnflushedIs
<1>. QED  BY <1>1, <1>2

\* abortRawJob() ends in the error state, and counts a failure unless in it before.
LEMMA AbortedIs ==
  ASSUME NEW b \in Be
  PROVE  /\ Aborted(b) \in Be
         /\ Aborted(b).state = "ERROR"
         /\ Aborted(b).drain = FALSE
         /\ Aborted(b).owed = IF b.state = "ERROR" THEN b.owed ELSE b.owed - 1
         /\ Aborted(b).senders = {}
<1>. DEFINE n == IF b.state = "ERROR" THEN b.owed ELSE b.owed - 1
            t == b.torn \/ (b.state = "PRINTING" /\ HasDocument(b))
            b0 == NoDrain(b)
            b1 == SetState(b0, "ERROR")
            b2 == SetOwed(b1, n)
<1>1. Aborted(b) = SetTorn(b2, t)
  <2>1. NoDrain(b).torn = b.torn
    BY DEF NoDrain, Be
  <2>2. Aborted(b) = [NoDrain(b) EXCEPT !.state = "ERROR",
                        !.owed = IF b.state = "ERROR" THEN NoDrain(b).owed ELSE NoDrain(b).owed - 1,
                        !.torn = NoDrain(b).torn \/ (b.state = "PRINTING" /\ HasDocument(b))]
    BY DEF Aborted
  <2>3. Aborted(b) = [NoDrain(b) EXCEPT !.state = "ERROR", !.owed = n, !.torn = t]
    BY <2>1, <2>2, NoDrainIs
  <2>. QED  BY <2>3 DEF SetState, SetOwed, SetTorn
<1>2. n \in Int
  BY DEF Be
<1>3. t \in BOOLEAN
  OBVIOUS
<1>. HIDE DEF n, t, b0, b1, b2
<1>4. b0 \in Be /\ b0.drain = FALSE /\ b0.senders = {}
  BY NoDrainIs DEF b0
<1>5. b1 \in Be /\ b1.state = "ERROR" /\ b1.drain = FALSE /\ b1.senders = {}
  BY <1>4, SetStateIs DEF b1, States
<1>6. /\ b2 \in Be /\ b2.owed = n /\ b2.state = "ERROR" /\ b2.drain = FALSE
      /\ b2.senders = {}
  BY <1>2, <1>5, SetOwedIs DEF b2
<1>7. /\ Aborted(b) \in Be /\ Aborted(b).owed = n /\ Aborted(b).state = "ERROR"
      /\ Aborted(b).drain = FALSE /\ Aborted(b).senders = {}
  BY <1>1, <1>3, <1>6, SetTornIs
<1>. QED  BY <1>7 DEF n

\* finishRawJob() begins the drain of a flushed job, aborts one that could not be
\* flushed, and does nothing to any other.
LEMMA FinishedIs ==
  ASSUME NEW b \in Be, NEW flushed \in BOOLEAN
  PROVE  /\ Finished(b, flushed) \in Be
         /\ \/ Finished(b, flushed) = b /\ (b.state # "PRINTING" \/ b.drain)
            \/ /\ b.state = "PRINTING"
               /\ Finished(b, flushed).state = "PRINTING"
               /\ Finished(b, flushed).drain
               /\ ~Finished(b, flushed).unflushed
               /\ Finished(b, flushed).owed = b.owed
               /\ Finished(b, flushed).senders = b.senders
            \/ b.state = "PRINTING" /\ Finished(b, flushed) = Aborted(b)
<1>1. CASE b.state # "PRINTING" \/ b.drain
  BY <1>1 DEF Finished
<1>2. CASE b.state = "PRINTING" /\ ~b.drain /\ ~flushed
  BY <1>2, AbortedIs DEF Finished
<1>3. CASE b.state = "PRINTING" /\ ~b.drain /\ flushed
  <2>. DEFINE b1 == SetDrain(b, TRUE)
              b2 == SetAge(b1, 0)
              b3 == SetSampled(b2, FALSE)
  <2>1. Finished(b, flushed) = SetUnflushed(b3, FALSE)
    BY <1>3 DEF Finished, SetDrain, SetAge, SetSampled, SetUnflushed
  <2>. HIDE DEF b1, b2, b3
  <2>2. /\ b1 \in Be /\ b1.state = b.state /\ b1.drain = TRUE /\ b1.owed = b.owed
        /\ b1.senders = b.senders
    BY SetDrainIs DEF b1
  <2>3. /\ b2 \in Be /\ b2.state = b.state /\ b2.drain = TRUE /\ b2.owed = b.owed
        /\ b2.senders = b.senders
    BY <2>2, SetAgeIs DEF b2
  <2>4. /\ b3 \in Be /\ b3.state = b.state /\ b3.drain = TRUE /\ b3.owed = b.owed
        /\ b3.senders = b.senders
    BY <2>3, SetSampledIs DEF b3
  <2>. QED  BY <1>3, <2>1, <2>4, SetUnflushedIs
<1>. QED  BY <1>1, <1>2, <1>3

\* completeDrainIfReady() changes nothing or ends a draining job, counting it.
LEMMA DrainedIs ==
  ASSUME NEW b \in Be
  PROVE  /\ Drained(b) \in Be
         /\ \/ Drained(b) = b
            \/ /\ b.state = "PRINTING" /\ b.drain
               /\ Drained(b).state \in {"IDLE", "OFFLINE", "ERROR"}
               /\ Drained(b).drain = FALSE
               /\ Drained(b).owed = b.owed - 1 /\ Drained(b).senders = {}
<1>. DEFINE Ended(s) == [NoDrain(b) EXCEPT !.state = s, !.owed = @ - 1]
<1>1. ASSUME NEW s \in {"IDLE", "OFFLINE", "ERROR"}
      PROVE  /\ Ended(s) \in Be /\ Ended(s).senders = {} /\ Ended(s).state = s
             /\ Ended(s).drain = FALSE /\ Ended(s).owed = b.owed - 1
  <2>. DEFINE b0 == NoDrain(b)
              b1 == SetState(b0, s)
  <2>1. Ended(s) = SetOwed(b1, b.owed - 1)
    BY NoDrainIs DEF SetState, SetOwed
  <2>. HIDE DEF Ended, b0, b1
  <2>2. b.owed - 1 \in Int
    BY DEF Be
  <2>3. b0 \in Be /\ b0.drain = FALSE /\ b0.senders = {}
    BY NoDrainIs DEF b0
  <2>4. b1 \in Be /\ b1.state = s /\ b1.drain = FALSE /\ b1.senders = {}
    BY <1>1, <2>3, SetStateIs DEF b1, States
  <2>. QED  BY <2>1, <2>2, <2>4, SetOwedIs
<1>2. ASSUME NEW s \in {"OFFLINE", "ERROR"}
      PROVE  /\ Faulted(b, s) \in Be /\ Faulted(b, s).senders = {}
             /\ Faulted(b, s).state = s
             /\ Faulted(b, s).drain = FALSE /\ Faulted(b, s).owed = b.owed - 1
  <2>. DEFINE t == NoDrain(b).torn \/ HasDocument(b)
  <2>1. Faulted(b, s) = SetTorn(Ended(s), t)
    <3>1. Faulted(b, s) = [NoDrain(b) EXCEPT !.state = s, !.owed = NoDrain(b).owed - 1, !.torn = t]
      BY DEF Faulted
    <3>. QED  BY <3>1 DEF SetTorn
  <2>2. t \in BOOLEAN
    OBVIOUS
  <2>. DEFINE b1 == Ended(s)
  <2>3. /\ b1 \in Be /\ b1.senders = {} /\ b1.state = s
        /\ b1.drain = FALSE /\ b1.owed = b.owed - 1
    BY <1>1, <1>2
  <2>4. Faulted(b, s) = SetTorn(b1, t)
    BY <2>1
  <2>. HIDE DEF Ended, t, b1
  <2>. QED  BY <2>2, <2>3, <2>4, SetTornIs
<1>3. CASE ~b.drain \/ b.state # "PRINTING"
  BY <1>3 DEF Drained
<1>4. CASE b.drain /\ b.state = "PRINTING"
  <2>1. \/ Drained(b) = b
        \/ \E s \in {"IDLE", "OFFLINE", "ERROR"} : Drained(b) = Ended(s)
        \/ \E s \in {"OFFLINE", "ERROR"} : Drained(b) = Faulted(b, s)
    <3>1. CASE PaperEmpty
      BY <1>4, <3>1 DEF Drained
    <3>2. CASE StatusError /\ ~PaperEmpty
      BY <1>4, <3>2 DEF Drained
    <3>3. CASE status = "deselected"
      BY <1>4, <3>3 DEF Drained, PaperEmpty, StatusError
    <3>4. CASE ~PaperEmpty /\ ~StatusError /\ status # "deselected"
      BY <1>4, <3>4 DEF Drained
    <3>. QED  BY <3>1, <3>2, <3>3, <3>4
  <2>. HIDE DEF Ended
  <2>. QED  BY <2>1, <1>1, <1>2, <1>4
<1>. QED  BY <1>3, <1>4

\* The end of poll() never begins or ends a job.
LEMMA FollowedIs ==
  ASSUME NEW b \in Be
  PROVE  /\ Followed(b) \in Be
         /\ Followed(b).senders = b.senders
         /\ Followed(b).drain = b.drain /\ Followed(b).unflushed = b.unflushed
         /\ Followed(b).owed = b.owed
         /\ (Followed(b).state = "PRINTING") = (b.state = "PRINTING")
         /\ b.state = "PRINTING" => Followed(b) = b
<1>1. CASE b.state = "PRINTING"
  BY <1>1 DEF Followed
<1>2. CASE b.state # "PRINTING"
  <2>1. \E s \in {"ERROR", "IDLE", "OFFLINE"} : Followed(b) = [b EXCEPT !.state = s]
    BY <1>2 DEF Followed
  <2>. QED  BY <1>2, <2>1 DEF Be, States
<1>. QED  BY <1>1, <1>2

-----------------------------------------------------------------------------
(***************************************************************************)
(* Types                                                                   *)
(***************************************************************************)

\* The events of the USB task and of time leave the backend a backend, and touch
\* nothing of it but its drain's clock and sample.
LEMMA EventIs ==
  ASSUME BackendTypeOK, HostEvent \/ DrainAges
  PROVE  /\ BackendTypeOK'
         /\ be'.state = be.state /\ be'.drain = be.drain /\ be'.owed = be.owed
         /\ be'.senders = be.senders /\ be'.unflushed = be.unflushed
<1>1. be \in Be
  BY DEF BackendTypeOK, Be
<1>2. \/ be' = be
      \/ \E x \in BOOLEAN : be' = SetSampled(be, x)
      \/ be' = SetAge(be, be.age + 1) /\ be.age < 2
  <2>1. CASE onEnumerationStarted \/ onEnumerated \/ onEnumerationError
    BY <2>1 DEF onEnumerationStarted, onEnumerated, onEnumerationError
  <2>2. CASE onDetached
    BY <2>2 DEF onDetached, SetSampled
  <2>3. CASE onPortStatusTransfer
    <3>1. PICK stamped \in BOOLEAN :
             be' = [be EXCEPT !.sampled = be.drain /\ (be.sampled \/ stamped)]
      BY <2>3 DEF onPortStatusTransfer
    <3>2. be' = SetSampled(be, be.drain /\ (be.sampled \/ stamped))
      BY <3>1 DEF SetSampled
    <3>3. (be.drain /\ (be.sampled \/ stamped)) \in BOOLEAN
      OBVIOUS
    <3>. QED  BY <3>2, <3>3
  <2>4. CASE DrainAges
    BY <2>4 DEF DrainAges, SetAge
  <2>. QED  BY <2>1, <2>2, <2>3, <2>4 DEF HostEvent
<1>3. /\ be' \in Be
      /\ be'.state = be.state /\ be'.drain = be.drain /\ be'.owed = be.owed
      /\ be'.senders = be.senders /\ be'.unflushed = be.unflushed
  <2>1. CASE be' = be
    BY <1>1, <2>1
  <2>2. CASE \E x \in BOOLEAN : be' = SetSampled(be, x)
    BY <1>1, <2>2, SetSampledIs
  <2>3. CASE be' = SetAge(be, be.age + 1) /\ be.age < 2
    <3>1. be.age + 1 \in 0..2
      BY <1>1, <2>3 DEF Be
    <3>. QED  BY <1>1, <2>3, <3>1, SetAgeIs
  <2>. QED  BY <1>2, <2>1, <2>2, <2>3
<1>4. /\ host' \in {"running", "enumerating", "ready"}
      /\ found' \in {"no", "unusable", "usable"}
      /\ status' \in Reports \cup {"none"}
  BY PrintersAssumption DEF BackendTypeOK, HostEvent, onEnumerationStarted, onEnumerated, onEnumerationError,
         onDetached, onPortStatusTransfer, DrainAges, hostVars
<1>. QED  BY <1>3, <1>4 DEF BackendTypeOK, Be

\* Each way a RAW connection can go on has its types.
LEMMA ResetTypes ==
  ASSUME RawTypeOK, ResetTransport
  PROVE  RawTypeOK'
<1>1. /\ fd' = FALSE /\ got' = FALSE /\ stale' = FALSE /\ inbox' = <<>>
      /\ peer' = "open" /\ closing' = "no"
      /\ waiting' = waiting /\ conns' = conns /\ chunks' = chunks
  BY DEF ResetTransport
<1>2. inbox' \in Seq({"data", "eoj"})
  BY <1>1
<1>. QED  BY <1>1, <1>2 DEF RawTypeOK

LEMMA FinishTypes ==
  ASSUME RawTypeOK, NEW b \in Be, NEW g \in BOOLEAN, FinishConnection(b, g)
  PROVE  be' \in Be /\ RawTypeOK'
<1>1. CASE ~g /\ be' = b /\ ResetTransport
  BY <1>1, ResetTypes
<1>2. CASE /\ \E flushed \in BOOLEAN : be' = Finished(b, flushed)
           /\ closing' = "closing" /\ got' = TRUE
           /\ inbox' = <<>> /\ peer' = "open" /\ stale' = FALSE
           /\ UNCHANGED <<waiting, fd, conns, chunks>>
  <2>1. inbox' \in Seq({"data", "eoj"})
    BY <1>2
  <2>. QED  BY <1>2, <2>1, FinishedIs DEF RawTypeOK
<1>. QED  BY <1>1, <1>2 DEF FinishConnection

LEMMA AbortTypes ==
  ASSUME RawTypeOK, NEW b \in Be, NEW g \in BOOLEAN, AbortConnection(b, g)
  PROVE  be' \in Be /\ RawTypeOK'
BY ResetTypes, AbortedIs DEF AbortConnection

LEMMA ChecksTypes ==
  ASSUME RawTypeOK, NEW b \in Be, NEW g \in BOOLEAN, NEW s \in BOOLEAN, RawChecks(b, g, s)
  PROVE  be' \in Be /\ RawTypeOK'
<1>1. CASE AbortConnection(b, g)
  BY <1>1, AbortTypes
<1>2. CASE FinishConnection(b, g)
  BY <1>2, FinishTypes
<1>3. CASE /\ be' = b /\ got' = g /\ stale' = s /\ inbox' = <<>>
           /\ UNCHANGED <<waiting, fd, peer, closing, conns, chunks>>
  BY <1>3 DEF RawTypeOK
<1>. QED  BY <1>1, <1>2, <1>3 DEF RawChecks

\* The RAW handler keeps the types.
LEMMA HandleRawTypes ==
  ASSUME be \in Be, RawTypeOK, HandleRaw
  PROVE  be' \in Be /\ RawTypeOK'
<1>1. CASE RawClose
  <2>1. CASE ResetTransport
    BY <1>1, <2>1, ResetTypes DEF RawClose
  <2>2. CASE ~ResetTransport
    BY <1>1, <2>2 DEF RawClose, RawTypeOK, rawVars
  <2>. QED  BY <2>1, <2>2
<1>2. CASE RawAccept
  BY <1>2 DEF RawAccept, RawTypeOK
<1>3. CASE RawNobody
  BY <1>3 DEF RawNobody, RawTypeOK, rawVars
<1>4. CASE RawQuiet
  BY <1>4, ChecksTypes DEF RawQuiet, RawTypeOK
<1>5. CASE RawStream
  <2>1. be.state \in {"IDLE", "PRINTING"} /\ Sent(be, "raw") \in Be
    BY <1>5, SentIs DEF RawStream, Refuses, Senders
  <2>. QED  BY <1>5, <2>1, ChecksTypes DEF RawStream
<1>6. CASE RawEoj
  <2>1. be.state \in {"IDLE", "PRINTING"} /\ Sent(be, "raw") \in Be
    BY <1>6, SentIs DEF RawEoj, Refuses, Senders
  <2>. QED  BY <1>6, <2>1, FinishTypes DEF RawEoj
<1>7. CASE RawSendFails
  <2>1. CASE Refuses(be)
    BY <1>7, <2>1, AbortTypes DEF RawSendFails, RawTypeOK
  <2>2. CASE ~Refuses(be)
    <3>1. be.state \in {"IDLE", "PRINTING"} /\ Sent(be, "raw") \in Be
      BY <2>2, SentIs DEF Refuses, Senders
    <3>2. Aborted(Sent(be, "raw")) \in Be
      BY <3>1, AbortedIs
    <3>3. PICK g \in {got, TRUE} : AbortConnection(Aborted(Sent(be, "raw")), g)
      BY <1>7, <2>2 DEF RawSendFails
    <3>4. g \in BOOLEAN
      BY DEF RawTypeOK
    <3>. QED  BY <3>2, <3>3, <3>4, AbortTypes
  <2>. QED  BY <2>1, <2>2
<1>. QED  BY <1>1, <1>2, <1>3, <1>4, <1>5, <1>6, <1>7 DEF HandleRaw

\* A new job changes one history bit of the backend.
LEMMA NewJobIs ==
  ASSUME be \in Be, NEW awaits \in BOOLEAN, NewJob(awaits)
  PROVE  /\ be' \in Be
         /\ be'.state = be.state /\ be'.drain = be.drain /\ be'.owed = be.owed
         /\ be'.senders = be.senders /\ be'.unflushed = be.unflushed
BY SetTornIs DEF NewJob, SetTorn

\* A document that fails leaves a backend and a job state.
LEMMA DocumentFailsTypes ==
  ASSUME NEW b \in Be, DocumentFails(b)
  PROVE  be' \in Be /\ jobState' \in JobStates
BY AbortedIs DEF DocumentFails, JobStates

\* A request is counted within its bound.
LEMMA AskedTypes ==
  ASSUME IppTypeOK, NEW op, Asked(op)
  PROVE  reqs' \in 0..MaxRequests /\ 0 \in 0..MaxBlocks
BY IppAssumption DEF IppTypeOK, Asked

\* A document is its job's own, or that which the job awaited.
LEMMA SenderIs ==
  Sender \in Senders /\ (pending => Sender = "send") /\ (~pending => Sender = "print")
BY DEF Sender, Senders

\* The IPP service's actions keep the types.
LEMMA IppTypes ==
  ASSUME be \in Be, IppTypeOK,
         \/ RefreshJobState \/ PrintJob(rawClientConnected) \/ CreateJob \/ SendDocument
         \/ CancelJob \/ CloseJob \/ NoJobRequest \/ DocumentBlock \/ DocumentEnds
  PROVE  be' \in Be /\ IppTypeOK'
<1>s. /\ Pending \in JobStates /\ Processing \in JobStates /\ Stopped \in JobStates
      /\ Canceled \in JobStates /\ JobAborted \in JobStates /\ Completed \in JobStates
  BY DEF JobStates
<1>t. /\ jobId \in Nat /\ jobId + 1 \in Nat /\ jobState \in JobStates
      /\ pending \in BOOLEAN /\ processing \in BOOLEAN /\ inDocument \in BOOLEAN
      /\ blocks \in 0..MaxBlocks /\ reqs \in 0..MaxRequests
  BY DEF IppTypeOK
<1>1. CASE RefreshJobState
  <2>1. /\ be' = be /\ jobId' = jobId /\ processing' = processing /\ inDocument' = inDocument
        /\ blocks' = blocks /\ reqs' = reqs
    BY <1>1 DEF RefreshJobState, RefreshTo
  <2>2. jobState' \in JobStates
    BY <1>1, <1>s, <1>t DEF RefreshJobState, RefreshTo
  <2>3. pending' \in BOOLEAN
    BY <1>1, <1>t DEF RefreshJobState, RefreshTo
  <2>. QED  BY <1>t, <2>1, <2>2, <2>3 DEF IppTypeOK
<1>2. CASE PrintJob(rawClientConnected)
  <2>1. be' \in Be
    BY <1>2, NewJobIs DEF PrintJob
  <2>2. jobState' \in JobStates
    BY <1>2, <1>s, <1>t DEF PrintJob, NewJob
  <2>3. pending' \in BOOLEAN /\ processing' \in BOOLEAN /\ inDocument' \in BOOLEAN
    BY <1>2, <1>t DEF PrintJob, NewJob
  <2>4. jobId' \in Nat
    BY <1>2, <1>t DEF PrintJob, NewJob
  <2>5. blocks' \in 0..MaxBlocks /\ reqs' \in 0..MaxRequests
    BY <1>2, AskedTypes DEF PrintJob
  <2>. QED  BY <2>1, <2>2, <2>3, <2>4, <2>5 DEF IppTypeOK
<1>3. CASE CreateJob
  <2>1. be' \in Be
    BY <1>3, NewJobIs DEF CreateJob
  <2>2. jobState' \in JobStates
    BY <1>3, <1>s, <1>t DEF CreateJob, NewJob
  <2>3. pending' \in BOOLEAN /\ processing' \in BOOLEAN /\ inDocument' \in BOOLEAN
    BY <1>3, <1>t DEF CreateJob, NewJob
  <2>4. jobId' \in Nat
    BY <1>3, <1>t DEF CreateJob, NewJob
  <2>5. blocks' \in 0..MaxBlocks /\ reqs' \in 0..MaxRequests
    BY <1>3, <1>t, AskedTypes DEF CreateJob
  <2>. QED  BY <2>1, <2>2, <2>3, <2>4, <2>5 DEF IppTypeOK
<1>4. CASE SendDocument
  <2>1. be' \in Be
    BY <1>4 DEF SendDocument
  <2>2. jobState' \in JobStates
    BY <1>4, <1>t DEF SendDocument
  <2>3. pending' \in BOOLEAN /\ processing' \in BOOLEAN /\ inDocument' \in BOOLEAN
    BY <1>4, <1>t DEF SendDocument
  <2>4. jobId' \in Nat
    BY <1>4, <1>t DEF SendDocument
  <2>5. blocks' \in 0..MaxBlocks /\ reqs' \in 0..MaxRequests
    BY <1>4, AskedTypes DEF SendDocument
  <2>. QED  BY <2>1, <2>2, <2>3, <2>4, <2>5 DEF IppTypeOK
<1>5. CASE CancelJob
  <2>1. be' \in Be
    BY <1>5, AbortedIs DEF CancelJob
  <2>2. jobState' \in JobStates
    BY <1>5, <1>s, <1>t DEF CancelJob
  <2>3. pending' \in BOOLEAN /\ processing' \in BOOLEAN /\ inDocument' \in BOOLEAN
    BY <1>5, <1>t DEF CancelJob
  <2>4. jobId' \in Nat
    BY <1>5, <1>t DEF CancelJob
  <2>5. blocks' \in 0..MaxBlocks /\ reqs' \in 0..MaxRequests
    BY <1>5, <1>t, AskedTypes DEF CancelJob
  <2>. QED  BY <2>1, <2>2, <2>3, <2>4, <2>5 DEF IppTypeOK
<1>6. CASE CloseJob
  <2>1. be' \in Be
    BY <1>6 DEF CloseJob
  <2>2. jobState' \in JobStates
    BY <1>6, <1>s, <1>t DEF CloseJob
  <2>3. pending' \in BOOLEAN /\ processing' \in BOOLEAN /\ inDocument' \in BOOLEAN
    BY <1>6, <1>t DEF CloseJob
  <2>4. jobId' \in Nat
    BY <1>6, <1>t DEF CloseJob
  <2>5. blocks' \in 0..MaxBlocks /\ reqs' \in 0..MaxRequests
    BY <1>6, <1>t, AskedTypes DEF CloseJob
  <2>. QED  BY <2>1, <2>2, <2>3, <2>4, <2>5 DEF IppTypeOK
<1>7. CASE NoJobRequest
  BY <1>7 DEF NoJobRequest, ippVars, IppTypeOK
<1>8. CASE DocumentBlock
  <2>1. be' \in Be
    BY <1>8, SentIs, SenderIs DEF DocumentBlock, Refuses
  <2>2. jobState' \in JobStates
    BY <1>8, <1>s, <1>t DEF DocumentBlock
  <2>3. pending' \in BOOLEAN /\ processing' \in BOOLEAN /\ inDocument' \in BOOLEAN
    BY <1>8, <1>t DEF DocumentBlock
  <2>4. jobId' \in Nat
    BY <1>8, <1>t DEF DocumentBlock
  <2>5. blocks' \in 0..MaxBlocks /\ reqs' \in 0..MaxRequests
    BY <1>8, <1>t, IppAssumption DEF DocumentBlock
  <2>. QED  BY <2>1, <2>2, <2>3, <2>4, <2>5 DEF IppTypeOK
<1>9. CASE DocumentEnds
  <2>1. be' \in Be /\ jobState' \in JobStates
    <3>1. CASE \E flushed \in BOOLEAN : be' = Finished(be, flushed) /\ UNCHANGED jobState
      BY <3>1, FinishedIs DEF IppTypeOK
    <3>2. CASE DocumentFails(be)
      BY <3>2, DocumentFailsTypes
    <3>3. CASE ~Refuses(be) /\ DocumentFails(Aborted(Sent(be, Sender)))
      <4>1. Sent(be, Sender) \in Be
        BY <3>3, SentIs, SenderIs DEF Refuses
      <4>2. Aborted(Sent(be, Sender)) \in Be
        BY <4>1, AbortedIs
      <4>. QED  BY <3>3, <4>2, DocumentFailsTypes
    <3>. QED  BY <1>9, <3>1, <3>2, <3>3 DEF DocumentEnds, DocumentResult
  <2>2. 0 \in 0..MaxBlocks
    BY IppAssumption
  <2>. QED  BY <1>9, <2>1, <2>2 DEF DocumentEnds, DocumentResult, IppTypeOK
<1>. QED  BY <1>1, <1>2, <1>3, <1>4, <1>5, <1>6, <1>7, <1>8, <1>9

\* The types hold at first, and every step keeps them.
LEMMA TypeInit ==
  Init => TypeOK
<1>. SUFFICES ASSUME Init PROVE TypeOK
  OBVIOUS
<1>1. BackendTypeOK
  <2>1. /\ host \in {"running", "enumerating", "ready"} /\ found \in {"no", "unusable", "usable"}
        /\ status \in Reports \cup {"none"}
    BY DEF Init, BackendInit
  <2>2. be = [state |-> "OFFLINE", drain |-> FALSE, age |-> 0, sampled |-> FALSE, owed |-> 0,
              senders |-> {}, unflushed |-> FALSE, torn |-> FALSE]
    BY DEF Init, BackendInit
  <2>3. /\ "OFFLINE" \in States /\ FALSE \in BOOLEAN /\ 0 \in 0..2 /\ 0 \in Int
        /\ {} \in SUBSET Senders
    BY DEF States
  <2>4. be \in Be
    BY <2>2, <2>3 DEF Be
  <2>. QED  BY <2>1, <2>4 DEF BackendTypeOK, Be
<1>2. RawTypeOK
  <2>1. 0 \in 0..MaxConns /\ 0 \in 0..MaxChunks
    BY RawAssumption
  <2>2. <<>> \in Seq({"data", "eoj"})
    OBVIOUS
  <2>3. /\ waiting = FALSE /\ fd = FALSE /\ inbox = <<>> /\ peer = "open"
        /\ got = FALSE /\ stale = FALSE /\ closing = "no" /\ conns = 0 /\ chunks = 0
    BY DEF Init, RawInit
  <2>. QED  BY <2>1, <2>2, <2>3 DEF RawTypeOK
<1>3. IppTypeOK
  <2>1. 0 \in 0..MaxBlocks /\ 0 \in 0..MaxRequests /\ NoState \in JobStates
    BY IppAssumption DEF JobStates
  <2>2. /\ jobId = 0 /\ jobState = NoState /\ pending = FALSE /\ processing = FALSE
        /\ inDocument = FALSE /\ blocks = 0 /\ reqs = 0
    BY DEF Init, IppInit
  <2>. QED  BY <2>1, <2>2 DEF IppTypeOK
<1>. QED  BY <1>1, <1>2, <1>3 DEF Init, TypeOK

LEMMA TypeStep ==
  TypeOK /\ [Next]_vars => TypeOK'
<1>. SUFFICES ASSUME TypeOK, [Next]_vars PROVE TypeOK'
  OBVIOUS
<1>. USE DEF TypeOK
<1>b. be \in Be /\ host \in {"running", "enumerating", "ready"} /\ found \in {"no", "unusable", "usable"}
      /\ status \in Reports \cup {"none"}
  BY DEF BackendTypeOK, Be
<1>h. ASSUME be' \in Be, UNCHANGED hostVars PROVE BackendTypeOK'
  BY <1>b, <1>h DEF BackendTypeOK, Be, hostVars
<1>r. ASSUME UNCHANGED rawVars PROVE RawTypeOK'
  BY <1>r DEF RawTypeOK, rawVars
<1>i. ASSUME UNCHANGED ippVars PROVE IppTypeOK'
  BY <1>i DEF IppTypeOK, ippVars
<1>1. CASE PollDrain
  BY <1>1, <1>b, <1>h, <1>r, <1>i, DrainedIs DEF PollDrain, Goto
<1>2. CASE PollRaw
  BY <1>2, <1>b, <1>h, <1>i, HandleRawTypes DEF PollRaw, Goto
<1>3. CASE PollSwitch
  BY <1>3, <1>b, <1>h, <1>r, <1>i, FollowedIs DEF PollSwitch, Goto
<1>4. CASE IppRefresh
  BY <1>4, <1>b, <1>h, <1>r, IppTypes DEF IppRefresh, Goto
<1>5. CASE IppAccept
  BY <1>5, <1>b, <1>h, <1>r, IppTypes DEF IppAccept
<1>6. CASE IppDocument
  BY <1>6, <1>b, <1>h, <1>r, IppTypes DEF IppDocument
<1>7. CASE UsbTask \/ DrainAge
  BY <1>7, <1>r, <1>i, EventIs DEF UsbTask, DrainAge
<1>8. CASE Network \/ Idle \/ Guard
  <2>1. RawTypeOK'
    <3>0. MaxConns \in Nat /\ MaxChunks \in Nat
      BY RawAssumption
    <3>1. CASE Connect
      BY <3>0, <3>1 DEF Connect, RawTypeOK
    <3>2. CASE SendChunk
      <4>1. inbox' \in Seq({"data", "eoj"})
        BY <3>2 DEF SendChunk, RawTypeOK
      <4>. QED  BY <3>0, <3>2, <4>1 DEF SendChunk, RawTypeOK
    <3>3. CASE EndConnection
      BY <3>3 DEF EndConnection, RawTypeOK
    <3>4. CASE IdleTimeout
      BY <3>4 DEF IdleTimeout, RawTypeOK
    <3>5. CASE GuardExpires
      BY <3>5 DEF GuardExpires, RawTypeOK
    <3>. QED  BY <1>8, <3>1, <3>2, <3>3, <3>4, <3>5 DEF Network, RawClient, Idle, Guard
  <2>2. be' = be /\ UNCHANGED <<hostVars, ippVars>> /\ at' = at
    BY <1>8 DEF Network, Idle, Guard
  <2>. QED  BY <1>b, <1>h, <1>i, <2>1, <2>2
<1>9. CASE UNCHANGED vars
  BY <1>9, <1>b, <1>h, <1>r, <1>i DEF vars
<1>. QED  BY <1>1, <1>2, <1>3, <1>4, <1>5, <1>6, <1>7, <1>8, <1>9 DEF Next, LoopStep

\* Every reachable state of the print server is well typed.
THEOREM ServerTypes == Spec => []TypeOK
<1>1. Init => TypeOK
  BY TypeInit
<1>2. TypeOK /\ [Next]_vars => TypeOK'
  BY TypeStep
<1>. QED  BY <1>1, <1>2, PTL DEF Spec

-----------------------------------------------------------------------------
(***************************************************************************)
(* The IPP job                                                             *)
(***************************************************************************)

\* What holds of the job at every step: the loop is in streamDocument() exactly
\* while there is a document, a job whose document comes has not ended, and
\* pendingJob_ is set only of a pending job.
JobInv ==
  /\ inDocument <=> at = "doc"
  /\ inDocument => jobState \in {Pending, Processing}
  /\ PendingAwaits

LEMMA JobStep ==
  TypeOK /\ JobInv /\ [Next]_vars =>
    /\ JobInv'
    /\ jobId' = jobId /\ jobState \in Terminal => jobState' = jobState
<1>. SUFFICES ASSUME TypeOK, JobInv, [Next]_vars
              PROVE  /\ JobInv'
                     /\ jobId' = jobId /\ jobState \in Terminal => jobState' = jobState
  OBVIOUS
<1>. USE DEF JobInv, PendingAwaits
<1>c. /\ Pending = 3 /\ Processing = 4 /\ Terminal = {7, 8, 9} /\ Completed = 9
      /\ Canceled = 7 /\ JobAborted = 8 /\ Stopped = 6
  BY DEF Pending, Processing, Terminal, Completed, Canceled, JobAborted, Stopped
<1>t. /\ jobId \in Nat /\ pending \in BOOLEAN /\ processing \in BOOLEAN
      /\ inDocument \in BOOLEAN
  BY DEF TypeOK, IppTypeOK
<1>1. CASE UNCHANGED ippVars /\ (UNCHANGED at \/ (at # "doc" /\ at' # "doc"))
  BY <1>1 DEF ippVars
<1>2. CASE IppRefresh
  <2>1. inDocument' = inDocument /\ ~inDocument /\ at' # "doc" /\ jobId' = jobId
    BY <1>2 DEF IppRefresh, Goto, RefreshJobState, RefreshTo
  <2>2. \/ jobState' = jobState /\ pending' = pending
        \/ /\ jobState \in {Pending, Processing}
           /\ pending' => pending /\ jobState' = jobState
    BY <1>2 DEF IppRefresh, RefreshJobState, RefreshTo
  <2>. QED  BY <1>c, <2>1, <2>2
<1>3. CASE IppAccept
  <2>1. ~inDocument /\ at' = IF inDocument' THEN "doc" ELSE "drain"
    BY <1>3 DEF IppAccept
  <2>2. (inDocument' <=> at' = "doc")
    BY <2>1
  <2>3. CASE PrintJob(rawClientConnected)
    BY <1>c, <1>t, <2>1, <2>2, <2>3 DEF PrintJob, NewJob
  <2>4. CASE CreateJob
    BY <1>c, <1>t, <2>1, <2>2, <2>4 DEF CreateJob, NewJob
  <2>5. CASE SendDocument
    BY <1>c, <1>t, <2>1, <2>2, <2>5 DEF SendDocument
  <2>6. CASE CancelJob
    BY <1>c, <1>t, <2>1, <2>2, <2>6 DEF CancelJob
  <2>7. CASE CloseJob
    BY <1>c, <1>t, <2>1, <2>2, <2>7 DEF CloseJob
  <2>8. CASE NoJobRequest
    BY <2>1, <2>2, <2>8 DEF NoJobRequest, ippVars
  <2>. QED  BY <1>3, <2>3, <2>4, <2>5, <2>6, <2>7, <2>8 DEF IppAccept
<1>4. CASE IppDocument
  <2>1. inDocument /\ at' = IF inDocument' THEN "doc" ELSE "drain"
    BY <1>4 DEF IppDocument
  <2>2. (inDocument' <=> at' = "doc")
    BY <2>1
  <2>3. CASE DocumentBlock
    BY <1>c, <1>t, <2>1, <2>2, <2>3 DEF DocumentBlock
  <2>4. CASE DocumentEnds
    BY <1>c, <1>t, <2>1, <2>2, <2>4 DEF DocumentEnds, DocumentResult
  <2>. QED  BY <1>4, <2>3, <2>4 DEF IppDocument
<1>5. CASE UNCHANGED vars
  BY <1>1, <1>5 DEF vars
<1>6. CASE PollDrain \/ PollRaw \/ PollSwitch
  BY <1>1, <1>6 DEF PollDrain, PollRaw, PollSwitch, Goto
<1>7. CASE UsbTask \/ Network \/ DrainAge \/ Idle \/ Guard
  BY <1>1, <1>7 DEF UsbTask, Network, DrainAge, Idle, Guard
<1>. QED  BY <1>2, <1>3, <1>4, <1>5, <1>6, <1>7 DEF Next, LoopStep

LEMMA JobInvariant == Spec => [](TypeOK /\ JobInv)
<1>1. Init => TypeOK /\ JobInv
  BY TypeInit DEF Init, BackendInit, RawInit, IppInit, JobInv, PendingAwaits
<1>2. TypeOK /\ JobInv /\ [Next]_vars => (TypeOK /\ JobInv)'
  BY TypeStep, JobStep
<1>. QED  BY <1>1, <1>2, PTL DEF Spec

\* pendingJob_ is set only while the job is pending, so Close-Job never completes
\* a job that has ended otherwise.
THEOREM PendingCorrect == Spec => []PendingAwaits
<1>1. JobInv => PendingAwaits
  BY DEF JobInv
<1>. QED  BY <1>1, JobInvariant, PTL

\* A canceled, aborted or completed job keeps that state while it is the last job.
THEOREM EndedJobsStay == Spec => TerminalStable
<1>1. TypeOK /\ JobInv /\ [Next]_vars =>
        [jobId' = jobId /\ jobState \in Terminal => jobState' = jobState]_vars
  BY JobStep
<1>. QED  BY <1>1, JobInvariant, PTL DEF Spec, TerminalStable

-----------------------------------------------------------------------------
(***************************************************************************)
(* Who shares the USB job                                                  *)
(***************************************************************************)

\* What holds of the backend alone: a drain is of a job in progress, only that has
\* senders, nothing unflushed is under a drain but of two senders, and a Print-Job's
\* document is alone.
JobOK(b) ==
  /\ b.drain => b.state = "PRINTING"
  /\ b.state # "PRINTING" => b.senders = {}
  /\ b.drain /\ b.unflushed => {"raw", "send"} \subseteq b.senders
  /\ "print" \in b.senders => b.senders = {"print"}

\* While a job awaits its document, a job in progress is a RAW client's.
AwaitOK(b) ==
  pending => "print" \notin b.senders /\ (b.state = "PRINTING" => "raw" \in b.senders)

\* A RAW client that may still send meets no Print-Job, and a drain only if a
\* Send-Document began it; a document that is sent meets a drain only if it awaited
\* its turn and a RAW client began it.
SharingInv ==
  /\ JobOK(be)
  /\ got => fd
  /\ closing # "no" => fd
  /\ fd /\ closing = "no" => "print" \notin be.senders
  /\ fd /\ closing = "no" /\ be.drain => "send" \in be.senders
  /\ pending => "print" \notin be.senders
  /\ ~inDocument => AwaitOK(be)
  /\ inDocument /\ be.drain => "raw" \in be.senders
  /\ inDocument /\ ~pending => ~fd /\ ~be.drain /\ be.senders \subseteq {"print"}
  /\ inDocument /\ processing => be.state = "PRINTING" /\ Sender \in be.senders

-----------------------------------------------------------------------------
\* A block keeps the job right if a drain it meets is then of two senders, and a
\* Print-Job's document is not mixed with others.
LEMMA SentOK ==
  ASSUME NEW b \in Be, NEW who \in Senders, b.state \in {"IDLE", "PRINTING"}, JobOK(b),
         b.drain => {"raw", "send"} \subseteq b.senders \cup {who},
         IF who = "print" THEN b.senders \subseteq {"print"} ELSE "print" \notin b.senders
  PROVE  /\ JobOK(Sent(b, who))
         /\ who \in Sent(b, who).senders
         /\ Sent(b, who).senders = b.senders \cup {who}
         /\ Sent(b, who).drain = b.drain
         /\ Sent(b, who).state = "PRINTING"
<1>1. Sent(b, who).state = "PRINTING"
  BY SentIs
<1>2. CASE b.state = "IDLE"
  <2>1. b.senders = {} /\ b.drain = FALSE
    BY <1>2 DEF JobOK, Be
  <2>2. Sent(b, who).senders = {who} /\ Sent(b, who).drain = FALSE
    BY <1>2, SentIs
  <2>. QED  BY <1>1, <2>1, <2>2 DEF JobOK
<1>3. CASE b.state = "PRINTING"
  <2>1. Sent(b, who).senders = b.senders \cup {who} /\ Sent(b, who).drain = b.drain
    BY <1>3, SentIs
  <2>. QED  BY <1>1, <2>1 DEF JobOK
<1>. QED  BY <1>2, <1>3

\* After an abort there is no job to be wrong about.
LEMMA AbortedOK ==
  ASSUME NEW b \in Be
  PROVE  JobOK(Aborted(b)) /\ AwaitOK(Aborted(b))
BY AbortedIs DEF JobOK, AwaitOK

\* The end of a job keeps its senders, or aborts it.
LEMMA FinishedOK ==
  ASSUME NEW b \in Be, NEW flushed \in BOOLEAN, JobOK(b)
  PROVE  /\ JobOK(Finished(b, flushed))
         /\ \/ Finished(b, flushed).senders = b.senders /\ Finished(b, flushed).state = b.state
            \/ /\ Finished(b, flushed).senders = {} /\ Finished(b, flushed).state = "ERROR"
               /\ ~Finished(b, flushed).drain
         /\ AwaitOK(b) => AwaitOK(Finished(b, flushed))
<1>1. CASE Finished(b, flushed) = b
  BY <1>1
<1>2. CASE /\ b.state = "PRINTING" /\ Finished(b, flushed).state = "PRINTING"
           /\ Finished(b, flushed).drain /\ ~Finished(b, flushed).unflushed
           /\ Finished(b, flushed).senders = b.senders
  BY <1>2 DEF JobOK, AwaitOK
<1>3. CASE b.state = "PRINTING" /\ Finished(b, flushed) = Aborted(b)
  BY <1>3, AbortedOK, AbortedIs
<1>. QED  BY <1>1, <1>2, <1>3, FinishedIs

\* Whatever leaves these four fields alone leaves the job right.
LEMMA SameOK ==
  ASSUME NEW b, NEW c, JobOK(b),
         (c.state = "PRINTING") <=> (b.state = "PRINTING"), c.drain = b.drain,
         c.senders = b.senders, c.unflushed = b.unflushed
  PROVE  JobOK(c) /\ (AwaitOK(b) => AwaitOK(c))
BY DEF JobOK, AwaitOK

-----------------------------------------------------------------------------
\* The RAW client is let go: what is left to show is of the backend.
LEMMA ResetShares ==
  ASSUME ResetTransport, ~inDocument', pending' = pending, JobOK(be'), AwaitOK(be')
  PROVE  SharingInv'
BY DEF ResetTransport, SharingInv, AwaitOK

LEMMA AbortShares ==
  ASSUME NEW b \in Be, NEW g \in BOOLEAN, AbortConnection(b, g), ~inDocument',
         pending' = pending, JobOK(b), AwaitOK(b)
  PROVE  SharingInv'
<1>1. JobOK(be') /\ AwaitOK(be') /\ ResetTransport
  BY AbortedOK DEF AbortConnection
<1>. QED  BY <1>1, ResetShares

LEMMA FinishShares ==
  ASSUME NEW b \in Be, NEW g \in BOOLEAN, FinishConnection(b, g), ~inDocument', fd,
         pending' = pending, JobOK(b), AwaitOK(b)
  PROVE  SharingInv'
<1>1. CASE be' = b /\ ResetTransport
  BY <1>1, ResetShares
<1>2. CASE ~(be' = b /\ ResetTransport)
  <2>1. PICK flushed \in BOOLEAN : be' = Finished(b, flushed)
    BY <1>2 DEF FinishConnection
  <2>2. closing' = "closing" /\ fd' = fd
    BY <1>2 DEF FinishConnection
  <2>3. JobOK(be') /\ AwaitOK(be')
    BY <2>1, FinishedOK
  <2>. QED  BY <2>2, <2>3 DEF SharingInv, AwaitOK
<1>. QED  BY <1>1, <1>2

LEMMA ChecksShares ==
  ASSUME NEW b \in Be, NEW g \in BOOLEAN, NEW s \in BOOLEAN, RawChecks(b, g, s),
         ~inDocument', pending' = pending, fd, closing = "no", JobOK(b), AwaitOK(b),
         "print" \notin b.senders, b.drain => "send" \in b.senders
  PROVE  SharingInv'
<1>1. CASE AbortConnection(b, g)
  BY <1>1, AbortShares
<1>2. CASE FinishConnection(b, g)
  BY <1>2, FinishShares
<1>3. CASE be' = b /\ UNCHANGED <<fd, closing>>
  BY <1>3 DEF SharingInv, AwaitOK
<1>. QED  BY <1>1, <1>2, <1>3 DEF RawChecks

LEMMA HandleRawShares ==
  ASSUME TypeOK, SharingInv, HandleRaw, ~inDocument, ~inDocument', pending' = pending
  PROVE  SharingInv'
<1>t. /\ be \in Be /\ got \in BOOLEAN /\ stale \in BOOLEAN
      /\ "raw" \in Senders /\ TRUE \in BOOLEAN
  BY DEF TypeOK, BackendTypeOK, Be, RawTypeOK, Senders
<1>b. JobOK(be) /\ AwaitOK(be)
  BY DEF SharingInv
<1>. DEFINE S == Sent(be, "raw")
<1>s. ASSUME fd, closing = "no", ~Refuses(be)
      PROVE  /\ S \in Be /\ JobOK(S) /\ AwaitOK(S)
             /\ "print" \notin S.senders /\ (S.drain => "send" \in S.senders)
  <2>1. be.state \in {"IDLE", "PRINTING"}
    BY <1>s DEF Refuses
  <2>2. "print" \notin be.senders /\ (be.drain => "send" \in be.senders)
    BY <1>s DEF SharingInv
  <2>3. S \in Be
    BY <1>t, <2>1, SentIs
  <2>4. JobOK(S) /\ S.senders = be.senders \cup {"raw"} /\ S.drain = be.drain
    BY <1>b, <1>t, <2>1, <2>2, SentOK
  <2>. QED  BY <2>2, <2>3, <2>4 DEF AwaitOK
<1>. HIDE DEF S
<1>1. CASE RawClose
  <2>1. CASE be' = be /\ ResetTransport
    BY <1>b, <2>1, ResetShares
  <2>2. CASE be' = be /\ fd' = fd /\ got' = got /\ closing # "no" /\ closing' = "guard"
    BY <1>b, <2>2 DEF SharingInv, AwaitOK
  <2>. QED  BY <1>1, <2>1, <2>2 DEF RawClose, rawVars
<1>2. CASE RawAccept
  <2>1. /\ be' = be /\ closing' = closing /\ got' = got /\ ~fd /\ closing = "no"
        /\ fd' => be.state = "IDLE"
    BY <1>2 DEF RawAccept
  <2>2. be.state = "IDLE" => be.senders = {} /\ ~be.drain
    BY <1>b DEF JobOK
  <2>. QED  BY <2>1, <2>2 DEF SharingInv, AwaitOK
<1>3. CASE RawNobody
  BY <1>3 DEF RawNobody, SharingInv, AwaitOK, rawVars
<1>4. CASE RawQuiet
  BY <1>4, <1>b, <1>t, ChecksShares DEF RawQuiet, SharingInv
<1>5. CASE RawStream
  BY <1>5, <1>s, <1>t, ChecksShares DEF RawStream, S
<1>6. CASE RawEoj
  BY <1>6, <1>s, <1>t, FinishShares DEF RawEoj, S
<1>7. CASE RawSendFails
  <2>1. CASE Refuses(be)
    BY <1>7, <1>b, <1>t, <2>1, AbortShares DEF RawSendFails
  <2>2. CASE ~Refuses(be)
    <3>1. Aborted(S) \in Be /\ JobOK(Aborted(S)) /\ AwaitOK(Aborted(S))
      BY <1>7, <1>s, <2>2, AbortedOK, AbortedIs DEF RawSendFails
    <3>2. PICK g \in {got, TRUE} : AbortConnection(Aborted(S), g)
      BY <1>7, <2>2 DEF RawSendFails, S
    <3>3. g \in BOOLEAN
      BY <1>t
    <3>. QED  BY <3>1, <3>2, <3>3, AbortShares
  <2>. QED  BY <2>1, <2>2
<1>. QED  BY <1>1, <1>2, <1>3, <1>4, <1>5, <1>6, <1>7 DEF HandleRaw
-----------------------------------------------------------------------------
(***************************************************************************)
(* The IPP service and the other steps                                     *)
(***************************************************************************)
LEMMA SharingInit ==
  Init => SharingInv
BY DEF Init, BackendInit, RawInit, IppInit, SharingInv, JobOK, AwaitOK

\* A block of the document that is being sent.
LEMMA BlockShares ==
  ASSUME TypeOK, SharingInv, inDocument, ~Refuses(be)
  PROVE  LET S == Sent(be, Sender)
         IN  /\ S \in Be /\ JobOK(S) /\ S.state = "PRINTING"
             /\ S.drain = be.drain /\ S.senders = be.senders \cup {Sender}
<1>1. be \in Be /\ be.state \in {"IDLE", "PRINTING"}
  BY DEF TypeOK, BackendTypeOK, Be, Refuses
<1>2. Sender \in Senders /\ JobOK(be)
  BY SenderIs DEF SharingInv
<1>3. be.drain => {"raw", "send"} \subseteq be.senders \cup {Sender}
  BY SenderIs DEF SharingInv
<1>4. IF Sender = "print" THEN be.senders \subseteq {"print"} ELSE "print" \notin be.senders
  BY SenderIs DEF SharingInv
<1>5. Sent(be, Sender) \in Be
  BY <1>1, <1>2, SentIs
<1>. QED  BY <1>1, <1>2, <1>3, <1>4, <1>5, SentOK

LEMMA DocumentShares ==
  ASSUME TypeOK, JobInv, SharingInv, IppDocument
  PROVE  SharingInv'
<1>t. be \in Be /\ inDocument /\ JobOK(be)
  BY DEF TypeOK, BackendTypeOK, Be, IppDocument, SharingInv, JobInv
<1>r. fd' = fd /\ closing' = closing /\ got' = got
  BY DEF IppDocument, rawVars
<1>1. CASE DocumentBlock
  <2>1. /\ be' = Sent(be, Sender) /\ ~Refuses(be) /\ pending' = pending /\ inDocument'
    BY <1>1, <1>t DEF DocumentBlock
  <2>2. /\ JobOK(be') /\ be'.state = "PRINTING" /\ be'.drain = be.drain
        /\ be'.senders = be.senders \cup {Sender}
    BY <1>t, <2>1, BlockShares
  <2>3. Sender' = Sender
    BY <2>1 DEF Sender
  <2>4. pending => /\ Sender = "send" /\ "print" \notin be'.senders /\ "send" \in be'.senders
                   /\ (be'.drain => "raw" \in be'.senders)
    BY <1>t, <2>2, SenderIs DEF SharingInv
  <2>5. ~pending => /\ Sender = "print" /\ be'.senders \subseteq {"print"}
                    /\ ~fd /\ ~be'.drain
    BY <1>t, <2>2, SenderIs DEF SharingInv
  <2>6. (got => fd) /\ (closing # "no" => fd) /\ Sender' \in be'.senders
    BY <2>2, <2>3 DEF SharingInv
  <2>. QED  BY <1>r, <2>1, <2>2, <2>4, <2>5, <2>6 DEF SharingInv
<1>2. CASE DocumentEnds
  <2>1. inDocument' = FALSE /\ pending' = FALSE
    BY <1>2 DEF DocumentEnds, DocumentResult
  <2>2. /\ JobOK(be')
        /\ \/ processing /\ be'.senders = be.senders
           \/ be' = be
           \/ be'.senders = {} /\ ~be'.drain
    <3>1. CASE processing /\ \E flushed \in BOOLEAN : be' = Finished(be, flushed)
      BY <1>t, <3>1, FinishedOK
    <3>2. CASE DocumentFails(be)
      BY <1>t, <3>2, AbortedOK, AbortedIs DEF DocumentFails
    <3>3. CASE ~Refuses(be) /\ DocumentFails(Aborted(Sent(be, Sender)))
      <4>1. Sent(be, Sender) \in Be
        BY <1>t, <3>3, BlockShares
      <4>2. Aborted(Sent(be, Sender)) \in Be
        BY <4>1, AbortedIs
      <4>. QED  BY <3>3, <4>1, <4>2, AbortedOK, AbortedIs DEF DocumentFails
    <3>. QED  BY <1>2, <3>1, <3>2, <3>3 DEF DocumentEnds, DocumentResult
  <2>. QED  BY <1>r, <1>t, <2>1, <2>2, SenderIs DEF SharingInv, AwaitOK
<1>. QED  BY <1>1, <1>2 DEF IppDocument

LEMMA RequestShares ==
  ASSUME TypeOK, JobInv, SharingInv, IppRefresh \/ IppAccept
  PROVE  SharingInv'
<1>t. be \in Be /\ ~inDocument /\ JobOK(be) /\ AwaitOK(be)
  BY DEF TypeOK, BackendTypeOK, Be, IppRefresh, IppAccept, Goto, JobInv, SharingInv
<1>r. fd' = fd /\ closing' = closing /\ got' = got
  BY DEF IppRefresh, IppAccept, rawVars
<1>i. be.state = "IDLE" => be.senders = {} /\ ~be.drain
  BY <1>t DEF JobOK
<1>n. ASSUME NEW awaits \in BOOLEAN, NewJob(awaits)
      PROVE  /\ be'.state = be.state /\ be'.drain = be.drain /\ be'.senders = be.senders
             /\ JobOK(be') /\ pending' = awaits /\ processing' = FALSE
  <2>1. /\ be'.state = be.state /\ be'.drain = be.drain
        /\ be'.senders = be.senders /\ be'.unflushed = be.unflushed
    BY <1>n, <1>t, NewJobIs
  <2>. QED  BY <1>n, <1>t, <2>1, SameOK DEF NewJob
<1>1. CASE be' = be /\ inDocument' = inDocument /\ (pending' => pending)
  BY <1>1, <1>r, <1>t DEF SharingInv, AwaitOK
<1>2. CASE IppRefresh
  BY <1>1, <1>2 DEF IppRefresh, RefreshJobState, RefreshTo
<1>3. CASE PrintJob(rawClientConnected)
  <2>1. CASE NewJob(FALSE) /\ inDocument' /\ ~rawClientConnected /\ be.state = "IDLE"
    BY <1>i, <1>n, <1>r, <2>1 DEF SharingInv, rawClientConnected
  <2>. QED  BY <1>1, <1>3, <2>1 DEF PrintJob
<1>4. CASE CreateJob
  <2>1. CASE NewJob(TRUE) /\ be.state = "IDLE" /\ inDocument' = inDocument
    BY <1>i, <1>n, <1>r, <1>t, <2>1 DEF SharingInv, AwaitOK
  <2>. QED  BY <1>1, <1>4, <2>1 DEF CreateJob
<1>5. CASE SendDocument
  <2>1. CASE be' = be /\ pending' = pending /\ pending /\ inDocument' /\ processing' = FALSE
    BY <1>r, <1>t, <2>1 DEF SharingInv, AwaitOK, JobOK
  <2>. QED  BY <1>1, <1>5, <2>1 DEF SendDocument
<1>6. CASE CancelJob
  <2>1. CASE be' = Aborted(be) /\ pending' = FALSE /\ inDocument' = inDocument
    BY <1>r, <1>t, <2>1, AbortedOK, AbortedIs DEF SharingInv, AwaitOK
  <2>. QED  BY <1>1, <1>6, <2>1 DEF CancelJob
<1>7. CASE CloseJob \/ NoJobRequest
  BY <1>1, <1>7 DEF CloseJob, NoJobRequest, ippVars
<1>. QED  BY <1>2, <1>3, <1>4, <1>5, <1>6, <1>7 DEF IppAccept

LEMMA SharingStep ==
  ASSUME TypeOK, JobInv, SharingInv, [Next]_vars
  PROVE  SharingInv'
<1>t. be \in Be /\ JobOK(be)
  BY DEF TypeOK, BackendTypeOK, Be, SharingInv
<1>e. ASSUME UNCHANGED <<fd, closing, got, ippVars>>,
             be'.state = be.state \/ (be.state # "PRINTING" /\ be'.state # "PRINTING"),
             be'.drain = be.drain, be'.senders = be.senders, be'.unflushed = be.unflushed
      PROVE  SharingInv'
  <2>1. JobOK(be') /\ (AwaitOK(be) => AwaitOK(be'))
    BY <1>e, <1>t, SameOK
  <2>. QED  BY <1>e, <2>1 DEF SharingInv, AwaitOK, ippVars, Sender
<1>1. CASE PollDrain
  <2>1. be' = Drained(be) /\ UNCHANGED <<fd, closing, got, ippVars>> /\ ~inDocument
    BY <1>1 DEF PollDrain, Goto, rawVars, JobInv
  <2>2. CASE Drained(be) = be
    BY <1>e, <2>1, <2>2
  <2>3. CASE be'.state # "PRINTING" /\ be'.drain = FALSE /\ be'.senders = {}
    BY <2>1, <2>3 DEF SharingInv, JobOK, AwaitOK, ippVars
  <2>. QED  BY <1>t, <2>1, <2>2, <2>3, DrainedIs
<1>2. CASE PollRaw
  BY <1>2, HandleRawShares DEF PollRaw, Goto, JobInv, ippVars
<1>3. CASE PollSwitch
  BY <1>3, <1>e, <1>t, FollowedIs DEF PollSwitch, rawVars
<1>4. CASE IppRefresh \/ IppAccept \/ IppDocument
  BY <1>4, RequestShares, DocumentShares
<1>5. CASE UsbTask \/ DrainAge
  BY <1>5, <1>e, EventIs DEF UsbTask, DrainAge, rawVars, TypeOK
<1>6. CASE Network \/ Idle
  BY <1>6, <1>e DEF Network, RawClient, Connect, SendChunk, EndConnection, Idle, IdleTimeout
<1>7. CASE Guard
  BY <1>7 DEF Guard, GuardExpires, ippVars, SharingInv, AwaitOK, Sender
<1>8. CASE UNCHANGED vars
  BY <1>8, <1>e DEF vars, rawVars
<1>. QED  BY <1>1, <1>2, <1>3, <1>4, <1>5, <1>6, <1>7, <1>8 DEF Next, LoopStep

LEMMA SharingInvariant == Spec => [](TypeOK /\ JobInv /\ SharingInv)
<1>1. Init => SharingInv
  BY SharingInit
<1>2. TypeOK /\ JobInv /\ SharingInv /\ [Next]_vars => SharingInv'
  BY SharingStep
<1>. QED  BY <1>1, <1>2, JobInvariant, PTL DEF Spec

\* The document of a Print-Job has its USB job alone, whatever RAW clients and the other
\* operations do.
THEOREM PrintJobsAreAlone == Spec => []PrintJobAlone
<1>1. SharingInv => PrintJobAlone
  BY DEF SharingInv, JobOK, PrintJobAlone
<1>. QED  BY <1>1, SharingInvariant, PTL

\* The guard never runs over bytes of a single sender that were not flushed.
THEOREM TailIsDrained == Spec => []TailDrained
<1>1. ASSUME TypeOK, SharingInv PROVE TailDrained
  <2>. SUFFICES ASSUME be.drain, be.unflushed, OneSender PROVE FALSE
    BY <1>1 DEF TailDrained, TypeOK, BackendTypeOK
  <2>1. {"raw", "send"} \subseteq be.senders
    BY <1>1 DEF SharingInv, JobOK
  <2>2. IsFiniteSet(be.senders)
    <3>1. IsFiniteSet({"raw", "print", "send"})
      <4>1. IsFiniteSet({"raw"} \cup {"print"})
        BY FS_Singleton, FS_AddElement
      <4>2. IsFiniteSet(({"raw"} \cup {"print"}) \cup {"send"})
        BY <4>1, FS_AddElement
      <4>3. ({"raw"} \cup {"print"}) \cup {"send"} = {"raw", "print", "send"}
        OBVIOUS
      <4>. QED  BY <4>2, <4>3
    <3>2. be.senders \subseteq {"raw", "print", "send"}
      BY <1>1 DEF TypeOK, BackendTypeOK, Senders
    <3>. QED  BY <3>1, <3>2, FS_Subset
  <2>3. Cardinality({"raw", "send"}) = 2
    <3>1. {"raw", "send"} = {"raw"} \cup {"send"} /\ "send" \notin {"raw"}
      OBVIOUS
    <3>2. IsFiniteSet({"raw"}) /\ Cardinality({"raw"}) = 1
      BY FS_Singleton
    <3>3. Cardinality({"raw"} \cup {"send"}) = Cardinality({"raw"}) + 1
      BY <3>1, <3>2, FS_AddElement
    <3>. QED  BY <3>1, <3>2, <3>3
  <2>4. Cardinality({"raw", "send"}) <= Cardinality(be.senders)
    BY <2>1, <2>2, FS_Subset
  <2>. QED  BY <2>2, <2>3, <2>4, FS_CardinalityType DEF OneSender
<1>. QED  BY <1>1, SharingInvariant, PTL
-----------------------------------------------------------------------------
(***************************************************************************)
(* The count of the jobs                                                   *)
(***************************************************************************)
Printing(b) == IF b.state = "PRINTING" THEN 1 ELSE 0

\* From b to c as many jobs were counted as ended.
Balanced(b, c) == c.owed - b.owed = Printing(c) - Printing(b)

LEMMA SentBalanced ==
  ASSUME NEW b \in Be, NEW who \in Senders, b.state \in {"IDLE", "PRINTING"}
  PROVE  Balanced(b, Sent(b, who))
<1>. DEFINE S == Sent(b, who)
<1>1. b.owed \in Int
  BY DEF Be
<1>2. S.state = "PRINTING" /\ S.owed = IF b.state = "IDLE" THEN b.owed + 1 ELSE b.owed
  BY SentIs
<1>. HIDE DEF S
<1>3. Balanced(b, S)
  BY <1>1, <1>2 DEF Balanced, Printing
<1>. QED  BY <1>3 DEF S

\* Only the abort of a job that was no longer in progress counts too much.
LEMMA AbortedBalanced ==
  ASSUME NEW b \in Be
  PROVE  IF b.state \in {"PRINTING", "ERROR"} THEN Balanced(b, Aborted(b))
                                              ELSE Aborted(b).owed = b.owed - 1
<1>. DEFINE A == Aborted(b)
<1>1. b.owed \in Int
  BY DEF Be
<1>2. A.state = "ERROR" /\ A.owed = IF b.state = "ERROR" THEN b.owed ELSE b.owed - 1
  BY AbortedIs
<1>. HIDE DEF A
<1>3. CASE b.state = "PRINTING"
  <2>1. Balanced(b, A)
    BY <1>1, <1>2, <1>3 DEF Balanced, Printing
  <2>. QED  BY <1>3, <2>1 DEF A
<1>4. CASE b.state = "ERROR"
  <2>1. Balanced(b, A)
    BY <1>1, <1>2, <1>4 DEF Balanced, Printing
  <2>. QED  BY <1>4, <2>1 DEF A
<1>5. CASE b.state \notin {"PRINTING", "ERROR"}
  BY <1>2, <1>5 DEF A
<1>. QED  BY <1>3, <1>4, <1>5

LEMMA FinishedBalanced ==
  ASSUME NEW b \in Be, NEW flushed \in BOOLEAN
  PROVE  Balanced(b, Finished(b, flushed))
<1>1. b.owed \in Int
  BY DEF Be
<1>2. CASE Finished(b, flushed) = b
  BY <1>1, <1>2 DEF Balanced, Printing
<1>3. CASE /\ b.state = "PRINTING" /\ Finished(b, flushed).state = "PRINTING"
           /\ Finished(b, flushed).owed = b.owed
  BY <1>1, <1>3 DEF Balanced, Printing
<1>4. CASE b.state = "PRINTING" /\ Finished(b, flushed) = Aborted(b)
  BY <1>4, AbortedBalanced
<1>. QED  BY <1>2, <1>3, <1>4, FinishedIs

LEMMA BalancedTwice ==
  ASSUME NEW a \in Be, NEW b \in Be, NEW c \in Be, Balanced(a, b), Balanced(b, c)
  PROVE  Balanced(a, c)
<1>1. a.owed \in Int /\ b.owed \in Int /\ c.owed \in Int
  BY DEF Be
<1>2. Printing(a) \in Int /\ Printing(b) \in Int /\ Printing(c) \in Int
  BY DEF Printing
<1>. QED  BY <1>1, <1>2 DEF Balanced

\* Whoever leaves the job in progress as it was leaves the count as it was.
LEMMA SameBalanced ==
  ASSUME NEW b \in Be, NEW c, c.owed = b.owed, (c.state = "PRINTING") <=> (b.state = "PRINTING")
  PROVE  Balanced(b, c)
<1>1. b.owed \in Int
  BY DEF Be
<1>. QED  BY <1>1 DEF Balanced, Printing

\* The end of a connection: it keeps the count unless it aborts over a job that is gone.
LEMMA EndCounts ==
  ASSUME NEW b \in Be, NEW g \in BOOLEAN, AbortConnection(b, g) \/ FinishConnection(b, g)
  PROVE  /\ \/ Balanced(b, be')
            \/ g /\ b.state # "PRINTING" /\ ~fd' /\ be'.owed = b.owed - 1
         /\ ~fd' \/ closing' # "no"
<1>1. Balanced(b, b)
  BY SameBalanced
<1>2. CASE AbortConnection(b, g)
  <2>1. ~fd' /\ be' = IF g THEN Aborted(b) ELSE b
    BY <1>2 DEF AbortConnection, ResetTransport
  <2>2. CASE g
    BY <2>1, <2>2, AbortedBalanced
  <2>3. CASE ~g
    BY <1>1, <2>1, <2>3
  <2>. QED  BY <2>2, <2>3
<1>3. CASE FinishConnection(b, g)
  <2>1. CASE be' = b /\ ResetTransport
    BY <1>1, <2>1 DEF ResetTransport
  <2>2. CASE closing' = "closing" /\ \E flushed \in BOOLEAN : be' = Finished(b, flushed)
    BY <2>2, FinishedBalanced
  <2>. QED  BY <1>3, <2>1, <2>2 DEF FinishConnection
<1>. QED  BY <1>2, <1>3

\* The RAW handler counts the job of its client once more only if it was taken, and
\* takes none itself.
LEMMA HandleRawCounts ==
  ASSUME TypeOK, SharingInv, HandleRaw
  PROVE  /\ \/ Balanced(be, be')
            \/ RawJobTaken /\ ~fd' /\ be'.owed = be.owed - 1
         /\ RawJobTaken' => RawJobTaken
<1>t. /\ be \in Be /\ got \in BOOLEAN /\ stale \in BOOLEAN
      /\ "raw" \in Senders /\ TRUE \in BOOLEAN
  BY DEF TypeOK, BackendTypeOK, Be, RawTypeOK, Senders
<1>b. Balanced(be, be)
  BY <1>t, SameBalanced
<1>. DEFINE S == Sent(be, "raw")
<1>s. ASSUME ~Refuses(be)
      PROVE  S \in Be /\ Balanced(be, S) /\ S.state = "PRINTING"
  BY <1>s, <1>t, SentIs, SentBalanced DEF Refuses
<1>. HIDE DEF S
<1>1. CASE RawClose \/ RawAccept \/ RawNobody
  <2>1. be' = be
    BY <1>1 DEF RawClose, RawAccept, RawNobody
  <2>2. RawJobTaken' => RawJobTaken
    BY <1>1, <2>1
       DEF RawClose, RawAccept, RawNobody, ResetTransport, RawJobTaken, SharingInv, rawVars
  <2>. QED  BY <1>b, <2>1, <2>2
<1>2. CASE RawQuiet
  <2>1. CASE AbortConnection(be, got) \/ FinishConnection(be, got)
    BY <1>2, <1>t, <2>1, EndCounts DEF RawQuiet, RawJobTaken
  <2>2. CASE be' = be /\ got' = got /\ UNCHANGED <<fd, closing>>
    BY <1>b, <2>2 DEF RawJobTaken
  <2>. QED  BY <1>2, <2>1, <2>2 DEF RawQuiet, RawChecks
<1>3. CASE RawStream
  <2>1. S \in Be /\ Balanced(be, S) /\ S.state = "PRINTING"
    BY <1>3, <1>s DEF RawStream
  <2>2. CASE AbortConnection(S, TRUE) \/ FinishConnection(S, TRUE)
    <3>1. Balanced(S, be') /\ (~fd' \/ closing' # "no")
      BY <1>t, <2>1, <2>2, EndCounts
    <3>2. be' \in Be
      BY <1>t, <2>1, <2>2, AbortTypes, FinishTypes DEF TypeOK
    <3>3. Balanced(be, be')
      BY <1>t, <2>1, <3>1, <3>2, BalancedTwice
    <3>. QED  BY <3>1, <3>3 DEF RawJobTaken
  <2>3. CASE be' = S
    BY <2>1, <2>3 DEF RawJobTaken
  <2>. QED  BY <1>3, <2>2, <2>3 DEF RawStream, RawChecks, S
<1>4. CASE RawEoj
  <2>1. S \in Be /\ Balanced(be, S) /\ S.state = "PRINTING" /\ FinishConnection(S, TRUE)
    BY <1>4, <1>s DEF RawEoj, S
  <2>2. Balanced(S, be') /\ (~fd' \/ closing' # "no")
    BY <1>t, <2>1, EndCounts
  <2>3. be' \in Be
    BY <2>1, FinishedIs DEF FinishConnection
  <2>. QED  BY <1>t, <2>1, <2>2, <2>3, BalancedTwice DEF RawJobTaken
<1>5. CASE RawSendFails
  <2>1. CASE Refuses(be)
    BY <1>5, <1>t, <2>1, EndCounts DEF RawSendFails, RawJobTaken
  <2>2. CASE ~Refuses(be)
    <3>. DEFINE A == Aborted(S)
    <3>1. S \in Be /\ Balanced(be, S) /\ S.state = "PRINTING"
      BY <1>s, <2>2
    <3>2. A \in Be /\ Balanced(S, A) /\ A.state = "ERROR"
      BY <3>1, AbortedIs, AbortedBalanced
    <3>3. PICK g \in {got, TRUE} : AbortConnection(A, g)
      BY <1>5, <2>2 DEF RawSendFails, S
    <3>. HIDE DEF A
    <3>4. ~fd' /\ be' = IF g THEN Aborted(A) ELSE A
      BY <3>3 DEF AbortConnection, ResetTransport
    <3>5. be' \in Be /\ Balanced(A, be')
      BY <3>2, <3>4, AbortedIs, AbortedBalanced, SameBalanced
    <3>6. Balanced(be, A)
      BY <1>t, <3>1, <3>2, BalancedTwice
    <3>7. Balanced(be, be')
      BY <1>t, <3>2, <3>5, <3>6, BalancedTwice
    <3>. QED  BY <3>4, <3>7 DEF RawJobTaken
  <2>. QED  BY <2>1, <2>2
<1>. QED  BY <1>1, <1>2, <1>3, <1>4, <1>5 DEF HandleRaw

\* A document keeps the count, and takes the job of a RAW client only if it awaited
\* its turn.
LEMMA DocumentCounts ==
  ASSUME TypeOK, JobInv, SharingInv, IppDocument
  PROVE  /\ Balanced(be, be')
         /\ RawJobTaken' => RawJobTaken \/ (inDocument /\ pending)
<1>t. be \in Be /\ inDocument /\ UNCHANGED rawVars /\ Sender \in Senders
  BY SenderIs DEF TypeOK, BackendTypeOK, Be, IppDocument, JobInv
<1>1. RawJobTaken' => RawJobTaken \/ (inDocument /\ pending)
  BY <1>t DEF RawJobTaken, rawVars, SharingInv
<1>. DEFINE S == Sent(be, Sender)
<1>s. ASSUME ~Refuses(be)
      PROVE  S \in Be /\ Balanced(be, S) /\ S.state = "PRINTING"
  BY <1>s, <1>t, SentIs, SentBalanced DEF Refuses
<1>. HIDE DEF S
<1>2. CASE DocumentBlock
  BY <1>1, <1>2, <1>s DEF DocumentBlock, S
<1>3. CASE DocumentEnds
  <2>1. CASE \E flushed \in BOOLEAN : be' = Finished(be, flushed)
    BY <1>1, <1>t, <2>1, FinishedBalanced
  <2>2. CASE DocumentFails(be)
    <3>1. CASE processing
      <4>1. be.state = "PRINTING" /\ be' = Aborted(be)
        BY <1>t, <2>2, <3>1 DEF DocumentFails, SharingInv
      <4>. QED  BY <1>1, <1>t, <4>1, AbortedBalanced
    <3>2. CASE ~processing
      BY <1>1, <1>t, <2>2, <3>2, SameBalanced DEF DocumentFails
    <3>. QED  BY <3>1, <3>2
  <2>3. CASE ~Refuses(be) /\ DocumentFails(Aborted(S))
    <3>. DEFINE A == Aborted(S)
    <3>1. S \in Be /\ Balanced(be, S) /\ S.state = "PRINTING"
      BY <1>s, <2>3
    <3>2. A \in Be /\ Balanced(S, A) /\ A.state = "ERROR"
      BY <3>1, AbortedIs, AbortedBalanced
    <3>3. be' = IF processing THEN Aborted(A) ELSE A
      BY <2>3 DEF DocumentFails
    <3>. HIDE DEF A
    <3>4. be' \in Be /\ Balanced(A, be')
      BY <3>2, <3>3, AbortedIs, AbortedBalanced, SameBalanced
    <3>5. Balanced(be, A)
      BY <1>t, <3>1, <3>2, BalancedTwice
    <3>. QED  BY <1>1, <1>t, <3>2, <3>4, <3>5, BalancedTwice
  <2>. QED  BY <1>1, <1>3, <2>1, <2>2, <2>3 DEF DocumentEnds, DocumentResult, S
<1>. QED  BY <1>2, <1>3 DEF IppDocument

\* A request keeps the count, and takes the job of a RAW client only by Cancel-Job.
LEMMA RequestCounts ==
  ASSUME TypeOK, IppRefresh \/ IppAccept
  PROVE  /\ Balanced(be, be')
         /\ RawJobTaken' => RawJobTaken \/ (at = "accept" /\ jobState' = Canceled)
<1>t. be \in Be /\ UNCHANGED rawVars
  BY DEF TypeOK, BackendTypeOK, Be, IppRefresh, IppAccept
<1>1. CASE be'.state = be.state /\ be'.owed = be.owed
  BY <1>1, <1>t, SameBalanced DEF RawJobTaken, rawVars
<1>2. CASE IppRefresh
  BY <1>1, <1>2 DEF IppRefresh, RefreshJobState, RefreshTo
<1>3. CASE IppAccept
  <2>1. CASE \E awaits \in BOOLEAN : NewJob(awaits)
    BY <1>1, <1>t, <2>1, NewJobIs
  <2>2. CASE CancelJob
    <3>1. CASE be' = Aborted(be) /\ be.state = "PRINTING" /\ jobState' = Canceled
      BY <1>3, <1>t, <3>1, AbortedBalanced DEF IppAccept
    <3>. QED  BY <1>1, <2>2, <3>1 DEF CancelJob
  <2>3. CASE be' = be
    BY <1>1, <2>3
  <2>. QED  BY <1>3, <2>1, <2>2, <2>3
            DEF IppAccept, PrintJob, CreateJob, SendDocument, CloseJob, NoJobRequest
<1>. QED  BY <1>2, <1>3

LEMMA CountStep ==
  ASSUME TypeOK, JobInv, SharingInv, [Next]_vars
  PROVE  /\ \/ Balanced(be, be')
            \/ RawJobTaken /\ ~fd' /\ be'.owed = be.owed - 1
         /\ RawJobTaken' =>
              \/ RawJobTaken
              \/ at = "accept" /\ jobState' = Canceled
              \/ (inDocument /\ pending) \/ "send" \in be.senders
<1>t. be \in Be
  BY DEF TypeOK, BackendTypeOK, Be
<1>e. ASSUME be'.owed = be.owed, (be'.state = "PRINTING") <=> (be.state = "PRINTING"),
             UNCHANGED <<fd, closing, got>>
      PROVE  Balanced(be, be') /\ (RawJobTaken' => RawJobTaken)
  BY <1>e, <1>t, SameBalanced DEF RawJobTaken
<1>1. CASE PollDrain
  <2>1. be' = Drained(be) /\ UNCHANGED <<fd, closing, got>>
    BY <1>1 DEF PollDrain, rawVars
  <2>2. CASE Drained(be) = be
    BY <1>e, <2>1, <2>2
  <2>3. CASE be.state = "PRINTING" /\ be.drain /\ be'.state # "PRINTING" /\ be'.owed = be.owed - 1
    <3>1. be.owed \in Int
      BY <1>t DEF Be
    <3>2. RawJobTaken' => "send" \in be.senders
      BY <2>1, <2>3 DEF RawJobTaken, SharingInv
    <3>. QED  BY <2>3, <3>1, <3>2 DEF Balanced, Printing
  <2>. QED  BY <1>t, <2>1, <2>2, <2>3, DrainedIs
<1>2. CASE PollRaw
  BY <1>2, HandleRawCounts DEF PollRaw
<1>3. CASE PollSwitch
  BY <1>3, <1>e, <1>t, FollowedIs DEF PollSwitch, rawVars
<1>4. CASE IppRefresh \/ IppAccept
  BY <1>4, RequestCounts
<1>5. CASE IppDocument
  BY <1>5, DocumentCounts
<1>6. CASE UsbTask \/ DrainAge
  BY <1>6, <1>e, EventIs DEF UsbTask, DrainAge, rawVars, TypeOK
<1>7. CASE Network \/ Idle
  BY <1>7, <1>e DEF Network, RawClient, Connect, SendChunk, EndConnection, Idle, IdleTimeout
<1>8. CASE Guard
  BY <1>8, <1>t, SameBalanced DEF Guard, GuardExpires, RawJobTaken
<1>9. CASE UNCHANGED vars
  BY <1>9, <1>e DEF vars, rawVars
<1>. QED  BY <1>1, <1>2, <1>3, <1>4, <1>5, <1>6, <1>7, <1>8, <1>9 DEF Next, LoopStep

\* For every set of operations that clients use, each job is counted once at its end, but
\* for the RAW job that was taken from its client; and only a Cancel-Job or the document
\* of a Send-Document takes it.
THEOREM EachJobIsCounted == Spec => CountedOnce
<1>1. TypeOK /\ JobInv /\ SharingInv /\ [Next]_vars =>
        [/\ \/ be'.owed - be.owed = InProgress' - InProgress
            \/ RawJobTaken /\ ~fd' /\ be'.owed = be.owed - 1
         /\ RawJobTaken' =>
              \/ RawJobTaken
              \/ at = "accept" /\ jobState' = Canceled
              \/ (inDocument /\ pending) \/ "send" \in be.senders]_vars
  BY CountStep DEF Balanced, Printing, InProgress
<1>. QED  BY <1>1, SharingInvariant, PTL DEF Spec, CountedOnce
=============================================================================
