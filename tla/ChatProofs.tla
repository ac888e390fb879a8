------------------------------ MODULE ChatProofs ------------------------------
(***************************************************************************)
(* The list and what a reader is told, for every cap, every number of      *)
(* messages and of overlapping calls, and in every environment; and the    *)
(* length of the list, as long as no call dies half way.                   *)
(***************************************************************************)
EXTENDS Chat, FiniteSetTheorems, TLAPS

Messages == Nat \ {0}

\* The types of Chat without their bounds.
WeakTypes ==
  /\ list \in Seq(Messages)
  /\ sent \in Nat
  /\ call \in [Calls -> [at : {"idle", "rpush", "ltrim", "expire", "emit"}, message : Nat]]
  /\ reader \in [at : {"away", "listening", "asking", "shown"},
                 heard : Seq(Messages), shown : Seq(Messages)]

\* How far a message that is stored has got.
Rank == [ltrim |-> 1, expire |-> 2, emit |-> 3]

Stored(c) == call[c].at \in {"ltrim", "expire", "emit"}

\* Calls keep the order of their messages, so that the one that emits is the oldest.
InOrder ==
  \A c \in Calls :
    Stored(c) =>
      /\ call[c].message \in 1..sent
      /\ \A e \in Calls :
           Stored(e) /\ e # c =>
             /\ call[e].message # call[c].message
             /\ Rank[call[c].at] < Rank[call[e].at] => call[c].message > call[e].message

\* What the reader has heard is older than all that is still to be emitted.
HeardBefore ==
  \A i \in DOMAIN reader.heard :
    /\ reader.heard[i] <= sent
    /\ \A c \in Calls : Stored(c) => reader.heard[i] < call[c].message

CInv ==
  /\ WeakTypes
  /\ LatestInOrder
  /\ InOrder
  /\ HeardBefore
  /\ HeardInOrder

-----------------------------------------------------------------------------

LEMMA InitOK == Init => CInv
<1> SUFFICES ASSUME Init PROVE CInv
  OBVIOUS
<1>1. /\ list = <<>> /\ sent = 0 /\ reader = Away
      /\ \A c \in Calls : call[c] = Idle
  BY DEF Init
<1>2. WeakTypes
  BY <1>1 DEF Init, WeakTypes, Idle, Away
<1>3. LatestInOrder /\ HeardBefore /\ HeardInOrder
  BY <1>1 DEF LatestInOrder, HeardBefore, HeardInOrder, Away
<1>4. InOrder
  BY <1>1 DEF InOrder, Stored, Idle
<1> QED
  BY <1>2, <1>3, <1>4 DEF CInv

\* A list that ends with the last message and has no gap.
Latest(messages) == \A i \in DOMAIN messages : messages[i] = sent - Len(messages) + i

LEMMA TrimmedIsLatest ==
  ASSUME NEW messages \in Seq(Messages), sent \in Nat, Latest(messages)
  PROVE  Trimmed(messages) \in Seq(Messages) /\ Latest(Trimmed(messages))
<1>1. MAX_MESSAGES \in Nat /\ MAX_MESSAGES # 0 /\ Len(messages) \in Nat
  BY MaxPositive
<1>2. CASE Len(messages) <= MAX_MESSAGES
  BY <1>2 DEF Trimmed
<1>3. CASE Len(messages) > MAX_MESSAGES
  <2> DEFINE first == Len(messages) - MAX_MESSAGES + 1
             rest == SubSeq(messages, first, Len(messages))
  <2>1. Trimmed(messages) = rest
    BY <1>1, <1>3 DEF Trimmed
  <2>2. first \in 1..Len(messages) /\ Len(messages) \in 1..Len(messages)
    BY <1>1, <1>3
  <2>3. /\ rest \in Seq(Messages) /\ Len(rest) = MAX_MESSAGES
        /\ \A i \in 1..MAX_MESSAGES : rest[i] = messages[first + i - 1]
    BY <1>1, <2>2
  <2>4. \A i \in 1..MAX_MESSAGES : rest[i] = sent - MAX_MESSAGES + i
    BY <1>1, <2>2, <2>3 DEF Latest
  <2>5. DOMAIN rest = 1..MAX_MESSAGES
    BY <2>3
  <2>6. Latest(rest)
    <3> HIDE DEF rest
    <3> QED
      BY <2>3, <2>4, <2>5 DEF Latest
  <2> QED
    BY <2>1, <2>3, <2>6
<1> QED
  BY <1>1, <1>2, <1>3

\* A step that moves one call on by a turn, or drops it, and tells the reader
\* nothing keeps the order of the calls.
LEMMA TurnKeepsOrder ==
  ASSUME CInv, NEW c \in Calls, NEW k \in [at : {"idle", "rpush", "ltrim", "expire", "emit"}, message : Nat],
         call' = [call EXCEPT ![c] = k], sent' = sent,
         k.at \in {"idle", "rpush"}
           \/ (/\ k.message = call[c].message
               /\ InTurn(c)
               /\ \/ call[c].at = "ltrim" /\ k.at = "expire"
                  \/ call[c].at = "expire" /\ k.at = "emit")
  PROVE  /\ InOrder'
         /\ \A e \in Calls : (Stored(e))' => Stored(e) /\ call'[e].message = call[e].message
<1>1. call \in [Calls -> [at : {"idle", "rpush", "ltrim", "expire", "emit"}, message : Nat]]
      /\ sent \in Nat
  BY DEF CInv, WeakTypes
<1>2. \A e \in Calls : call'[e] = IF e = c THEN k ELSE call[e]
  BY <1>1
<1>3. \A e \in Calls : (Stored(e))' => Stored(e) /\ call'[e].message = call[e].message
  BY <1>1, <1>2 DEF Stored
<1>4. /\ Rank["ltrim"] = 1 /\ Rank["expire"] = 2 /\ Rank["emit"] = 3
  BY DEF Rank
<1>5. ASSUME NEW e \in Calls, NEW d \in Calls, (Stored(e))', (Stored(d))', d # e,
             Rank[call'[e].at] < Rank[call'[d].at]
      PROVE  call'[e].message > call'[d].message
  <2>1. /\ Stored(e) /\ call'[e].message = call[e].message
        /\ Stored(d) /\ call'[d].message = call[d].message
        /\ call[e].message \in Nat /\ call[d].message \in Nat
        /\ call[e].message # call[d].message
        /\ Rank[call[e].at] < Rank[call[d].at] => call[e].message > call[d].message
    BY <1>1, <1>3, <1>5 DEF CInv, InOrder
  <2>2. CASE e = c
    <3>1. call'[e].at \in {"expire", "emit"} /\ Rank[call[e].at] < Rank[call'[e].at] /\ call'[d] = call[d]
      BY <1>2, <1>4, <1>5, <2>2 DEF Stored
    <3> QED
      BY <1>4, <1>5, <2>1, <3>1 DEF Stored
  <2>3. CASE d = c
    <3>1. call'[e] = call[e] /\ InTurn(d)
          /\ \/ call[d].at = "ltrim" /\ call'[d].at = "expire"
             \/ call[d].at = "expire" /\ call'[d].at = "emit"
      BY <1>2, <1>5, <2>3 DEF Stored
    <3>2. call[e].at = call[d].at \/ Rank[call[e].at] < Rank[call[d].at]
      BY <1>4, <1>5, <2>1, <3>1 DEF Stored
    <3>3. call[e].at = call[d].at => call[e].message >= call[d].message
      BY <3>1 DEF InTurn
    <3> QED
      BY <2>1, <3>2, <3>3
  <2>4. CASE e # c /\ d # c
    BY <1>2, <1>5, <2>1, <2>4
  <2> QED
    BY <2>2, <2>3, <2>4
<1>6. InOrder'
  BY <1>3, <1>5 DEF CInv, InOrder
<1> QED
  BY <1>3, <1>6

-----------------------------------------------------------------------------
\* Storing a message

LEMMA PushOK ==
  ASSUME CInv, NEW c \in Calls, Push(c)
  PROVE  CInv'
<1> DEFINE new == sent + 1
<1>1. /\ sent \in Nat /\ new \in Messages /\ list \in Seq(Messages)
      /\ call \in [Calls -> [at : {"idle", "rpush", "ltrim", "expire", "emit"}, message : Nat]]
      /\ reader.heard \in Seq(Messages)
  BY DEF CInv, WeakTypes, Messages
<1>2. /\ sent' = new /\ list' = Append(list, new) /\ reader' = reader
      /\ call' = [call EXCEPT ![c] = [at |-> "ltrim", message |-> new]]
  BY DEF Push
<1>3. \A e \in Calls : call'[e] = IF e = c THEN [at |-> "ltrim", message |-> new] ELSE call[e]
  BY <1>1, <1>2
<1>4. WeakTypes'
  BY <1>1, <1>2 DEF CInv, WeakTypes
<1>5. LatestInOrder'
  BY <1>1, <1>2 DEF CInv, LatestInOrder
<1>6. \A e \in Calls : e # c /\ (Stored(e))' => Stored(e) /\ call'[e] = call[e] /\ call[e].message \in 1..sent
  BY <1>3 DEF Stored, CInv, InOrder
<1>7. InOrder'
  <2>1. Rank["ltrim"] = 1 /\ \A at \in {"ltrim", "expire", "emit"} : Rank[at] \in Nat /\ Rank[at] >= 1
    BY DEF Rank
  <2>2. ASSUME NEW d \in Calls, (Stored(d))' PROVE call'[d].message \in 1..sent'
    BY <1>1, <1>2, <1>3, <1>6, <2>2
  <2>3. ASSUME NEW d \in Calls, NEW e \in Calls, (Stored(d))', (Stored(e))', e # d
        PROVE  /\ call'[e].message # call'[d].message
               /\ Rank[call'[d].at] < Rank[call'[e].at] => call'[d].message > call'[e].message
    <3>1. CASE d = c
      BY <1>1, <1>3, <1>6, <2>3, <3>1
    <3>2. CASE e = c
      <4>1. call'[e].message # call'[d].message
        BY <1>1, <1>3, <1>6, <2>3, <3>2
      <4>2. ~(Rank[call'[d].at] < Rank[call'[e].at])
        BY <1>3, <2>1, <2>3, <3>2 DEF Stored
      <4> QED
        BY <4>1, <4>2
    <3>3. CASE d # c /\ e # c
      BY <1>6, <2>3, <3>3 DEF CInv, InOrder
    <3> QED
      BY <3>1, <3>2, <3>3
  <2> QED
    BY <2>2, <2>3 DEF InOrder
<1>8. HeardBefore' /\ HeardInOrder'
  <2>1. HeardInOrder'
    BY <1>2 DEF CInv, HeardInOrder
  <2>2. ASSUME NEW i \in DOMAIN reader.heard
        PROVE  /\ reader.heard[i] <= new
               /\ \A e \in Calls : (Stored(e))' => reader.heard[i] < call'[e].message
    <3>1. reader.heard[i] \in Nat /\ reader.heard[i] <= sent
      BY <1>1 DEF CInv, HeardBefore, Messages
    <3>2. reader.heard[i] < call'[c].message
      BY <1>1, <1>3, <3>1
    <3>3. \A e \in Calls : Stored(e) => reader.heard[i] < call[e].message
      BY DEF CInv, HeardBefore
    <3>4. \A e \in Calls : (Stored(e))' => reader.heard[i] < call'[e].message
      BY <1>6, <3>2, <3>3
    <3> QED
      BY <1>1, <3>1, <3>4
  <2> QED
    BY <1>2, <2>1, <2>2 DEF HeardBefore
<1> QED
  BY <1>4, <1>5, <1>7, <1>8 DEF CInv

\* A turn of a call that does not concern the reader.
LEMMA TurnOK ==
  ASSUME CInv, NEW c \in Calls, NEW k \in [at : {"idle", "rpush", "ltrim", "expire", "emit"}, message : Nat],
         call' = [call EXCEPT ![c] = k], sent' = sent, reader' = reader,
         list' = list \/ list' = Trimmed(list),
         k.at \in {"idle", "rpush"}
           \/ (/\ k.message = call[c].message
               /\ InTurn(c)
               /\ \/ call[c].at = "ltrim" /\ k.at = "expire"
                  \/ call[c].at = "expire" /\ k.at = "emit")
  PROVE  CInv'
<1>1. list \in Seq(Messages) /\ sent \in Nat /\ Latest(list)
  BY DEF CInv, WeakTypes, LatestInOrder, Latest
<1>2. list' \in Seq(Messages) /\ Latest(list')
  BY <1>1, TrimmedIsLatest
<1>3. WeakTypes'
  BY <1>2 DEF CInv, WeakTypes
<1>4. LatestInOrder'
  BY <1>2 DEF LatestInOrder, Latest
<1>5. /\ InOrder'
      /\ \A e \in Calls : (Stored(e))' => Stored(e) /\ call'[e].message = call[e].message
  BY TurnKeepsOrder
<1>6. HeardBefore' /\ HeardInOrder'
  BY <1>5 DEF CInv, HeardBefore, HeardInOrder
<1> QED
  BY <1>3, <1>4, <1>5, <1>6 DEF CInv

\* The call that emits has the oldest message of all.
LEMMA EmitsOldest ==
  ASSUME CInv, NEW c \in Calls, call[c].at = "emit", InTurn(c)
  PROVE  /\ call[c].message \in Messages /\ call[c].message <= sent
         /\ \A e \in Calls : Stored(e) /\ e # c => call[e].message > call[c].message
<1>1. Stored(c) /\ call[c].message \in 1..sent /\ sent \in Nat
  BY DEF CInv, InOrder, Stored, WeakTypes
<1>2. ASSUME NEW e \in Calls, Stored(e), e # c PROVE call[e].message > call[c].message
  <2>1. /\ call[e].message \in 1..sent /\ call[e].message # call[c].message
        /\ Rank[call[e].at] < Rank[call[c].at] => call[e].message > call[c].message
    BY <1>1, <1>2 DEF CInv, InOrder
  <2>2. call[e].at = "emit" \/ Rank[call[e].at] < Rank[call[c].at]
    BY <1>2 DEF Stored, Rank
  <2>3. call[e].at = "emit" => call[e].message >= call[c].message
    BY DEF InTurn
  <2> QED
    BY <1>1, <2>1, <2>2, <2>3
<1> QED
  BY <1>1, <1>2 DEF Messages

LEMMA EmitOK ==
  ASSUME CInv, NEW c \in Calls, Emit(c)
  PROVE  CInv'
<1> DEFINE m == call[c].message
<1>1. /\ m \in Messages /\ m <= sent
      /\ \A e \in Calls : Stored(e) /\ e # c => call[e].message > m
  BY EmitsOldest DEF Emit
<1>2. /\ sent \in Nat
      /\ reader \in [at : {"away", "listening", "asking", "shown"},
                     heard : Seq(Messages), shown : Seq(Messages)]
      /\ reader.heard \in Seq(Messages)
      /\ Stored(c)
  BY DEF CInv, WeakTypes, Emit, Stored
<1>3. /\ call' = [call EXCEPT ![c] = Idle] /\ sent' = sent /\ list' = list
      /\ \/ reader' = reader
         \/ reader' = [reader EXCEPT !.heard = Append(@, m)]
  BY DEF Emit
<1>4. /\ Idle \in [at : {"idle", "rpush", "ltrim", "expire", "emit"}, message : Nat]
      /\ Idle.at = "idle"
  BY DEF Idle
<1>5. /\ InOrder'
      /\ \A e \in Calls : (Stored(e))' => Stored(e) /\ call'[e].message = call[e].message
  BY <1>3, <1>4, TurnKeepsOrder
<1>6. \A e \in Calls : (Stored(e))' => e # c
  BY <1>3, <1>4 DEF CInv, WeakTypes, Stored
<1>7. WeakTypes'
  <2>1. Append(reader.heard, m) \in Seq(Messages)
    BY <1>1, <1>2
  <2>2. reader' \in [at : {"away", "listening", "asking", "shown"},
                    heard : Seq(Messages), shown : Seq(Messages)]
    BY <1>2, <1>3, <2>1
  <2>3. call' \in [Calls -> [at : {"idle", "rpush", "ltrim", "expire", "emit"}, message : Nat]]
    BY <1>3, <1>4 DEF CInv, WeakTypes
  <2> QED
    BY <1>3, <2>2, <2>3 DEF CInv, WeakTypes
<1>8. LatestInOrder'
  BY <1>3 DEF CInv, LatestInOrder
<1>9. HeardBefore' /\ HeardInOrder'
  <2>1. CASE reader' = reader
    BY <1>3, <1>5, <2>1 DEF CInv, HeardBefore, HeardInOrder
  <2>2. CASE reader' = [reader EXCEPT !.heard = Append(@, m)]
    <3>1. /\ Len(reader'.heard) = Len(reader.heard) + 1 /\ Len(reader.heard) \in Nat
          /\ DOMAIN reader'.heard = 1..Len(reader'.heard)
          /\ DOMAIN reader.heard = 1..Len(reader.heard)
          /\ reader'.heard[Len(reader'.heard)] = m
          /\ \A i \in DOMAIN reader.heard : reader'.heard[i] = reader.heard[i]
      BY <1>1, <1>2, <2>2
    <3>2. \A i \in DOMAIN reader.heard : reader.heard[i] \in Nat /\ reader.heard[i] < m
      BY <1>2 DEF CInv, HeardBefore, Messages
    <3>3. \A i \in DOMAIN reader'.heard : i \in DOMAIN reader.heard \/ i = Len(reader'.heard)
      BY <3>1
    <3>4. HeardInOrder'
      BY <3>1, <3>2, <3>3 DEF CInv, HeardInOrder
    <3>5. HeardBefore'
      BY <1>1, <1>3, <1>5, <1>6, <3>1, <3>3 DEF CInv, HeardBefore
    <3> QED
      BY <3>4, <3>5
  <2> QED
    BY <1>3, <2>1, <2>2
<1> QED
  BY <1>5, <1>7, <1>8, <1>9 DEF CInv
-----------------------------------------------------------------------------
\* The reader, the room and the key

\* Steps after which the reader has heard what it had, or nothing.
LEMMA ReaderOK ==
  ASSUME CInv, UNCHANGED <<list, sent, call>>,
         reader' \in [at : {"away", "listening", "asking", "shown"},
                      heard : Seq(Messages), shown : Seq(Messages)],
         reader'.heard = reader.heard \/ reader'.heard = <<>>
  PROVE  CInv'
<1>1. WeakTypes' /\ LatestInOrder' /\ InOrder'
  BY DEF CInv, WeakTypes, LatestInOrder, InOrder, Stored
<1>2. HeardBefore' /\ HeardInOrder'
  BY DEF CInv, HeardBefore, HeardInOrder, Stored
<1> QED
  BY <1>1, <1>2 DEF CInv

\* Steps that delete the list.
LEMMA DeletedOK ==
  ASSUME CInv, list' = <<>>, UNCHANGED <<sent, call, reader>>
  PROVE  CInv'
<1>1. WeakTypes' /\ LatestInOrder'
  BY DEF CInv, WeakTypes, LatestInOrder
<1>2. InOrder' /\ HeardBefore' /\ HeardInOrder'
  BY DEF CInv, InOrder, HeardBefore, HeardInOrder, Stored
<1> QED
  BY <1>1, <1>2 DEF CInv

LEMMA CallOK ==
  ASSUME CInv, NEW c \in Calls, InRoom(c) \/ Continue(c) \/ CrashInAddMessage(c)
  PROVE  CInv'
<1>1. call[c] \in [at : {"idle", "rpush", "ltrim", "expire", "emit"}, message : Nat]
  BY DEF CInv, WeakTypes
<1> DEFINE Moved(step) == [call[c] EXCEPT !.at = step]
<1>2. ASSUME NEW step \in {"rpush", "expire", "emit"}, Advance(c, step)
      PROVE  /\ call' = [call EXCEPT ![c] = Moved(step)]
             /\ Moved(step) \in [at : {"idle", "rpush", "ltrim", "expire", "emit"}, message : Nat]
             /\ Moved(step).at = step /\ Moved(step).message = call[c].message
  BY <1>1, <1>2 DEF Advance
<1> HIDE DEF Moved
<1>3. CASE InRoom(c)
  <2>1. Advance(c, "rpush") /\ UNCHANGED <<list, sent, reader>>
    BY <1>3 DEF InRoom
  <2> QED
    BY <1>2, <2>1, TurnOK
<1>4. CASE Push(c)
  BY <1>4, PushOK
<1>5. CASE Trim(c)
  <2>1. /\ Advance(c, "expire") /\ list' = Trimmed(list) /\ UNCHANGED <<sent, reader>>
        /\ call[c].at = "ltrim" /\ InTurn(c)
    BY <1>5 DEF Trim
  <2> QED
    BY <1>2, <2>1, TurnOK
<1>6. CASE Expire(c)
  <2>1. /\ Advance(c, "emit") /\ UNCHANGED <<list, sent, reader>>
        /\ call[c].at = "expire" /\ InTurn(c)
    BY <1>6 DEF Expire
  <2> QED
    BY <1>2, <2>1, TurnOK
<1>7. CASE Emit(c)
  BY <1>7, EmitOK
<1>8. CASE CrashInAddMessage(c)
  <2>1. /\ call' = [call EXCEPT ![c] = Idle] /\ UNCHANGED <<list, sent, reader>>
        /\ Idle \in [at : {"idle", "rpush", "ltrim", "expire", "emit"}, message : Nat]
        /\ Idle.at = "idle"
    BY <1>8 DEF CrashInAddMessage, Idle
  <2> QED
    BY <2>1, TurnOK
<1> QED
  BY <1>3, <1>4, <1>5, <1>6, <1>7, <1>8 DEF Continue

LEMMA NextOK == CInv /\ [Next]_vars => CInv'
<1> SUFFICES ASSUME CInv, [Next]_vars PROVE CInv'
  OBVIOUS
<1>1. /\ reader \in [at : {"away", "listening", "asking", "shown"},
                     heard : Seq(Messages), shown : Seq(Messages)]
      /\ list \in Seq(Messages)
      /\ Away \in [at : {"away", "listening", "asking", "shown"},
                   heard : Seq(Messages), shown : Seq(Messages)]
      /\ Away.heard = <<>>
  BY DEF CInv, WeakTypes, Away
<1>2. CASE \E c \in Calls : InRoom(c) \/ Continue(c) \/ CrashInAddMessage(c)
  BY <1>2, CallOK
<1>3. CASE Listen
  <2>1. /\ reader' = [Away EXCEPT !.at = "listening"] /\ UNCHANGED <<list, sent, call>>
    BY <1>3 DEF Listen, service
  <2>2. /\ reader'.heard = <<>>
        /\ reader' \in [at : {"away", "listening", "asking", "shown"},
                        heard : Seq(Messages), shown : Seq(Messages)]
    BY <1>1, <2>1 DEF Away
  <2> QED
    BY <2>1, <2>2, ReaderOK
<1>4. CASE Ask
  <2>1. reader' = [reader EXCEPT !.at = "asking"] /\ UNCHANGED <<list, sent, call>>
    BY <1>4 DEF Ask, service
  <2> QED
    BY <1>1, <2>1, ReaderOK
<1>5. CASE Read
  <2>1. reader' = [reader EXCEPT !.at = "shown", !.shown = list] /\ UNCHANGED <<list, sent, call>>
    BY <1>5 DEF Read, WholeRange, service
  <2> QED
    BY <1>1, <2>1, ReaderOK
<1>6. CASE StopListening \/ DeleteRoom \/ SwitchRoom
  <2>1. reader' = Away /\ UNCHANGED <<list, sent, call>>
    BY <1>6 DEF StopListening, DeleteRoom, SwitchRoom, service
  <2> QED
    BY <1>1, <2>1, ReaderOK
<1>7. CASE DeleteMessages \/ KeyExpires
  <2>1. list' = <<>> /\ UNCHANGED <<sent, call, reader>>
    BY <1>7 DEF DeleteMessages, KeyExpires
  <2> QED
    BY <2>1, DeletedOK
<1>8. CASE CrashInLeave \/ UNCHANGED vars
  <2>1. UNCHANGED <<list, sent, call, reader>>
    BY <1>8 DEF CrashInLeave, vars, service
  <2> QED
    BY <1>1, <2>1, ReaderOK
<1> QED
  BY <1>2, <1>3, <1>4, <1>5, <1>6, <1>7, <1>8 DEF Next, NothingLeft

\* The invariant holds of every behaviour.
THEOREM ChatInvariant == Spec => []CInv
  BY InitOK, NextOK, PTL DEF Spec

\* The list of a room ends with the last message and has no gap, however many
\* calls of addMessage overlap, fail or race the deletion, and whatever the cap
\* (chat.service.ts:66).
THEOREM HistoryInOrder == Spec => []LatestInOrder
<1>1. CInv => LatestInOrder
  BY DEF CInv
<1> QED
  BY <1>1, ChatInvariant, PTL

\* A listener hears messages in the order of the list, however many calls overlap
\* and wherever they fail (chat.service.ts:50-58, chat.gateway.ts:40).
THEOREM AlwaysHeardInOrder == Spec => []HeardInOrder
<1>1. CInv => HeardInOrder
  BY DEF CInv
<1> QED
  BY <1>1, ChatInvariant, PTL

-----------------------------------------------------------------------------
\* No gap between what the reader is shown and what it hears

Untold == {call[c].message : c \in {e \in Calls : Stored(e)}}
Heard  == ToSet(reader.heard)
Shown  == ToSet(reader.shown)

\* From a message that is still to be told on, all are; from one that is known on,
\* all are known or still to be told.
Joined ==
  /\ reader.at = "away" => reader.heard = <<>>
  /\ \A c \in Calls : Stored(c) => \A n \in call[c].message..sent : n \in Untold
  /\ \A i \in DOMAIN reader.heard :
       \A n \in reader.heard[i]..sent : n \in Heard \/ n \in Untold
  /\ reader.at = "shown" =>
       \A i \in DOMAIN reader.shown :
         \A n \in reader.shown[i]..sent : n \in Shown \/ n \in Heard \/ n \in Untold

GInv == CInv /\ ("crash in addMessage" \notin hazards => Joined)

LEMMA GInitOK == Init => GInv
<1> SUFFICES ASSUME Init PROVE Joined
  BY InitOK DEF GInv
<1>1. /\ reader = Away /\ \A c \in Calls : call[c] = Idle
  BY DEF Init
<1> QED
  BY <1>1 DEF Joined, Stored, Idle, Away

LEMMA PushJoins ==
  ASSUME CInv, Joined, NEW c \in Calls, Push(c)
  PROVE  Joined'
<1> DEFINE new == sent + 1
<1>1. /\ sent \in Nat /\ reader' = reader /\ sent' = new
      /\ \A e \in Calls : call'[e] = IF e = c THEN [at |-> "ltrim", message |-> new] ELSE call[e]
      /\ call[c].at = "rpush"
  BY DEF CInv, WeakTypes, Push
<1>2. Untold \subseteq Untold'
  BY <1>1 DEF Untold, Stored
<1>3. new \in Untold'
  BY <1>1 DEF Untold, Stored
<1>4. ASSUME NEW m \in Nat, NEW n \in m..new PROVE n \in m..sent \/ n = new
  BY <1>1
<1>5. \A e \in Calls : (Stored(e))' => call'[e].message \in Nat
                                   /\ (e = c \/ (Stored(e) /\ call'[e] = call[e]))
  BY <1>1 DEF CInv, WeakTypes, Stored
<1>6. ASSUME NEW e \in Calls, (Stored(e))', NEW n \in call'[e].message..new
      PROVE  n \in Untold'
  <2>1. CASE e = c
    BY <1>1, <1>3, <1>6, <2>1
  <2>2. CASE e # c
    BY <1>2, <1>3, <1>4, <1>5, <1>6, <2>2 DEF Joined
  <2> QED
    BY <2>1, <2>2
<1>7. /\ \A i \in DOMAIN reader.heard : reader.heard[i] \in Nat
      /\ \A i \in DOMAIN reader.shown : reader.shown[i] \in Nat
  BY DEF CInv, WeakTypes, Messages
<1>8. ASSUME NEW i \in DOMAIN reader.heard, NEW n \in reader.heard[i]..new
      PROVE  n \in Heard \/ n \in Untold'
  BY <1>2, <1>3, <1>4, <1>7 DEF Joined
<1>9. ASSUME reader.at = "shown", NEW i \in DOMAIN reader.shown, NEW n \in reader.shown[i]..new
      PROVE  n \in Shown \/ n \in Heard \/ n \in Untold'
  BY <1>2, <1>3, <1>4, <1>7, <1>9 DEF Joined
<1>10. Heard' = Heard /\ Shown' = Shown
  BY <1>1 DEF Heard, Shown, ToSet
<1>11. \A e \in Calls : (Stored(e))' => \A n \in call'[e].message..sent' : n \in Untold'
  BY <1>1, <1>6
<1>12. reader'.at = "away" => reader'.heard = <<>>
  BY <1>1 DEF Joined
<1>13. \A i \in DOMAIN reader'.heard :
         \A n \in reader'.heard[i]..sent' : n \in Heard' \/ n \in Untold'
  BY <1>1, <1>8, <1>10
<1>14. reader'.at = "shown" =>
         \A i \in DOMAIN reader'.shown :
           \A n \in reader'.shown[i]..sent' : n \in Shown' \/ n \in Heard' \/ n \in Untold'
  BY <1>1, <1>9, <1>10
<1> QED
  BY <1>11, <1>12, <1>13, <1>14 DEF Joined

LEMMA EmitJoins ==
  ASSUME CInv, Joined, NEW c \in Calls, Emit(c)
  PROVE  Joined'
<1> DEFINE m == call[c].message
<1>1. /\ m \in Messages /\ m <= sent
      /\ \A e \in Calls : Stored(e) /\ e # c => call[e].message > m
  BY EmitsOldest DEF Emit
<1>2. /\ sent \in Nat /\ sent' = sent /\ Stored(c)
      /\ reader \in [at : {"away", "listening", "asking", "shown"},
                     heard : Seq(Messages), shown : Seq(Messages)]
      /\ \A e \in Calls : call'[e] = IF e = c THEN Idle ELSE call[e]
      /\ reader' = IF reader.at = "away" THEN reader
                   ELSE [reader EXCEPT !.heard = Append(@, m)]
  BY DEF CInv, WeakTypes, Emit, Stored
<1>3. Untold \subseteq Untold' \cup {m}
  BY <1>2 DEF Untold, Stored
<1>4. \A e \in Calls : (Stored(e))' => Stored(e) /\ e # c /\ call'[e] = call[e]
  BY <1>2 DEF Stored, Idle
<1>5. ASSUME NEW e \in Calls, (Stored(e))', NEW n \in call'[e].message..sent
      PROVE  n \in Untold'
  <2>1. n \in Untold /\ n # m
    BY <1>1, <1>2, <1>4, <1>5 DEF Joined, CInv, WeakTypes, Messages
  <2> QED
    BY <1>3, <2>1
<1>6. CASE reader.at = "away"
  <2>1. reader' = reader /\ reader.heard = <<>> /\ reader.at # "shown"
    BY <1>2, <1>6 DEF Joined
  <2> QED
    BY <1>2, <1>5, <2>1 DEF Joined
<1>7. CASE reader.at # "away"
  <2>1. /\ reader' = [reader EXCEPT !.heard = Append(@, m)]
        /\ reader'.at = reader.at /\ reader'.shown = reader.shown
        /\ reader'.heard = Append(reader.heard, m)
    BY <1>2, <1>7
  <2>2. /\ DOMAIN reader'.heard = 1..Len(reader'.heard)
        /\ Len(reader'.heard) = Len(reader.heard) + 1 /\ Len(reader.heard) \in Nat
        /\ DOMAIN reader.heard = 1..Len(reader.heard)
        /\ reader'.heard[Len(reader.heard) + 1] = m
        /\ \A i \in DOMAIN reader.heard : reader'.heard[i] = reader.heard[i]
    BY <1>1, <1>2, <2>1
  <2>3. m \in Heard' /\ Heard \subseteq Heard'
    BY <2>2 DEF Heard, ToSet
  <2>4. Shown' = Shown
    BY <2>1 DEF Shown, ToSet
  <2>5. ASSUME NEW i \in DOMAIN reader'.heard, NEW n \in reader'.heard[i]..sent
        PROVE  n \in Heard' \/ n \in Untold'
    <3>1. CASE i \in DOMAIN reader.heard
      BY <1>3, <2>2, <2>3, <2>5, <3>1 DEF Joined
    <3>2. CASE i = Len(reader.heard) + 1
      <4>1. n \in Untold
        BY <1>2, <2>2, <2>5, <3>2 DEF Joined
      <4> QED
        BY <1>3, <2>3, <4>1
    <3> QED
      BY <2>2, <3>1, <3>2
  <2>6. reader'.at = "shown" =>
          \A i \in DOMAIN reader'.shown :
            \A n \in reader'.shown[i]..sent' : n \in Shown' \/ n \in Heard' \/ n \in Untold'
    BY <1>2, <1>3, <2>1, <2>3, <2>4 DEF Joined
  <2>7. reader'.at # "away"
    BY <1>7, <2>1
  <2> QED
    BY <1>2, <1>5, <2>5, <2>6, <2>7 DEF Joined
<1> QED
  BY <1>6, <1>7

\* Steps that store and emit nothing, and leave the reader as it is.
LEMMA StillJoined ==
  ASSUME Joined, UNCHANGED <<sent, reader>>,
         \A e \in Calls : /\ (Stored(e))' <=> Stored(e)
                          /\ Stored(e) => call'[e].message = call[e].message
  PROVE  Joined'
<1>1. Untold' = Untold /\ Heard' = Heard /\ Shown' = Shown
  BY DEF Untold, Heard, Shown, ToSet
<1> QED
  BY <1>1 DEF Joined

LEMMA TurnJoins ==
  ASSUME CInv, Joined, NEW c \in Calls, InRoom(c) \/ Trim(c) \/ Expire(c)
  PROVE  Joined'
<1>1. call \in [Calls -> [at : {"idle", "rpush", "ltrim", "expire", "emit"}, message : Nat]]
  BY DEF CInv, WeakTypes
<1>2. PICK step \in {"rpush", "expire", "emit"} :
        /\ call' = [call EXCEPT ![c].at = step] /\ UNCHANGED <<sent, reader>>
        /\ step = "rpush" => call[c].at = "idle"
        /\ step # "rpush" => call[c].at \in {"ltrim", "expire"}
  BY DEF InRoom, Trim, Expire, Advance
<1>3. \A e \in Calls : /\ (Stored(e))' <=> Stored(e)
                       /\ call'[e].message = call[e].message
  <2> TAKE e \in Calls
  <2>1. call'[e] = IF e = c THEN [call[c] EXCEPT !.at = step] ELSE call[e]
    BY <1>1, <1>2
  <2>2. call[c] \in [at : {"idle", "rpush", "ltrim", "expire", "emit"}, message : Nat]
    BY <1>1
  <2> QED
    BY <1>2, <2>1, <2>2 DEF Stored
<1> QED
  BY <1>2, <1>3, StillJoined

\* What is read at once joins up, as the list has no gap.
LEMMA ReaderJoins ==
  ASSUME CInv, Joined, UNCHANGED <<sent, call>>,
         \/ reader' = Away
         \/ reader' = [Away EXCEPT !.at = "listening"]
         \/ reader' = [reader EXCEPT !.at = "asking"] /\ reader.at # "away"
         \/ reader' = [reader EXCEPT !.at = "shown", !.shown = list] /\ reader.at # "away"
  PROVE  Joined'
<1>1. /\ reader \in [at : {"away", "listening", "asking", "shown"},
                     heard : Seq(Messages), shown : Seq(Messages)]
      /\ list \in Seq(Messages) /\ sent \in Nat
  BY DEF CInv, WeakTypes
<1>2. Untold' = Untold
  BY DEF Untold, Stored
<1>3. \A c \in Calls : (Stored(c))' => \A n \in call'[c].message..sent' : n \in Untold'
  BY <1>2 DEF Joined, Stored
<1>4. CASE reader' = Away \/ reader' = [Away EXCEPT !.at = "listening"]
  <2>1. reader'.heard = <<>> /\ reader'.at # "shown"
    BY <1>4 DEF Away
  <2> QED
    BY <1>3, <2>1 DEF Joined
<1>5. CASE reader' = [reader EXCEPT !.at = "asking"]
  <2>1. reader'.heard = reader.heard /\ reader'.at = "asking"
    BY <1>1, <1>5
  <2>2. Heard' = Heard
    BY <2>1 DEF Heard, ToSet
  <2> QED
    BY <1>2, <1>3, <2>1, <2>2 DEF Joined
<1>6. CASE reader' = [reader EXCEPT !.at = "shown", !.shown = list]
  <2>1. reader'.heard = reader.heard /\ reader'.at = "shown" /\ reader'.shown = list
    BY <1>1, <1>6
  <2>2. Heard' = Heard
    BY <2>1 DEF Heard, ToSet
  <2>3. ASSUME NEW i \in DOMAIN list, NEW n \in list[i]..sent PROVE \E j \in DOMAIN list : list[j] = n
    <3>1. /\ Len(list) \in Nat /\ DOMAIN list = 1..Len(list)
          /\ i \in 1..Len(list) /\ list[i] = sent - Len(list) + i
      BY <1>1 DEF CInv, LatestInOrder
    <3>2. n - sent + Len(list) \in DOMAIN list /\ n \in Int
      BY <1>1, <3>1
    <3>3. list[n - sent + Len(list)] = sent - Len(list) + (n - sent + Len(list))
      BY <3>2 DEF CInv, LatestInOrder
    <3>4. list[n - sent + Len(list)] = n
      BY <1>1, <3>1, <3>2, <3>3
    <3> QED
      BY <3>2, <3>4
  <2>4. \A i \in DOMAIN reader'.shown : \A n \in reader'.shown[i]..sent' : n \in Shown'
    BY <2>1, <2>3 DEF Shown, ToSet
  <2> QED
    BY <1>2, <1>3, <2>1, <2>2, <2>4 DEF Joined
<1> QED
  BY <1>4, <1>5, <1>6

LEMMA HazardsStay == [Next]_vars => hazards' = hazards
<1> SUFFICES ASSUME [Next]_vars PROVE hazards' = hazards
  OBVIOUS
<1>1. ASSUME NEW c \in Calls, InRoom(c) \/ Continue(c) \/ CrashInAddMessage(c)
      PROVE  hazards' = hazards
  BY <1>1 DEF InRoom, Continue, Push, Trim, Expire, Emit, CrashInAddMessage
<1>2. Listen \/ Ask \/ Read \/ StopListening \/ UNCHANGED vars => hazards' = hazards
  BY DEF Listen, Ask, Read, StopListening, vars, service
<1>3. DeleteRoom \/ SwitchRoom \/ DeleteMessages \/ CrashInLeave \/ KeyExpires
        => hazards' = hazards
  BY DEF DeleteRoom, SwitchRoom, DeleteMessages, CrashInLeave, KeyExpires
<1> QED
  BY <1>1, <1>2, <1>3 DEF Next, NothingLeft

LEMMA GNextOK == GInv /\ [Next]_vars => GInv'
<1> SUFFICES ASSUME GInv, [Next]_vars PROVE GInv'
  OBVIOUS
<1>1. hazards' = hazards
  BY HazardsStay
<1>2. CInv'
  BY NextOK DEF GInv
<1>3. ASSUME "crash in addMessage" \notin hazards PROVE Joined'
  <2>1. CInv /\ Joined
    BY <1>3 DEF GInv
  <2>2. ASSUME NEW c \in Calls, InRoom(c) \/ Continue(c) \/ CrashInAddMessage(c) PROVE Joined'
    <3>1. CASE Push(c)
      BY <2>1, <3>1, PushJoins
    <3>2. CASE Emit(c)
      BY <2>1, <3>2, EmitJoins
    <3>3. CASE InRoom(c) \/ Trim(c) \/ Expire(c)
      BY <2>1, <3>3, TurnJoins
    <3> QED
      BY <1>3, <2>2, <3>1, <3>2, <3>3 DEF Continue, CrashInAddMessage
  <2>3. CASE Listen \/ Ask \/ Read \/ StopListening \/ DeleteRoom \/ SwitchRoom
    <3>1. /\ UNCHANGED <<sent, call>>
          /\ \/ reader' = Away
             \/ reader' = [Away EXCEPT !.at = "listening"]
             \/ reader' = [reader EXCEPT !.at = "asking"] /\ reader.at # "away"
             \/ reader' = [reader EXCEPT !.at = "shown", !.shown = list] /\ reader.at # "away"
      BY <2>3 DEF Listen, Ask, Read, WholeRange, StopListening, DeleteRoom, SwitchRoom, service
    <3> QED
      BY <2>1, <3>1, ReaderJoins
  <2>4. CASE DeleteMessages \/ KeyExpires \/ CrashInLeave \/ UNCHANGED vars
    <3>1. UNCHANGED <<sent, call, reader>>
      BY <2>4 DEF DeleteMessages, KeyExpires, CrashInLeave, vars, service
    <3>2. \A e \in Calls : /\ (Stored(e))' <=> Stored(e)
                           /\ Stored(e) => call'[e].message = call[e].message
      BY <3>1 DEF Stored
    <3> QED
      BY <2>1, <3>1, <3>2, StillJoined
  <2> QED
    BY <2>2, <2>3, <2>4 DEF Next, NothingLeft
<1> QED
  BY <1>1, <1>2, <1>3 DEF GInv

LEMMA JoinedMeansNoGap == GInv => NoGap
<1> SUFFICES ASSUME GInv, "crash in addMessage" \notin hazards, reader.at = "shown",
                    NEW m \in Known, NEW n \in m..sent
             PROVE  n \in Known \cup Pending
  BY DEF NoGap
<1>1. \A k : (k \in Known <=> k \in Heard \/ k \in Shown) /\ (k \in Untold => k \in Pending)
  BY DEF Known, ToSet, Heard, Shown, Untold, Stored, Pending, InFlight
<1>2. CASE m \in Heard
  BY <1>1, <1>2 DEF GInv, Joined, Heard, ToSet
<1>3. CASE m \in Shown
  BY <1>1, <1>3 DEF GInv, Joined, Shown, ToSet
<1> QED
  BY <1>1, <1>2, <1>3

\* Whoever listens before it asks for the messages misses none, for every number of
\* messages and of calls, unless a call dies half way (chat.service.ts:66-68,
\* chat.gateway.ts:40).
THEOREM NothingMissed == Spec => []NoGap
<1>1. Spec => []GInv
  BY GInitOK, GNextOK, PTL DEF Spec
<1> QED
  BY <1>1, JoinedMeansNoGap, PTL

-----------------------------------------------------------------------------
\* The cap

Trimming(calls) == {c \in Calls : calls[c].at = "ltrim"}

CallsSurvive == "crash in addMessage" \notin hazards

LEMMA TrimmingCounted ==
  /\ IsFiniteSet(Trimming(call)) /\ Cardinality(Trimming(call)) \in Nat
  /\ IsFiniteSet(Trimming(call')) /\ Cardinality(Trimming(call')) \in Nat
<1>1. Trimming(call) \subseteq Calls /\ Trimming(call') \subseteq Calls
  BY DEF Trimming
<1>2. IsFiniteSet(Trimming(call)) /\ IsFiniteSet(Trimming(call'))
  BY <1>1, CallsFinite, FS_Subset
<1> QED
  BY <1>2, FS_CardinalityType

LEMMA TrimmedIsShort ==
  ASSUME NEW messages \in Seq(Messages)
  PROVE  Len(Trimmed(messages)) \in Nat /\ Len(Trimmed(messages)) <= MAX_MESSAGES
<1>1. MAX_MESSAGES \in Nat \ {0} /\ Len(messages) \in Nat
  BY MaxPositive
<1>2. CASE Len(messages) <= MAX_MESSAGES
  BY <1>1, <1>2 DEF Trimmed
<1>3. CASE Len(messages) > MAX_MESSAGES
  <2>1. Trimmed(messages) = SubSeq(messages, Len(messages) - MAX_MESSAGES + 1, Len(messages))
    BY <1>1, <1>3 DEF Trimmed
  <2>2. Len(messages) - MAX_MESSAGES + 1 \in 1..Len(messages)
    BY <1>1, <1>3
  <2> QED
    BY <1>1, <2>1, <2>2
<1> QED
  BY <1>1, <1>2, <1>3

\* Only a push makes the list longer, and only a trim brings a call past it.
LEMMA BoundedNext ==
  CInv /\ CallsSurvive /\ Bounded /\ [Next]_vars => Bounded'
<1> SUFFICES ASSUME CInv, CallsSurvive, Bounded, [Next]_vars PROVE Bounded'
  OBVIOUS
<1> DEFINE types == /\ list \in Seq(Messages)
                    /\ call \in [Calls -> [at : {"idle", "rpush", "ltrim", "expire", "emit"},
                                           message : Nat]]
<1>1. types
  BY DEF CInv, WeakTypes
<1>2. Len(list) \in Nat /\ MAX_MESSAGES \in Nat
  BY <1>1, MaxPositive
<1>3. Len(list) <= MAX_MESSAGES + Cardinality(Trimming(call))
  BY DEF CallsSurvive, Bounded, Trimming
<1>4. SUFFICES Len(list') <= MAX_MESSAGES + Cardinality(Trimming(call'))
  BY DEF Bounded, Trimming
<1>5. ASSUME NEW c \in Calls, Push(c) PROVE Len(list') <= MAX_MESSAGES + Cardinality(Trimming(call'))
  <2>1. /\ \A e \in Calls : call'[e].at = IF e = c THEN "ltrim" ELSE call[e].at
        /\ call[c].at = "rpush"
    BY <1>1, <1>5 DEF Push
  <2>2. Len(list') = Len(list) + 1
    BY <1>1, <1>5 DEF Push
  <2>3. Trimming(call') = Trimming(call) \cup {c} /\ c \notin Trimming(call)
    BY <2>1 DEF Trimming
  <2>4. Cardinality(Trimming(call')) = Cardinality(Trimming(call)) + 1
    BY TrimmingCounted, <2>3, FS_AddElement
  <2> QED
    BY TrimmingCounted, <1>2, <1>3, <2>2, <2>4
<1>6. ASSUME NEW c \in Calls, Trim(c) PROVE Len(list') <= MAX_MESSAGES + Cardinality(Trimming(call'))
  <2>1. list' = Trimmed(list)
    BY <1>6 DEF Trim
  <2>2. Len(list') \in Nat /\ Len(list') <= MAX_MESSAGES
    BY <1>1, <2>1, TrimmedIsShort
  <2> QED
    BY TrimmingCounted, <1>2, <2>2
<1>7. ASSUME NEW c \in Calls, InRoom(c) \/ Expire(c) \/ Emit(c)
      PROVE  Len(list') <= MAX_MESSAGES + Cardinality(Trimming(call'))
  <2>1. \A e \in Calls : e # c => call'[e] = call[e]
    BY <1>1, <1>7 DEF InRoom, Expire, Emit, Advance
  <2>2. call[c].at # "ltrim" /\ call'[c].at # "ltrim" /\ list' = list
    BY <1>1, <1>7 DEF InRoom, Expire, Emit, Advance, Idle
  <2>3. Trimming(call') = Trimming(call)
    BY <2>1, <2>2 DEF Trimming
  <2> QED
    BY <1>3, <2>2, <2>3
<1>8. CASE UNCHANGED call /\ (list' = list \/ list' = <<>>)
  <2>1. Trimming(call') = Trimming(call)
    BY <1>8 DEF Trimming
  <2>2. Len(list') \in Nat /\ Len(list') <= Len(list)
    BY <1>2, <1>8
  <2> QED
    BY TrimmingCounted, <1>2, <1>3, <2>1, <2>2
<1>9. /\ Listen \/ Ask \/ Read \/ StopListening \/ UNCHANGED vars => UNCHANGED <<call, list>>
      /\ DeleteRoom \/ SwitchRoom \/ CrashInLeave => UNCHANGED <<call, list>>
      /\ DeleteMessages \/ KeyExpires => UNCHANGED call /\ list' = <<>>
      /\ \A c \in Calls : ~CrashInAddMessage(c)
  BY DEF Listen, Ask, Read, StopListening, vars, service, DeleteRoom, SwitchRoom,
         CrashInLeave, DeleteMessages, KeyExpires, CrashInAddMessage, CallsSurvive
<1> QED
  BY <1>5, <1>6, <1>7, <1>8, <1>9 DEF Next, Continue, NothingLeft

\* The list of a room exceeds the cap by no more messages than there are calls that
\* are still to trim it, unless calls die half way (chat.service.ts:50-52).
THEOREM AlwaysBounded == Spec => []Bounded
<1>1. Init => Bounded
  <2> SUFFICES ASSUME Init PROVE Bounded
    OBVIOUS
  <2>1. Len(list) = 0 /\ MAX_MESSAGES \in Nat
    BY MaxPositive DEF Init
  <2>2. Len(list) <= MAX_MESSAGES + Cardinality(Trimming(call))
    BY <2>1, TrimmingCounted
  <2> QED
    BY <2>2 DEF Bounded, Trimming
<1>2. ~CallsSurvive /\ [Next]_vars => Bounded'
  BY HazardsStay DEF CallsSurvive, Bounded
<1> QED
  BY <1>1, <1>2, BoundedNext, ChatInvariant, PTL DEF Spec
=============================================================================
