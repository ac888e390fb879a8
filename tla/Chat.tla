-------------------------------- MODULE Chat --------------------------------
(***************************************************************************)
(* The chat of one room (src/modules/chat): a Redis list that addMessage   *)
(* appends to, trims and keeps alive, and that is deleted with the room; a *)
(* reader, who is sent the messages by the gateway and asks for the list.  *)
(*                                                                         *)
(* A message is the number it was sent as.  addMessage takes the time and  *)
(* sends RPUSH without an await in between, on the one connection of the   *)
(* client, so that both are one step; and the connection answers commands  *)
(* in the order they were sent in, so that calls do not overtake.          *)
(***************************************************************************)
EXTENDS Naturals, SequencesExt, FiniteSets

CONSTANTS Calls,         \* slots for the calls of addMessage in flight
          MAX_MESSAGES,
          LastMessage,   \* bound: this many messages are sent
          Environments   \* sets of hazards

ASSUME CallsFinite == IsFiniteSet(Calls)
ASSUME MaxPositive == MAX_MESSAGES \in Nat \ {0}
ASSUME LastMessageNatural == LastMessage \in Nat
ASSUME EnvironmentsKnown ==
  Environments \subseteq SUBSET {"crash in addMessage", "crash in leave", "switch"}

VARIABLES hazards,  \* what may go wrong in this behaviour
          list,     \* the list under chat:<roomId>; an empty one is no key
          expires,  \* whether the key has a TTL
          room,     \* "open", "deleted" in Postgres, "gone" with its event
          sent,     \* the number of the last message
          call,
          reader    \* another player: where its client is, and what it was told

service == <<hazards, list, expires, room, sent, call>>
vars == <<service, reader>>

CallRecords ==
  [at : {"idle", "rpush", "ltrim", "expire", "emit"}, message : 0..LastMessage]

Idle == [at |-> "idle", message |-> 0]

\* The reader joins the channel, asks for the messages, and is shown them.
Readers ==
  [at    : {"away", "listening", "asking", "shown"},
   heard : Seq(1..LastMessage),  \* the events chat:message
   shown : Seq(1..LastMessage)]  \* the response of getMessages

Away == [at |-> "away", heard |-> <<>>, shown |-> <<>>]

TypeOK ==
  /\ hazards \in Environments
  /\ list \in Seq(1..LastMessage)
  /\ expires \in BOOLEAN
  /\ room \in {"open", "deleted", "gone"}
  /\ sent \in 0..LastMessage
  /\ call \in [Calls -> CallRecords]
  /\ reader \in Readers

Init ==
  /\ hazards \in Environments
  /\ list = <<>>
  /\ expires = FALSE
  /\ room = "open"
  /\ sent = 0
  /\ call = [c \in Calls |-> Idle]
  /\ reader = Away

InFlight == {c \in Calls : call[c].at # "idle"}

Advance(c, step) == call' = [call EXCEPT ![c].at = step]

\* The connection has no older command to answer first.
InTurn(c) ==
  \A e \in Calls : call[e].at = call[c].at => call[e].message >= call[c].message

-----------------------------------------------------------------------------
\* addMessage(userId, roomId, payload)

\* Bound: messages not yet sent keep their numbers.
NumbersLeft == sent + Cardinality({c \in Calls : call[c].at = "rpush"}) < LastMessage

InRoom(c) ==
  /\ call[c].at = "idle"
  /\ NumbersLeft
  /\ room = "open"
  /\ Advance(c, "rpush")
  /\ UNCHANGED <<hazards, list, expires, room, sent, reader>>

Push(c) ==
  /\ call[c].at = "rpush"
  /\ sent' = sent + 1
  /\ list' = Append(list, sent')
  /\ call' = [call EXCEPT ![c] = [at |-> "ltrim", message |-> sent']]
  /\ UNCHANGED <<hazards, expires, room, reader>>

\* A mistake: LTRIM key 0 MAX_MESSAGES-1.
TrimTail(messages) ==
  IF Len(messages) <= MAX_MESSAGES THEN messages ELSE SubSeq(messages, 1, MAX_MESSAGES)

\* A mistake: LTRIM key -(MAX_MESSAGES+1) -1.
TrimLate(messages) ==
  IF Len(messages) <= MAX_MESSAGES + 1 THEN messages
  ELSE SubSeq(messages, Len(messages) - MAX_MESSAGES, Len(messages))

\* LTRIM key -MAX_MESSAGES -1
Trimmed(messages) ==
  IF Len(messages) <= MAX_MESSAGES THEN messages
  ELSE SubSeq(messages, Len(messages) - MAX_MESSAGES + 1, Len(messages))

\* A mistake: EXPIRE is left out when there is a TTL.
TrimLively(c) ==
  /\ call[c].at = "ltrim" /\ InTurn(c)
  /\ list' = Trimmed(list)
  /\ Advance(c, IF expires THEN "emit" ELSE "expire")
  /\ UNCHANGED <<hazards, expires, room, sent, reader>>

Trim(c) ==
  /\ call[c].at = "ltrim" /\ InTurn(c)
  /\ list' = Trimmed(list)
  /\ Advance(c, "expire")
  /\ UNCHANGED <<hazards, expires, room, sent, reader>>

\* A mistake: the TTL is set only while the room is there.
ExpireIfOpen(c) ==
  /\ call[c].at = "expire" /\ InTurn(c)
  /\ expires' = IF room = "open" THEN list # <<>> ELSE expires
  /\ Advance(c, "emit")
  /\ UNCHANGED <<hazards, list, room, sent, reader>>

\* EXPIRE does nothing when there is no key.
Expire(c) ==
  /\ call[c].at = "expire" /\ InTurn(c)
  /\ expires' = (list # <<>>)
  /\ Advance(c, "emit")
  /\ UNCHANGED <<hazards, list, room, sent, reader>>

\* handleSend: the message goes to the sockets in the channel now.
Emit(c) ==
  /\ call[c].at = "emit" /\ InTurn(c)
  /\ call' = [call EXCEPT ![c] = Idle]
  /\ reader' = IF reader.at = "away" THEN reader
               ELSE [reader EXCEPT !.heard = Append(@, call[c].message)]
  /\ UNCHANGED <<hazards, list, expires, room, sent>>

-----------------------------------------------------------------------------
\* The reader

\* Socket.join, by handleCreate, handleJoin or handleRejoin
Listen ==
  /\ reader.at = "away" /\ room = "open"
  /\ reader' = [Away EXCEPT !.at = "listening"]
  /\ UNCHANGED service

\* getMessages(userId, roomId) has found the reader in the room.
Ask ==
  /\ reader.at = "listening" /\ room = "open"
  /\ reader' = [reader EXCEPT !.at = "asking"]
  /\ UNCHANGED service

\* A mistake: LRANGE key 0 -2, as if the end were excluded.
ButLast(messages) == SubSeq(messages, 1, Len(messages) - 1)

\* LRANGE key 0 -1
WholeRange(messages) == messages

Read ==
  /\ reader.at = "asking"
  /\ reader' = [reader EXCEPT !.at = "shown", !.shown = WholeRange(list)]
  /\ UNCHANGED service

\* The reader leaves the room or loses its connection.
StopListening ==
  /\ reader.at # "away"
  /\ reader' = Away
  /\ UNCHANGED service

-----------------------------------------------------------------------------
\* The room's row is deleted, then ROOM_DELETED is emitted: onRoomDeleted.

\* The last player leaves, so that the reader has left.
DeleteRoom ==
  /\ room = "open"
  /\ room' = "deleted"
  /\ reader' = Away
  /\ UNCHANGED <<hazards, list, expires, sent, call>>

\* The last player joins another room: leaveRoom deletes the row, and join emits
\* no event.
SwitchRoom ==
  /\ "switch" \in hazards
  /\ room = "open"
  /\ room' = "gone"
  /\ reader' = Away
  /\ UNCHANGED <<hazards, list, expires, sent, call>>

DeleteMessages ==
  /\ room = "deleted"
  /\ room' = "gone"
  /\ list' = <<>>
  /\ expires' = FALSE
  /\ UNCHANGED <<hazards, sent, call, reader>>

-----------------------------------------------------------------------------
\* The TTL runs out.
KeyExpires ==
  /\ expires
  /\ list' = <<>>
  /\ expires' = FALSE
  /\ UNCHANGED <<hazards, room, sent, call, reader>>

\* A command fails or the process dies: the call is over.
CrashInAddMessage(c) ==
  /\ "crash in addMessage" \in hazards
  /\ call[c].at # "idle"
  /\ call' = [call EXCEPT ![c] = Idle]
  /\ UNCHANGED <<hazards, list, expires, room, sent, reader>>

\* The process dies before the event is handled.
CrashInLeave ==
  /\ "crash in leave" \in hazards
  /\ room = "deleted"
  /\ room' = "gone"
  /\ UNCHANGED <<hazards, list, expires, sent, call, reader>>

\* Bound: no message is left to be sent, or the room is gone.
NothingLeft ==
  /\ InFlight = {} /\ (sent = LastMessage \/ room = "gone")
  /\ UNCHANGED vars

Continue(c) == Push(c) \/ Trim(c) \/ Expire(c) \/ Emit(c)

Next ==
  \/ \E c \in Calls : InRoom(c) \/ Continue(c) \/ CrashInAddMessage(c)
  \/ Listen \/ Ask \/ Read \/ StopListening
  \/ DeleteRoom \/ SwitchRoom \/ DeleteMessages \/ CrashInLeave
  \/ KeyExpires
  \/ NothingLeft

Spec == Init /\ [][Next]_vars

\* Redis answers every command, the emitter calls its listeners (unless the
\* process dies first), and time passes.
FairSpec ==
  /\ Spec
  /\ \A c \in Calls : WF_vars(Continue(c))
  /\ WF_vars(DeleteMessages \/ CrashInLeave)
  /\ WF_vars(KeyExpires)

-----------------------------------------------------------------------------

\* The history is what was said last, in the order it was said and without a
\* gap, whatever calls overlap, fail or race the deletion (chat.service.ts:66):
\* trims that come late never cut a message out of the middle or the end.
LatestInOrder ==
  \A i \in DOMAIN list : list[i] = sent - Len(list) + i

\* Unless calls die half way, each overflowing message belongs to one that is
\* still to trim it.
Bounded ==
  "crash in addMessage" \notin hazards =>
    Len(list) <= MAX_MESSAGES + Cardinality({c \in Calls : call[c].at = "ltrim"})

\* Who listens, and then asks for the messages, knows all of them from some point
\* on, but for those whose calls are still to tell it: what it is shown and what
\* it hears join up, whatever is sent, trimmed or expires meanwhile
\* (chat.service.ts:66-68, chat.gateway.ts:40).
Known == ToSet(reader.shown) \cup ToSet(reader.heard)
Pending == {call[c].message : c \in InFlight}

NoGap ==
  "crash in addMessage" \notin hazards /\ reader.at = "shown" =>
    \A m \in Known : m..sent \subseteq Known \cup Pending

\* Listeners hear the messages in the order of the list, also when calls fail:
\* every call takes as many turns on the connection (chat.service.ts:50-58).
HeardInOrder ==
  \A i, j \in DOMAIN reader.heard : i < j => reader.heard[i] < reader.heard[j]

\* The chat of a deleted room is gone in the end, also when the server died
\* during leave, the last player went to another room, which tells nobody
\* (rooms.service.ts:81), or a late message brought it back, unless a call of
\* addMessage died half way and left a list without a TTL (chat.service.ts:12-14).
GoneInTheEnd ==
  "crash in addMessage" \notin hazards /\ room = "gone" ~> list = <<>>
=============================================================================
