----------------------------- MODULE RaiseTicket -----------------------------
(***************************************************************************)
(* How a ticket comes to be: the questions asked in the widget, the           *)
(* conversation that records them, POST /v1/tickets with its reference         *)
(* number, and the files attached afterwards.                                *)
(*                                                                           *)
(* One product is modelled; its row of the product table hands out the        *)
(* numbers.  Between the UPDATE of that row and the COMMIT no other raise      *)
(* gets a number, so what a raise writes after it is one step with the commit. *)
(***************************************************************************)
EXTENDS Naturals, FiniteSets

CONSTANTS
  Raises,      \* POST /v1/tickets requests, and so the tickets they make
  Raised,      \* those that had committed at the start
  Chats,       \* ids of widget conversations
  Files,       \* ids of uploads
  Users,       \* end users with an identity token
  Nobody,      \* a caller with the product's key alone; also null
  MinScore,    \* deflection.min_score
  Scores,      \* what a search may score
  MaxExtras,   \* bound on what goes on beside the raises: questions, uploads, reads
  MaxFaults,   \* bound on failures
  Horizon      \* bound on the clock

ASSUME RaiseAssumption ==
  /\ Raised \subseteq Raises
  /\ IsFiniteSet(Raised)
  /\ Nobody \notin Raises \cup Users \cup Chats
  /\ {MinScore, MaxExtras, MaxFaults, Horizon} \subseteq Nat
  /\ Scores \subseteq Nat

VARIABLES
  now,
  issued,   \* product.ticket_seq, counted from the first ticket
  raise,    \* the raising requests; a committed one is the ticket row
  chat,     \* widget_conversation
  file,     \* uploads: blob and attachment row
  extras, faults

raiseVars == <<now, issued, raise, chat, file, extras, faults>>

-----------------------------------------------------------------------------
Callers == Users \cup {Nobody}

Raise == [stage : {"idle", "begun", "numbered", "committed", "failed"}, by : Callers,
          chat : Chats \cup {Nobody}, at : 0..Horizon, number : Nat]

NoRaise == [stage |-> "idle", by |-> Nobody, chat |-> Nobody, at |-> 0, number |-> 0]

Chat == [exists : BOOLEAN, owner : Callers, outcome : {"abandoned", "self_served", "ticket_created"},
         ticket : Raises \cup {Nobody}]

NoChat == [exists |-> FALSE, owner |-> Nobody, outcome |-> "abandoned", ticket |-> Nobody]

File == [blob : BOOLEAN, row : BOOLEAN, ticket : Raises \cup {Nobody}, lost : BOOLEAN]

NoFile == [blob |-> FALSE, row |-> FALSE, ticket |-> Nobody, lost |-> FALSE]

Tickets == {r \in Raises : raise[r].stage = "committed"}

(* Tickets raised earlier, in any order of their numbers.                    *)
RaiseInit ==
  /\ now = 0
  /\ issued = Cardinality(Raised)
  /\ \E number \in [Raised -> 1..issued] :
       /\ \A r, s \in Raised : number[r] = number[s] => r = s
       /\ raise = [r \in Raises |->
            IF r \in Raised THEN [NoRaise EXCEPT !.stage = "committed", !.number = number[r]]
                            ELSE NoRaise]
  /\ chat = [c \in Chats |-> NoChat]
  /\ file = [f \in Files |-> NoFile]
  /\ extras = 0
  /\ faults = 0

Extra == extras < MaxExtras /\ extras' = extras + 1

-----------------------------------------------------------------------------
(* POST /v1/widget/ask.                                                      *)

(* conversation_isolation: an end user sees the conversations held under the  *)
(* same identity, the product's key all of them.                             *)
SeesChat(who, c) == chat[c].exists /\ (who = Nobody \/ chat[c].owner = who)

(* A weak answer, or none, suggests the ticket form.                         *)
Answered(score) == score >= MinScore /\ score > 0

(* A variant of Outcome that forgets the ticket.                             *)
OutcomeOfAnswer(old, answered) == IF answered THEN "self_served" ELSE old

Outcome(old, answered) ==
  IF old = "ticket_created" THEN old ELSE IF answered THEN "self_served" ELSE old

(* upsertConversation: another turn of a conversation the caller sees, or a    *)
(* new one.                                                                  *)
Ask(who) ==
  /\ Extra
  /\ \E c \in Chats, score \in Scores :
       \/ /\ SeesChat(who, c)
          /\ chat' = [chat EXCEPT ![c].outcome = Outcome(@, Answered(score))]
       \/ /\ ~chat[c].exists
          /\ chat' = [chat EXCEPT ![c] = [NoChat EXCEPT
                        !.exists = TRUE, !.owner = who,
                        !.outcome = IF Answered(score) THEN "self_served" ELSE "abandoned"]]
  /\ UNCHANGED <<now, issued, raise, file, faults>>

-----------------------------------------------------------------------------
(* POST /v1/tickets.                                                         *)

(* BEGIN fixes raised_at; the transcript of the conversation is read.         *)
BeginRaise(r) ==
  /\ raise[r].stage = "idle"
  /\ \E who \in Callers, c \in {d \in Chats : chat[d].exists} \cup {Nobody} :
       raise' = [raise EXCEPT ![r] = [NoRaise EXCEPT !.stage = "begun", !.by = who,
                                                     !.chat = c, !.at = now]]
  /\ UNCHANGED <<now, issued, chat, file, extras, faults>>

(* A variant of RowFree for a counter that is read without a lock.            *)
RowNeverLocked(r) == TRUE

RowFree(r) == \A s \in Raises \ {r} : raise[s].stage # "numbered"

(* nextReference, and the ticket row.                                        *)
NextReference(r) ==
  /\ raise[r].stage = "begun"
  /\ RowFree(r)
  /\ raise' = [raise EXCEPT ![r].stage = "numbered", ![r].number = issued + 1]
  /\ UNCHANGED <<now, issued, chat, file, extras, faults>>

(* markConversationEscalated, the audit row, the ticket.created event and     *)
(* COMMIT.  The conversation may be another caller's: then no row is updated. *)
CommitRaise(r) ==
  /\ raise[r].stage = "numbered"
  /\ raise' = [raise EXCEPT ![r].stage = "committed"]
  /\ issued' = raise[r].number
  /\ chat' = [c \in Chats |->
       IF c = raise[r].chat /\ SeesChat(raise[r].by, c)
       THEN [chat[c] EXCEPT !.outcome = "ticket_created", !.ticket = r] ELSE chat[c]]
  /\ UNCHANGED <<now, file, extras, faults>>

RaiseFails(r) ==
  /\ faults < MaxFaults
  /\ raise[r].stage \in {"begun", "numbered"}
  /\ raise' = [raise EXCEPT ![r] = [NoRaise EXCEPT !.stage = "failed"]]
  /\ faults' = faults + 1
  /\ UNCHANGED <<now, issued, chat, file, extras>>

-----------------------------------------------------------------------------
(* Attachments.                                                              *)

(* POST /v1/attachments: storage.put writes the blob ...                     *)
PutBlob(f) ==
  /\ file[f] = NoFile
  /\ Extra
  /\ file' = [file EXCEPT ![f].blob = TRUE]
  /\ UNCHANGED <<now, issued, raise, chat, faults>>

MayRecord(f) == file[f].blob /\ ~file[f].row /\ ~file[f].lost

(* ... and a transaction of its own the row and its audit.                   *)
RecordFile(f) ==
  /\ MayRecord(f)
  /\ file' = [file EXCEPT ![f].row = TRUE]
  /\ UNCHANGED <<now, issued, raise, chat, extras, faults>>

(* The request fails after the blob is written, which nothing removes.        *)
UploadFails(f) ==
  /\ faults < MaxFaults
  /\ file[f].blob /\ ~file[f].row /\ ~file[f].lost
  /\ file' = [file EXCEPT ![f].lost = TRUE]
  /\ faults' = faults + 1
  /\ UNCHANGED <<now, issued, raise, chat, extras>>

(* POST /v1/tickets/:id/attachments: only a file that has no ticket yet.      *)
LinkFile(f, r) ==
  /\ r \in Tickets
  /\ file[f].row
  /\ file[f].ticket = Nobody
  /\ file' = [file EXCEPT ![f].ticket = r]
  /\ UNCHANGED <<now, issued, raise, chat, extras, faults>>

Tick ==
  /\ now < Horizon
  /\ now' = now + 1
  /\ UNCHANGED <<issued, raise, chat, file, extras, faults>>

RaiseNext ==
  \/ \E who \in Callers : Ask(who)
  \/ \E r \in Raises : BeginRaise(r) \/ NextReference(r) \/ CommitRaise(r) \/ RaiseFails(r)
  \/ \E f \in Files : PutBlob(f) \/ RecordFile(f) \/ UploadFails(f) \/ \E r \in Raises : LinkFile(f, r)
  \/ Tick

-----------------------------------------------------------------------------
(* Properties.                                                               *)

(* Every variable holds a value of its type.                                 *)
RaiseTypeOK ==
  /\ now \in 0..Horizon
  /\ issued \in Nat
  /\ raise \in [Raises -> Raise]
  /\ chat \in [Chats -> Chat]
  /\ file \in [Files -> File]
  /\ extras \in 0..MaxExtras
  /\ faults \in 0..MaxFaults

(* The tickets of a product bear the numbers 1 to the last one issued, each    *)
(* once: raises that roll back, at whatever point, leave no gap and none is    *)
(* handed the number of another.                                             *)
NumbersGapless ==
  /\ \A r, s \in Tickets : raise[r].number = raise[s].number => r = s
  /\ {raise[r].number : r \in Tickets} = 1..issued

(* The Self-Served metric counts no conversation that became a ticket, however *)
(* questions and raises interleave, but for a raise under another identity     *)
(* than the conversation's; and a conversation said to have become a ticket    *)
(* names one that was raised from it.                                        *)
SelfServedCounts ==
  \A c \in Chats :
    /\ chat[c].outcome = "self_served" =>
         \A r \in Tickets : raise[r].chat = c => ~SeesChat(raise[r].by, c)
    /\ chat[c].outcome = "ticket_created" =>
         chat[c].ticket \in Tickets /\ raise[chat[c].ticket].chat = c
=============================================================================
