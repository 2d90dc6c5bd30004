-------------------------- MODULE TicketReads_proofs --------------------------
(***************************************************************************)
(* RaiseTicket and TicketReads for any number of raises, conversations, files  *)
(* and failures: the numbers of the tickets, what the Self-Served metric       *)
(* counts, what an agent's view says of itself, and what a walk over the pages *)
(* of the list meets.                                                         *)
(***************************************************************************)
EXTENDS TicketReads, FiniteSetTheorems, TLAPS

-----------------------------------------------------------------------------
(* The row lock: one raise at a time holds a number that is not committed, and *)
(* it is the next one.                                                       *)
NumberHeld ==
  \A r \in Raises : raise[r].stage = "numbered" =>
    /\ raise[r].number = issued + 1
    /\ \A s \in Raises \ {r} : raise[s].stage # "numbered"

Numbers == NumberHeld /\ NumbersGapless

(* A raise names a conversation that exists, and one that is not said to have  *)
(* become a ticket is hidden from whoever raised one from it.                 *)
Unmarked(c) ==
  chat[c].outcome # "ticket_created" =>
    \A r \in Tickets : raise[r].chat = c => ~SeesChat(raise[r].by, c)

Marked(c) ==
  chat[c].outcome = "ticket_created" =>
    chat[c].ticket \in Tickets /\ raise[chat[c].ticket].chat = c

Conversations ==
  /\ \A r \in Raises : raise[r].chat \in Chats => chat[raise[r].chat].exists
  /\ \A c \in Chats : Unmarked(c) /\ Marked(c)

-----------------------------------------------------------------------------
(* As many different numbers as there are numbers are all of them.            *)
LEMMA AllIssued ==
  ASSUME NEW number \in [Raised -> 1..Cardinality(Raised)],
         \A r, s \in Raised : number[r] = number[s] => r = s
  PROVE  {number[r] : r \in Raised} = 1..Cardinality(Raised)
<1> DEFINE n == Cardinality(Raised)
<1>1. n \in Nat /\ IsFiniteSet(1..n) /\ Cardinality(1..n) = n
  <2>1. n \in Nat
    BY RaiseAssumption, FS_CardinalityType
  <2> HIDE DEF n
  <2>2. IsFiniteSet(1..n) /\ Cardinality(1..n) = IF 1 > n THEN 0 ELSE n - 1 + 1
    BY <2>1, FS_Interval
  <2> QED
    BY <2>1, <2>2
<1>2. number \in Injection(Raised, 1..n)
  BY DEF Injection, IsInjective
<1>3. number \in Surjection(Raised, 1..n)
  BY <1>1, <1>2, FS_Injection
<1> QED
  BY <1>3 DEF Surjection

LEMMA RaisesInit == RaiseInit => RaiseTypeOK /\ Numbers /\ Conversations
<1> SUFFICES ASSUME RaiseInit PROVE RaiseTypeOK /\ Numbers /\ Conversations
  OBVIOUS
<1>0. issued = Cardinality(Raised) /\ issued \in Nat
  BY RaiseAssumption, FS_CardinalityType DEF RaiseInit
<1>c. Raised \subseteq Raises /\ Nobody \notin Raises \cup Users \cup Chats
    /\ MaxExtras \in Nat /\ MaxFaults \in Nat /\ Horizon \in Nat
  BY RaiseAssumption
<1>1. NoRaise \in Raise
  BY <1>c DEF NoRaise, Raise, Callers
<1>2. PICK num \in [Raised -> 1..issued] :
        /\ \A r, s \in Raised : num[r] = num[s] => r = s
        /\ raise = [r \in Raises |->
             IF r \in Raised THEN [NoRaise EXCEPT !.stage = "committed", !.number = num[r]]
                             ELSE NoRaise]
  BY DEF RaiseInit
<1>3. ASSUME NEW r \in Raised
      PROVE  /\ raise[r] \in Raise
             /\ raise[r].stage = "committed"
             /\ raise[r].number = num[r]
             /\ raise[r].chat = Nobody
  <2>1. raise[r] = [NoRaise EXCEPT !.stage = "committed", !.number = num[r]]
    BY <1>c, <1>2
  <2>2. num[r] \in Nat
    BY <1>0
  <2>3. raise[r] \in Raise
    BY <1>1, <2>1, <2>2 DEF Raise
  <2> QED
    BY <2>1, <2>3 DEF NoRaise
<1>4. \A r \in Raises \ Raised : raise[r] = NoRaise
  BY <1>2
<1>5. raise \in [Raises -> Raise]
  <2>1. \A r \in Raises : raise[r] \in Raise
    BY <1>1, <1>3, <1>4
  <2> QED
    BY <1>2, <2>1
<1>6. RaiseTypeOK
  <2>1. NoChat \in Chat /\ NoFile \in File
    BY DEF NoChat, Chat, NoFile, File, Callers
  <2>2. /\ now = 0 /\ extras = 0 /\ faults = 0
        /\ chat = [c \in Chats |-> NoChat] /\ file = [f \in Files |-> NoFile]
    BY DEF RaiseInit
  <2>3. chat \in [Chats -> Chat] /\ file \in [Files -> File]
    BY <2>1, <2>2
  <2> QED
    BY <1>c, <1>0, <1>5, <2>2, <2>3 DEF RaiseTypeOK
<1>7. Tickets = Raised
  <2>1. \A r \in Raises \ Raised : raise[r].stage = "idle"
    BY <1>4 DEF NoRaise
  <2> QED
    BY <1>c, <1>3, <2>1 DEF Tickets
<1>8. NumbersGapless
  <2>1. {raise[r].number : r \in Tickets} = {num[r] : r \in Raised}
    BY <1>3, <1>7
  <2>2. {num[r] : r \in Raised} = 1..issued
    <3>1. num \in [Raised -> 1..Cardinality(Raised)]
      BY <1>0, <1>2
    <3>2. \A r, s \in Raised : num[r] = num[s] => r = s
      BY <1>2
    <3>3. {num[r] : r \in Raised} = 1..Cardinality(Raised)
      BY <3>1, <3>2, AllIssued
    <3> QED
      BY <1>0, <3>3
  <2>3. ASSUME NEW r \in Tickets, NEW s \in Tickets, raise[r].number = raise[s].number
        PROVE  r = s
    <3>1. r \in Raised /\ s \in Raised
      BY <1>7
    <3>2. num[r] = num[s]
      BY <1>3, <2>3, <3>1
    <3>3. \A t, u \in Raised : num[t] = num[u] => t = u
      BY <1>2
    <3> QED
      BY <3>1, <3>2, <3>3
  <2> QED
    BY <2>1, <2>2, <2>3 DEF NumbersGapless
<1>9. NumberHeld
  BY <1>3, <1>4 DEF NumberHeld, NoRaise
<1>10. Conversations
  <2>1. \A r \in Raises : raise[r].chat = Nobody
    BY <1>3, <1>4 DEF NoRaise
  <2>2. \A c \in Chats : chat[c].outcome = "abandoned"
    BY DEF RaiseInit, NoChat
  <2>3. \A r \in Raises : raise[r].chat \notin Chats
    BY <1>c, <2>1
  <2>4. \A c \in Chats : Unmarked(c) /\ Marked(c)
    BY <2>2, <2>3 DEF Unmarked, Marked, Tickets
  <2> QED
    BY <2>3, <2>4 DEF Conversations
<1> QED
  BY <1>6, <1>8, <1>9, <1>10 DEF Numbers
-----------------------------------------------------------------------------
(* Types.                                                                    *)

LEMMA RaisesTyped ==
  ASSUME RaiseTypeOK, RaiseNext
  PROVE  RaiseTypeOK'
<1> USE DEF RaiseTypeOK
<1>c. Nobody \notin Raises \cup Users \cup Chats /\ MaxExtras \in Nat /\ MaxFaults \in Nat
      /\ Horizon \in Nat
  BY RaiseAssumption
<1>x. Extra => extras' \in 0..MaxExtras
  BY <1>c DEF Extra
<1>f. faults < MaxFaults /\ faults' = faults + 1 => faults' \in 0..MaxFaults
  BY <1>c
<1>1. ASSUME NEW who \in Callers, Ask(who)
      PROVE  RaiseTypeOK'
  <2>1. \A c \in Chats, a \in BOOLEAN :
          [chat[c] EXCEPT !.outcome = Outcome(chat[c].outcome, a)] \in Chat
    BY DEF Chat, Outcome
  <2>2. \A a \in BOOLEAN :
          [NoChat EXCEPT !.exists = TRUE, !.owner = who,
                         !.outcome = IF a THEN "self_served" ELSE "abandoned"] \in Chat
    BY DEF NoChat, Chat
  <2>3. chat' \in [Chats -> Chat]
    BY <1>1, <2>1, <2>2 DEF Ask, Answered
  <2> QED
    BY <1>1, <1>x, <2>3 DEF Ask
<1>2. ASSUME NEW r \in Raises, BeginRaise(r)
      PROVE  RaiseTypeOK'
  <2>1. \A who \in Callers, c \in Chats \cup {Nobody} :
          [NoRaise EXCEPT !.stage = "begun", !.by = who, !.chat = c, !.at = now] \in Raise
    BY DEF NoRaise, Raise
  <2>2. PICK who \in Callers, c \in Chats \cup {Nobody} :
          raise' = [raise EXCEPT ![r] = [NoRaise EXCEPT !.stage = "begun", !.by = who,
                                                         !.chat = c, !.at = now]]
    BY <1>2 DEF BeginRaise
  <2>3. raise' \in [Raises -> Raise]
    BY <2>1, <2>2
  <2> QED
    BY <1>2, <2>3 DEF BeginRaise
<1>3. ASSUME NEW r \in Raises, NextReference(r)
      PROVE  RaiseTypeOK'
  <2>0. raise[r] \in Raise /\ issued + 1 \in Nat
    OBVIOUS
  <2>1. [raise[r] EXCEPT !.stage = "numbered", !.number = issued + 1] \in Raise
    BY <2>0 DEF Raise
  <2>2. raise' = [raise EXCEPT ![r] = [raise[r] EXCEPT !.stage = "numbered",
                                                       !.number = issued + 1]]
    BY <1>3 DEF NextReference
  <2>3. raise' \in [Raises -> Raise]
    BY <2>1, <2>2
  <2> QED
    BY <1>3, <2>3 DEF NextReference
<1>4. ASSUME NEW r \in Raises, CommitRaise(r)
      PROVE  RaiseTypeOK'
  <2>1. \A c \in Chats :
          [chat[c] EXCEPT !.outcome = "ticket_created", !.ticket = r] \in Chat
    BY DEF Chat
  <2>2. chat' \in [Chats -> Chat]
    BY <1>4, <2>1 DEF CommitRaise
  <2>3. raise' \in [Raises -> Raise] /\ issued' \in Nat
    BY <1>4 DEF CommitRaise, Raise
  <2> QED
    BY <1>4, <2>2, <2>3 DEF CommitRaise
<1>5. ASSUME NEW r \in Raises, RaiseFails(r)
      PROVE  RaiseTypeOK'
  <2>1. [NoRaise EXCEPT !.stage = "failed"] \in Raise
    BY <1>c DEF NoRaise, Raise, Callers
  <2> QED
    BY <1>5, <1>f, <2>1 DEF RaiseFails
<1>6. ASSUME NEW f \in Files, PutBlob(f)
      PROVE  RaiseTypeOK'
  BY <1>6, <1>x DEF PutBlob, File
<1>7. ASSUME NEW f \in Files, RecordFile(f)
      PROVE  RaiseTypeOK'
  BY <1>7 DEF RecordFile, File
<1>8. ASSUME NEW f \in Files, UploadFails(f)
      PROVE  RaiseTypeOK'
  BY <1>8, <1>f DEF UploadFails, File
<1>9. ASSUME NEW f \in Files, NEW r \in Raises, LinkFile(f, r)
      PROVE  RaiseTypeOK'
  BY <1>9 DEF LinkFile, File
<1>10. CASE Tick
  BY <1>c, <1>10 DEF Tick
<1> QED
  BY <1>1, <1>2, <1>3, <1>4, <1>5, <1>6, <1>7, <1>8, <1>9, <1>10 DEF RaiseNext

-----------------------------------------------------------------------------
(* Numbers.                                                                  *)

LEMMA NumbersKept ==
  ASSUME RaiseTypeOK, Numbers, issued' = issued,
         \A r \in Raises : raise'[r].stage \in {"numbered", "committed"} => raise'[r] = raise[r],
         \A r \in Raises : raise[r].stage = "committed" => raise'[r] = raise[r]
  PROVE  Numbers'
<1>1. Tickets' = Tickets /\ \A r \in Tickets : raise'[r] = raise[r]
  BY DEF Tickets
<1>2. NumbersGapless'
  BY <1>1 DEF Numbers, NumbersGapless
<1>3. NumberHeld'
  BY DEF Numbers, NumberHeld
<1> QED
  BY <1>2, <1>3 DEF Numbers

LEMMA NumbersStep ==
  ASSUME RaiseTypeOK, Numbers, RaiseNext
  PROVE  Numbers'
<1> USE DEF RaiseTypeOK
<1>1. CASE UNCHANGED <<issued, raise>>
  BY <1>1, NumbersKept
<1>2. ASSUME NEW r \in Raises, BeginRaise(r)
      PROVE  Numbers'
  <2>1. raise[r].stage = "idle" /\ issued' = issued
    BY <1>2 DEF BeginRaise
  <2>2. raise'[r].stage = "begun" /\ \A s \in Raises \ {r} : raise'[s] = raise[s]
    BY <1>2 DEF BeginRaise, NoRaise
  <2> QED
    BY <2>1, <2>2, NumbersKept
<1>3. ASSUME NEW r \in Raises, RaiseFails(r)
      PROVE  Numbers'
  <2>1. raise[r].stage # "committed" /\ issued' = issued
    BY <1>3 DEF RaiseFails
  <2>2. raise'[r].stage = "failed" /\ \A s \in Raises \ {r} : raise'[s] = raise[s]
    BY <1>3 DEF RaiseFails, NoRaise
  <2> QED
    BY <2>1, <2>2, NumbersKept
<1>4. ASSUME NEW r \in Raises, NextReference(r)
      PROVE  Numbers'
  <2>1. /\ raise[r].stage = "begun" /\ issued' = issued
        /\ \A s \in Raises \ {r} : raise[s].stage # "numbered"
    BY <1>4 DEF NextReference, RowFree
  <2>2. /\ raise'[r].stage = "numbered" /\ raise'[r].number = issued + 1
        /\ \A s \in Raises \ {r} : raise'[s] = raise[s]
    BY <1>4 DEF NextReference, Raise
  <2>3. Tickets' = Tickets /\ \A s \in Tickets : raise'[s] = raise[s]
    BY <2>1, <2>2 DEF Tickets
  <2>4. NumbersGapless'
    BY <2>1, <2>3 DEF Numbers, NumbersGapless
  <2>5. NumberHeld'
    BY <2>1, <2>2 DEF NumberHeld
  <2> QED
    BY <2>4, <2>5 DEF Numbers
<1>5. ASSUME NEW r \in Raises, CommitRaise(r)
      PROVE  Numbers'
  <2>1. /\ raise[r].stage = "numbered" /\ raise[r].number = issued + 1 /\ issued' = issued + 1
        /\ \A s \in Raises \ {r} : raise[s].stage # "numbered"
    BY <1>5 DEF CommitRaise, Numbers, NumberHeld
  <2>2. /\ raise'[r].stage = "committed" /\ raise'[r].number = issued + 1
        /\ \A s \in Raises \ {r} : raise'[s] = raise[s]
    BY <1>5, <2>1 DEF CommitRaise, Raise
  <2>3. Tickets' = Tickets \cup {r} /\ r \notin Tickets
    BY <2>1, <2>2 DEF Tickets
  <2>4. {raise'[s].number : s \in Tickets'} = {raise[s].number : s \in Tickets} \cup {issued + 1}
    BY <2>2, <2>3 DEF Tickets
  <2>5. \A s \in Tickets : raise[s].number \in 1..issued /\ raise'[s].number = raise[s].number
    BY <2>2, <2>3 DEF Numbers, NumbersGapless, Tickets
  <2>6. NumbersGapless'
    <3>1. \A s, t \in Tickets' : raise'[s].number = raise'[t].number => s = t
      BY <2>2, <2>3, <2>5 DEF Numbers, NumbersGapless
    <3>2. {raise'[s].number : s \in Tickets'} = 1..issued'
      <4>1. {raise[s].number : s \in Tickets} = 1..issued
        BY DEF Numbers, NumbersGapless
      <4>2. (1..issued) \cup {issued + 1} = 1..(issued + 1)
        OBVIOUS
      <4> QED
        BY <2>1, <2>4, <4>1, <4>2
    <3> QED
      BY <3>1, <3>2 DEF NumbersGapless
  <2>7. NumberHeld'
    BY <2>1, <2>2 DEF NumberHeld
  <2> QED
    BY <2>6, <2>7 DEF Numbers
<1> QED
  BY <1>1, <1>2, <1>3, <1>4, <1>5
  DEF RaiseNext, Ask, PutBlob, RecordFile, UploadFails, LinkFile, Tick

-----------------------------------------------------------------------------
(* Conversations.                                                            *)

(* Tickets, and what they name, are the same as before.                       *)
LEMMA SameTickets ==
  ASSUME Conversations, Tickets' = Tickets,
         \A r \in Tickets : raise'[r] = raise[r],
         \A r \in Raises : raise'[r].chat \in Chats => chat'[raise'[r].chat].exists,
         \A c \in Chats : /\ chat[c].exists => chat'[c].exists /\ chat'[c].owner = chat[c].owner
                          /\ chat'[c].outcome # "ticket_created" =>
                               chat[c].outcome # "ticket_created"
                          /\ chat'[c].outcome = "ticket_created" =>
                               /\ chat[c].outcome = "ticket_created"
                               /\ chat'[c].ticket = chat[c].ticket
  PROVE  Conversations'
<1>1. ASSUME NEW c \in Chats
      PROVE  Unmarked(c)'
  <2> SUFFICES ASSUME chat'[c].outcome # "ticket_created", NEW r \in Tickets, raise[r].chat = c
               PROVE  ~SeesChat(raise[r].by, c)'
    BY DEF Unmarked
  <2>1. ~SeesChat(raise[r].by, c) /\ chat[c].exists
    BY DEF Conversations, Unmarked, Tickets
  <2> QED
    BY <2>1 DEF SeesChat
<1>2. ASSUME NEW c \in Chats
      PROVE  Marked(c)'
  BY DEF Conversations, Marked
<1> QED
  BY <1>1, <1>2 DEF Conversations

LEMMA ConversationsStep ==
  ASSUME RaiseTypeOK, Conversations, RaiseNext
  PROVE  Conversations'
<1> USE DEF RaiseTypeOK
<1>c. Nobody \notin Raises \cup Users \cup Chats
  BY RaiseAssumption
<1>1. CASE UNCHANGED <<raise, chat>>
  BY <1>1 DEF Conversations, Unmarked, Marked, Tickets, SeesChat
<1>2. ASSUME NEW who \in Callers, Ask(who)
      PROVE  Conversations'
  <2>1. Tickets' = Tickets /\ raise' = raise
    BY <1>2 DEF Ask, Tickets
  <2>2. PICK c \in Chats, answered \in BOOLEAN :
          \/ chat' = [chat EXCEPT ![c].outcome = Outcome(@, answered)]
          \/ /\ ~chat[c].exists
             /\ chat' = [chat EXCEPT ![c] = [NoChat EXCEPT
                           !.exists = TRUE, !.owner = who,
                           !.outcome = IF answered THEN "self_served" ELSE "abandoned"]]
    BY <1>2 DEF Ask, Answered
  <2>3. \A d \in Chats \ {c} : chat'[d] = chat[d]
    BY <2>2
  <2>4. CASE chat' = [chat EXCEPT ![c].outcome = Outcome(@, answered)]
    <3>1. /\ chat'[c].exists = chat[c].exists /\ chat'[c].owner = chat[c].owner
          /\ chat'[c].ticket = chat[c].ticket
          /\ chat'[c].outcome = Outcome(chat[c].outcome, answered)
      BY <2>4 DEF Chat
    <3>2. chat'[c].outcome = "ticket_created" <=> chat[c].outcome = "ticket_created"
      BY <3>1 DEF Outcome
    <3> QED
      BY <2>1, <2>3, <3>1, <3>2, SameTickets DEF Conversations, Tickets
  <2>5. CASE /\ ~chat[c].exists
             /\ chat' = [chat EXCEPT ![c] = [NoChat EXCEPT
                           !.exists = TRUE, !.owner = who,
                           !.outcome = IF answered THEN "self_served" ELSE "abandoned"]]
    <3>1. chat'[c].exists /\ chat'[c].outcome # "ticket_created"
      BY <2>5 DEF NoChat
    <3>2. \A r \in Raises : raise[r].chat # c
      BY <2>5 DEF Conversations
    <3>3. \A d \in Chats : Unmarked(d)' /\ Marked(d)'
      BY <2>1, <2>3, <3>1, <3>2 DEF Conversations, Unmarked, Marked, Tickets, SeesChat
    <3> QED
      BY <2>1, <2>3, <3>1, <3>3 DEF Conversations
  <2> QED
    BY <2>2, <2>4, <2>5
<1>3. ASSUME NEW r \in Raises, BeginRaise(r)
      PROVE  Conversations'
  <2>1. chat' = chat /\ raise[r].stage = "idle"
    BY <1>3 DEF BeginRaise
  <2>2. /\ raise'[r].stage = "begun" /\ \A s \in Raises \ {r} : raise'[s] = raise[s]
        /\ raise'[r].chat \in Chats => chat[raise'[r].chat].exists
    BY <1>c, <1>3 DEF BeginRaise, NoRaise
  <2>3. Tickets' = Tickets /\ \A s \in Tickets : raise'[s] = raise[s]
    BY <2>1, <2>2 DEF Tickets
  <2> QED
    BY <2>1, <2>2, <2>3, SameTickets DEF Conversations
<1>4. ASSUME NEW r \in Raises, NextReference(r)
      PROVE  Conversations'
  <2>1. chat' = chat /\ raise[r].stage = "begun"
    BY <1>4 DEF NextReference
  <2>2. /\ raise'[r].stage = "numbered" /\ \A s \in Raises \ {r} : raise'[s] = raise[s]
        /\ raise'[r].chat = raise[r].chat
    BY <1>4 DEF NextReference, Raise
  <2>3. Tickets' = Tickets /\ \A s \in Tickets : raise'[s] = raise[s]
    BY <2>1, <2>2 DEF Tickets
  <2> QED
    BY <2>1, <2>2, <2>3, SameTickets DEF Conversations
<1>5. ASSUME NEW r \in Raises, RaiseFails(r)
      PROVE  Conversations'
  <2>1. chat' = chat /\ raise[r].stage # "committed"
    BY <1>5 DEF RaiseFails
  <2>2. /\ raise'[r].stage = "failed" /\ \A s \in Raises \ {r} : raise'[s] = raise[s]
        /\ raise'[r].chat \notin Chats
    BY <1>c, <1>5 DEF RaiseFails, NoRaise
  <2>3. Tickets' = Tickets /\ \A s \in Tickets : raise'[s] = raise[s]
    BY <2>1, <2>2 DEF Tickets
  <2> QED
    BY <2>1, <2>2, <2>3, SameTickets DEF Conversations
<1>6. ASSUME NEW r \in Raises, CommitRaise(r)
      PROVE  Conversations'
  <2>1. /\ raise'[r].stage = "committed" /\ \A s \in Raises \ {r} : raise'[s] = raise[s]
        /\ raise'[r].chat = raise[r].chat /\ raise'[r].by = raise[r].by
    BY <1>6 DEF CommitRaise, Raise
  <2>2. Tickets' = Tickets \cup {r}
    BY <2>1 DEF Tickets
  <2>3. ASSUME NEW c \in Chats
        PROVE  /\ chat'[c].exists = chat[c].exists /\ chat'[c].owner = chat[c].owner
               /\ IF c = raise[r].chat /\ SeesChat(raise[r].by, c)
                  THEN chat'[c].outcome = "ticket_created" /\ chat'[c].ticket = r
                  ELSE chat'[c] = chat[c]
    BY <1>6 DEF CommitRaise, Chat
  <2>4. ASSUME NEW c \in Chats
        PROVE  Unmarked(c)' /\ Marked(c)'
    <3>1. CASE c = raise[r].chat /\ SeesChat(raise[r].by, c)
      BY <2>1, <2>2, <2>3, <3>1 DEF Unmarked, Marked
    <3>2. CASE ~(c = raise[r].chat /\ SeesChat(raise[r].by, c))
      <4>1. chat'[c] = chat[c]
        BY <2>3, <3>2
      <4>2. Unmarked(c)'
        BY <2>1, <2>2, <3>2, <4>1 DEF Conversations, Unmarked, Tickets, SeesChat
      <4>3. Marked(c)'
        BY <2>1, <2>2, <4>1 DEF Conversations, Marked, Tickets
      <4> QED
        BY <4>2, <4>3
    <3> QED
      BY <3>1, <3>2
  <2>5. \A s \in Raises : raise'[s].chat \in Chats => chat'[raise'[s].chat].exists
    BY <2>1, <2>3 DEF Conversations
  <2> QED
    BY <2>4, <2>5 DEF Conversations
<1> QED
  BY <1>1, <1>2, <1>3, <1>4, <1>5, <1>6
  DEF RaiseNext, PutBlob, RecordFile, UploadFails, LinkFile, Tick

-----------------------------------------------------------------------------
(* The view of an agent.                                                     *)

(* What a view has read so far is what the grant still gives, unless the grant *)
(* changed since.                                                            *)
SoFar ==
  (Viewing /\ ~reader.touched) =>
    /\ reader.op \in {"files", "grants"} => reader.notes = HasActiveGrant(reader.since)
    /\ reader.op = "grants" => reader.files = HasActiveGrant(reader.since)

Walking ==
  /\ reader.op \in {"walk", "walked"}
  /\ reader = [op |-> reader.op, cursor |-> reader.cursor, got |-> reader.got,
               from |-> reader.from, ends |-> reader.ends]

ViewInv ==
  /\ grant \in Grant
  /\ reader = Idle \/ Walking \/ reader \in View
  /\ SoFar
  /\ FlagMatchesPayload

LEMMA ViewInit == Init => ViewInv
<1> SUFFICES ASSUME Init PROVE ViewInv
  OBVIOUS
<1>1. grant = [state |-> "none", expires |-> Never] /\ reader = Idle
  BY DEF Init
<1> QED
  BY <1>1 DEF ViewInv, Grant, Idle, SoFar, Viewing, FlagMatchesPayload

LEMMA ViewStep ==
  ASSUME RaiseTypeOK, ViewInv, [Next]_vars
  PROVE  ViewInv'
<1> USE DEF ViewInv, Viewing
<1>0. now \in 0..Horizon
  BY DEF RaiseTypeOK
<1>1. CASE UNCHANGED <<grant, reader>>
  BY <1>1 DEF Walking, SoFar, HasActiveGrant, FlagMatchesPayload
<1>2. CASE BeginWalk
  <2>1. grant' = grant /\ reader' = [op |-> "walk", cursor |-> Horizon + 1, got |-> {},
                                     from |-> Tickets, ends |-> {}]
    BY <1>2 DEF BeginWalk
  <2> QED
    BY <2>1 DEF Walking, SoFar, FlagMatchesPayload
<1>3. CASE ReadPage
  <2>1. reader.op = "walk" /\ Walking /\ grant' = grant
    BY <1>3 DEF ReadPage, Idle, View
  <2>2. PICK got, cursor, ends :
          \/ reader' = [reader EXCEPT !.op = "walked", !.got = got]
          \/ reader' = [reader EXCEPT !.got = got, !.cursor = cursor, !.ends = ends]
    BY <1>3 DEF ReadPage
  <2>3. Walking'
    BY <2>1, <2>2 DEF Walking
  <2> QED
    BY <2>1, <2>3 DEF Walking, SoFar, FlagMatchesPayload
<1>4. CASE BeginView
  <2>1. grant' = grant /\ reader' = [op |-> "comments", since |-> now, notes |-> FALSE,
                files |-> FALSE, flag |-> FALSE, touched |-> FALSE, lapsed |-> FALSE]
    BY <1>4 DEF BeginView
  <2> QED
    BY <1>0, <2>1 DEF View, SoFar, FlagMatchesPayload
<1>5. CASE ReadComments
  <2>1. reader.op = "comments" /\ reader \in View /\ grant' = grant
        /\ reader' = [reader EXCEPT !.op = "files", !.notes = HasActiveGrant(reader.since)]
    BY <1>5 DEF ReadComments, Idle, Walking
  <2>2. HasActiveGrant(reader.since) \in BOOLEAN
    BY DEF HasActiveGrant
  <2>3. reader' \in View
    BY <2>1, <2>2 DEF View
  <2>4. reader'.op = "files" /\ reader'.since = reader.since
        /\ reader'.notes = HasActiveGrant(reader.since)
    BY <2>1 DEF View
  <2> QED
    BY <2>1, <2>3, <2>4 DEF SoFar, HasActiveGrant, FlagMatchesPayload
<1>6. CASE ReadFiles
  <2>1. reader.op = "files" /\ reader \in View /\ grant' = grant
        /\ reader' = [reader EXCEPT !.op = "grants", !.files = HasActiveGrant(reader.since)]
    BY <1>6 DEF ReadFiles, Idle, Walking
  <2>2. HasActiveGrant(reader.since) \in BOOLEAN
    BY DEF HasActiveGrant
  <2>3. reader' \in View
    BY <2>1, <2>2 DEF View
  <2>4. reader'.op = "grants" /\ reader'.since = reader.since /\ reader'.notes = reader.notes
        /\ reader'.touched = reader.touched /\ reader'.files = HasActiveGrant(reader.since)
    BY <2>1 DEF View
  <2> QED
    BY <2>1, <2>3, <2>4 DEF SoFar, HasActiveGrant, FlagMatchesPayload
<1>7. CASE ReadGrants
  <2> DEFINE flag == grant.state = "granted"
             lapsed == grant.expires # Never /\ grant.expires <= reader.since
  <2>1. reader.op = "grants" /\ reader \in View /\ grant' = grant
        /\ reader' = [reader EXCEPT !.op = "shown", !.flag = flag, !.lapsed = lapsed]
    BY <1>7 DEF ReadGrants, Idle, Walking
  <2>2. flag \in BOOLEAN /\ lapsed \in BOOLEAN
    OBVIOUS
  <2>3. HasActiveGrant(reader.since) <=> flag /\ ~lapsed
    BY <2>1, ReadsAssumption DEF HasActiveGrant, Grant, View
  <2> HIDE DEF flag, lapsed
  <2>4. reader' \in View
    BY <2>1, <2>2 DEF View
  <2>5. reader'.op = "shown" /\ reader'.notes = reader.notes /\ reader'.files = reader.files
        /\ reader'.touched = reader.touched /\ reader'.flag = flag /\ reader'.lapsed = lapsed
    BY <2>1 DEF View
  <2>6. FlagMatchesPayload'
    BY <2>1, <2>2, <2>3, <2>5 DEF SoFar, FlagMatchesPayload
  <2> QED
    BY <2>1, <2>4, <2>5, <2>6 DEF SoFar
<1>8. CASE GrantIssued \/ GrantRevoked
  <2>1. grant' \in Grant
    <3>1. CASE GrantIssued
      <4>1. PICK until \in (now + 1)..Horizon \cup {Never} :
              grant' = [state |-> "granted", expires |-> until]
        BY <3>1 DEF GrantIssued
      <4>2. until \in 0..Horizon \cup {Never}
        BY <1>0
      <4> QED
        BY <4>1, <4>2 DEF Grant
    <3>2. CASE GrantRevoked
      BY <3>2 DEF GrantRevoked, Grant
    <3> QED
      BY <1>8, <3>1, <3>2
  <2>2. Touch
    BY <1>8 DEF GrantIssued, GrantRevoked
  <2>3. CASE Viewing
    <3>1. reader \in View /\ reader' = [reader EXCEPT !.touched = TRUE]
      BY <2>2, <2>3 DEF Touch, Idle, Walking
    <3>2. reader' \in View /\ reader'.touched
      BY <3>1 DEF View
    <3> QED
      BY <2>1, <3>2 DEF SoFar, FlagMatchesPayload
  <2>4. CASE ~Viewing
    <3>1. reader' = reader
      BY <2>2, <2>4 DEF Touch
    <3> QED
      BY <2>1, <2>4, <3>1 DEF Walking, SoFar, FlagMatchesPayload
  <2> QED
    BY <2>3, <2>4
<1> QED
  BY <1>1, <1>2, <1>3, <1>4, <1>5, <1>6, <1>7, <1>8 DEF Next, ReadStep, vars

-----------------------------------------------------------------------------
(* The pages of a walk.                                                       *)

(* A set of times has an earliest.                                            *)
LEMMA EarliestTime ==
  ASSUME NEW T, T \subseteq Nat, T # {}
  PROVE  \E x \in T : \A y \in T : x <= y
<1> DEFINE R == OpToRel(<, Nat)
<1>1. IsWellFoundedOn(R, Nat)
  BY NatLessThanWellFounded
<1>2. \A x, y \in Nat : <<x, y>> \in R <=> x < y
  BY DEF OpToRel
<1> HIDE DEF R
<1>3. \E x \in T : \A y \in T : ~ (<<y, x>> \in R)
  BY <1>1, WFMin
<1>4. PICK x \in T : \A y \in T : ~ (<<y, x>> \in R)
  BY <1>3
<1>5. ASSUME NEW y \in T
      PROVE  x <= y
  <2>1. x \in Nat /\ y \in Nat /\ ~(y < x)
    BY <1>2, <1>4
  <2> QED
    BY <2>1
<1> QED
  BY <1>4, <1>5

(* A cursor is a time cut to the millisecond: what is not before it, and not    *)
(* later than the time, is of the same millisecond.                           *)
LEMMA CursorCuts ==
  ASSUME NEW F \in Nat \ {0}, NEW a \in Nat, NEW b \in Nat, a <= b, (b \div F) * F <= a
  PROVE  a \div F = b \div F
OBVIOUS

LEMMA CursorTyped ==
  ASSUME NEW F \in Nat \ {0}, NEW b \in Nat
  PROVE  b \div F \in Nat /\ (b \div F) * F \in Nat
OBVIOUS

LEMMA TicketTimes ==
  ASSUME RaiseTypeOK
  PROVE  \A r \in Raises : raise[r].at \in Nat
BY RaiseAssumption DEF RaiseTypeOK, Raise

LEMMA OldestIsEarliest ==
  ASSUME RaiseTypeOK, NEW rows, rows \subseteq Tickets, rows # {}
  PROVE  /\ Oldest(rows) \in Nat
         /\ \A r \in rows : Oldest(rows) <= raise[r].at
         /\ \E r \in rows : Oldest(rows) = raise[r].at
<1> DEFINE T == {raise[r].at : r \in rows}
<1>1. T \subseteq Nat /\ T # {}
  BY TicketTimes DEF Tickets
<1>2. \E at \in T : \A y \in T : at <= y
  BY <1>1, EarliestTime
<1>3. \E at \in T : \A r \in rows : at <= raise[r].at
  BY <1>2
<1>4. Oldest(rows) \in T /\ \A r \in rows : Oldest(rows) <= raise[r].at
  BY <1>3 DEF Oldest
<1> QED
  BY <1>1, <1>4

(* The tickets there are can be counted: they have the numbers 1 to issued.     *)
LEMMA TicketsFinite ==
  ASSUME RaiseTypeOK, Numbers
  PROVE  IsFiniteSet(Tickets)
<1> DEFINE num == [r \in Tickets |-> raise[r].number]
<1>1. num \in [Tickets -> 1..issued] /\ \A r, s \in Tickets : num[r] = num[s] => r = s
  BY DEF Numbers, NumbersGapless
<1>2. num \in Injection(Tickets, 1..issued)
  BY <1>1 DEF Injection, IsInjective
<1>3. IsFiniteSet(1..issued)
  BY FS_Interval DEF RaiseTypeOK
<1> QED
  BY <1>2, <1>3, FS_Injection

(* A page that is all of what was read ahead is all that was left.             *)
LEMMA LastPage ==
  ASSUME NEW rows, IsFiniteSet(rows), NEW page \in SUBSET rows,
         Latest(rows, Limit + 1, page), Latest(page, Limit, page)
  PROVE  page = rows
<1>1. /\ Cardinality(rows) \in Nat /\ IsFiniteSet(page) /\ Cardinality(page) \in Nat
      /\ Cardinality(rows) = Cardinality(page) => rows = page
  BY FS_Subset, FS_CardinalityType
<1>2. /\ Cardinality(page) = IF Cardinality(rows) < Limit + 1 THEN Cardinality(rows) ELSE Limit + 1
      /\ Cardinality(page) = IF Cardinality(page) < Limit THEN Cardinality(page) ELSE Limit
  BY DEF Latest
<1> QED
  BY <1>1, <1>2, ReadsAssumption

(* A page that is not: no row left out is later than its last.                 *)
LEMMA FullPage ==
  ASSUME RaiseTypeOK, NEW rows, rows \subseteq Tickets, IsFiniteSet(rows),
         NEW ahead \in SUBSET rows, NEW page \in SUBSET rows, page \subseteq ahead, ahead # page,
         Latest(rows, Limit + 1, ahead), Latest(ahead, Limit, page)
  PROVE  /\ page # {}
         /\ \A r \in rows \ page : raise[r].at <= Oldest(page)
<1>1. IsFiniteSet(ahead) /\ Cardinality(ahead) \in Nat
  BY FS_Subset, FS_CardinalityType
<1>2. page # {}
  <2>1. CASE page = {}
    <3>1. Cardinality(page) = 0
      BY <2>1, FS_EmptySet
    <3>2. Cardinality(page) = IF Cardinality(ahead) < Limit THEN Cardinality(ahead) ELSE Limit
      BY DEF Latest
    <3>3. Cardinality(ahead) = 0
      BY <1>1, <3>1, <3>2, ReadsAssumption
    <3> QED
      BY <1>1, <2>1, <3>3, FS_EmptySet
  <2> QED
    BY <2>1
<1>3. ASSUME NEW r \in rows \ page, NEW s \in page
      PROVE  raise[s].at >= raise[r].at
  <2>1. CASE r \in ahead
    BY <2>1 DEF Latest
  <2>2. CASE r \notin ahead
    BY <2>2 DEF Latest
  <2> QED
    BY <2>1, <2>2
<1>4. PICK s \in page : Oldest(page) = raise[s].at
  BY <1>2, OldestIsEarliest
<1>5. \A r \in rows : raise[r].at \in Nat
  BY TicketTimes DEF Tickets
<1> QED
  BY <1>2, <1>3, <1>4, <1>5

(* What a walk holds; every ticket there was has been met, is still ahead, or   *)
(* is of a millisecond in which a page ended.                                 *)
OnWalk == reader.op \in {"walk", "walked"}

WalkTyped ==
  OnWalk => /\ reader.cursor \in Nat
            /\ reader.got \subseteq Raises
            /\ reader.from \subseteq Tickets
            /\ reader.ends \subseteq Nat

Met(r) ==
  \/ r \in reader.got
  \/ raise[r].at \div Fine \in reader.ends
  \/ reader.op = "walk" /\ raise[r].at < reader.cursor

WalkMeets == OnWalk => \A r \in reader.from : Met(r)

WalkInv == WalkTyped /\ WalkMeets

(* A ticket stays, and keeps its time.                                        *)
LEMMA TicketsStay ==
  ASSUME RaiseTypeOK, RaiseNext
  PROVE  \A r \in Tickets : r \in Tickets' /\ raise'[r] = raise[r]
BY DEF RaiseNext, Ask, BeginRaise, NextReference, CommitRaise, RaiseFails, PutBlob, RecordFile,
       UploadFails, LinkFile, Tick, RaiseTypeOK, Tickets

LEMMA WalkStays ==
  ASSUME WalkInv, UNCHANGED reader, \A r \in Tickets : r \in Tickets' /\ raise'[r] = raise[r]
  PROVE  WalkInv'
BY DEF WalkInv, WalkTyped, WalkMeets, OnWalk, Met

LEMMA PageStep ==
  ASSUME RaiseTypeOK, Numbers, ViewInv, WalkInv, ReadPage
  PROVE  WalkInv'
<1> USE ReadsAssumption
<1>1. reader.op = "walk" /\ Walking /\ UNCHANGED raise
  BY DEF ReadPage, ViewInv, Idle, View, raiseVars
<1>2. PICK ahead \in SUBSET Rows, page \in SUBSET Rows :
        /\ page \subseteq ahead
        /\ Latest(Rows, Limit + 1, ahead)
        /\ Latest(ahead, Limit, page)
        /\ reader' =
             IF ahead = page
             THEN [reader EXCEPT !.op = "walked", !.got = @ \cup page]
             ELSE [reader EXCEPT !.got = @ \cup page, !.cursor = CursorAfter(page, ahead),
                                 !.ends = @ \cup {Oldest(page) \div Fine}]
  BY DEF ReadPage
<1>3. Rows \subseteq Tickets /\ Tickets \subseteq Raises /\ Tickets' = Tickets
  BY <1>1 DEF Rows, Tickets
<1>4. IsFiniteSet(Rows)
  BY <1>3, TicketsFinite, FS_Subset
<1>5. /\ reader.cursor \in Nat /\ reader.got \subseteq Raises /\ reader.from \subseteq Tickets
      /\ reader.ends \subseteq Nat /\ \A r \in reader.from : Met(r)
  BY <1>1 DEF WalkInv, WalkTyped, WalkMeets, OnWalk
<1>6. CASE ahead = page
  <2>1. /\ reader'.op = "walked" /\ reader'.cursor = reader.cursor
        /\ reader'.got = reader.got \cup page /\ reader'.from = reader.from
        /\ reader'.ends = reader.ends
    BY <1>1, <1>2, <1>6 DEF Walking
  <2>2. page = Rows
    BY <1>2, <1>4, <1>6, LastPage
  <2>3. WalkTyped'
    BY <1>2, <1>3, <1>5, <2>1 DEF WalkTyped
  <2>4. \A r \in reader.from : Met(r)'
    BY <1>1, <1>5, <2>1, <2>2 DEF Met, Rows
  <2> QED
    BY <2>1, <2>3, <2>4 DEF WalkInv, WalkMeets
<1>7. CASE ahead # page
  <2> DEFINE last == Oldest(page)
  <2>1. /\ reader'.op = "walk" /\ reader'.cursor = (last \div Fine) * Fine
        /\ reader'.got = reader.got \cup page /\ reader'.from = reader.from
        /\ reader'.ends = reader.ends \cup {last \div Fine}
    BY <1>1, <1>2, <1>7 DEF Walking, CursorAfter
  <2>2. page # {} /\ \A r \in Rows \ page : raise[r].at <= last
    BY <1>2, <1>3, <1>4, <1>7, FullPage
  <2>3. last \in Nat
    BY <1>2, <1>3, <2>2, OldestIsEarliest
  <2> HIDE DEF last
  <2>4. last \div Fine \in Nat /\ (last \div Fine) * Fine \in Nat
    BY <2>3, CursorTyped
  <2>5. WalkTyped'
    BY <1>2, <1>3, <1>5, <2>1, <2>4 DEF WalkTyped
  <2>6. ASSUME NEW r \in reader.from
        PROVE  Met(r)'
    <3>1. Met(r) /\ raise[r].at \in Nat /\ r \in Tickets
      BY <1>3, <1>5, TicketTimes
    <3>2. CASE r \in Rows \ page
      <4>1. raise[r].at <= last
        BY <2>2, <3>2
      <4>2. CASE raise[r].at < (last \div Fine) * Fine
        BY <1>1, <2>1, <4>2 DEF Met
      <4>3. CASE (last \div Fine) * Fine <= raise[r].at
        <5>1. raise[r].at \div Fine = last \div Fine
          BY <2>3, <3>1, <4>1, <4>3, CursorCuts
        <5> QED
          BY <1>1, <2>1, <5>1 DEF Met
      <4> QED
        BY <2>4, <3>1, <4>2, <4>3
    <3>3. CASE r \notin Rows \ page
      BY <1>1, <2>1, <3>1, <3>3 DEF Met, Rows
    <3> QED
      BY <3>2, <3>3
  <2> QED
    BY <2>1, <2>5, <2>6 DEF WalkInv, WalkMeets
<1> QED
  BY <1>6, <1>7

LEMMA WalkStep ==
  ASSUME RaiseTypeOK, Numbers, ViewInv, WalkInv, [Next]_vars
  PROVE  WalkInv'
<1>1. CASE RaiseNext /\ UNCHANGED <<grant, reader>>
  BY <1>1, TicketsStay, WalkStays
<1>2. CASE UNCHANGED vars
  BY <1>2, WalkStays DEF vars, raiseVars, Tickets
<1>3. CASE BeginWalk
  <2>1. /\ reader' = [op |-> "walk", cursor |-> Horizon + 1, got |-> {}, from |-> Tickets,
                      ends |-> {}]
        /\ raise' = raise /\ Tickets' = Tickets
    BY <1>3 DEF BeginWalk, requestVars, Tickets
  <2>2. \A r \in Tickets : raise[r].at < Horizon + 1
    BY RaiseAssumption DEF RaiseTypeOK, Raise, Tickets
  <2> QED
    BY <2>1, <2>2, RaiseAssumption DEF WalkInv, WalkTyped, WalkMeets, Met
<1>4. CASE ReadPage
  BY <1>4, PageStep
<1>5. CASE BeginView \/ ReadComments \/ ReadFiles \/ ReadGrants \/ (Viewing /\ Touch)
  <2>1. CASE BeginView
    BY <2>1 DEF BeginView, WalkInv, WalkTyped, WalkMeets, OnWalk
  <2>2. CASE ReadComments \/ ReadFiles \/ ReadGrants \/ (Viewing /\ Touch)
    <3>1. reader.op \in {"comments", "files", "grants"}
      BY <2>2 DEF ReadComments, ReadFiles, ReadGrants, Viewing
    <3>2. reader \in View
      BY <3>1 DEF ViewInv, Walking, Idle
    <3>3. reader'.op \in {"files", "grants", "shown", reader.op}
      BY <2>2, <3>2 DEF ReadComments, ReadFiles, ReadGrants, Touch, View
    <3> QED
      BY <3>1, <3>3 DEF WalkInv, WalkTyped, WalkMeets, OnWalk
  <2> QED
    BY <1>5, <2>1, <2>2
<1>6. CASE (GrantIssued \/ GrantRevoked) /\ ~Viewing
  <2>1. UNCHANGED reader /\ UNCHANGED raise /\ Tickets' = Tickets
    BY <1>6 DEF GrantIssued, GrantRevoked, Touch, requestVars, Tickets
  <2> QED
    BY <2>1, WalkStays
<1> QED
  BY <1>1, <1>2, <1>3, <1>4, <1>5, <1>6 DEF Next, ReadStep, GrantIssued, GrantRevoked

-----------------------------------------------------------------------------
(* The whole system.                                                         *)

RaisesInv == RaiseTypeOK /\ Numbers /\ Conversations

LEMMA RaisesStep ==
  ASSUME RaisesInv, [Next]_vars
  PROVE  RaisesInv'
<1>1. CASE RaiseNext
  BY <1>1, RaisesTyped, NumbersStep, ConversationsStep DEF RaisesInv
<1>2. ASSUME UNCHANGED requestVars, Extra \/ UNCHANGED extras
      PROVE  RaisesInv'
  <2>1. extras' \in 0..MaxExtras
    BY <1>2, RaiseAssumption DEF RaisesInv, RaiseTypeOK, Extra
  <2>2. RaiseTypeOK'
    BY <1>2, <2>1 DEF RaisesInv, RaiseTypeOK, requestVars
  <2>3. Numbers' /\ Conversations'
    BY <1>2 DEF requestVars, RaisesInv, Numbers, NumberHeld, NumbersGapless, Tickets, Conversations,
                Unmarked, Marked, SeesChat
  <2> QED
    BY <2>2, <2>3 DEF RaisesInv
<1> QED
  BY <1>1, <1>2
  DEF Next, ReadStep, BeginWalk, ReadPage, BeginView, ReadComments, ReadFiles, ReadGrants,
      GrantIssued, GrantRevoked, vars, raiseVars, requestVars

LEMMA Always == Spec => [](RaisesInv /\ ViewInv /\ WalkInv)
<1>1. Init => RaisesInv /\ ViewInv
  BY RaisesInit, ViewInit DEF Init, RaisesInv
<1>2. Init => WalkInv
  BY DEF Init, Idle, WalkInv, WalkTyped, WalkMeets, OnWalk
<1>3. RaisesInv /\ ViewInv /\ WalkInv /\ [Next]_vars => (RaisesInv /\ ViewInv /\ WalkInv)'
  BY RaisesStep, ViewStep, WalkStep DEF RaisesInv
<1> QED
  BY <1>1, <1>2, <1>3, PTL DEF Spec

(* The types of what raises, questions and uploads write, however many.        *)
THEOREM RaisesTypeCorrect == Spec => []RaiseTypeOK
<1>1. RaisesInv => RaiseTypeOK
  BY DEF RaisesInv
<1> QED
  BY <1>1, Always, PTL

(* NumbersGapless for any number of raises and roll-backs: the row lock of     *)
(* nextReference makes the numbers of a product's tickets 1 to the last.       *)
THEOREM Gapless == Spec => []NumbersGapless
<1>1. RaisesInv => NumbersGapless
  BY DEF RaisesInv, Numbers
<1> QED
  BY <1>1, Always, PTL

(* SelfServedCounts for any number of conversations and raises                *)
(* (upsertConversation, markConversationEscalated).                           *)
THEOREM CountsOfTheMetric == Spec => []SelfServedCounts
<1>1. RaisesInv => SelfServedCounts
  BY DEF RaisesInv, Conversations, Unmarked, Marked, SelfServedCounts
<1> QED
  BY <1>1, Always, PTL

(* FlagMatchesPayload for any grants, expiries and clock: the three statements *)
(* of an agent's view agree if the grant holds still while they run.           *)
THEOREM ViewsAreHonest == Spec => []FlagMatchesPayload
<1>1. ViewInv => FlagMatchesPayload
  BY DEF ViewInv
<1> QED
  BY <1>1, Always, PTL

(* A walk through the list misses at most the tickets of a millisecond in       *)
(* which a page ended, for any page size, any number of tickets raised         *)
(* meanwhile and any order of their commits (listTickets, encodeCursor).       *)
THEOREM WalkMissesOnlyTies == Spec => []PagesMissOnlyTies
<1>1. WalkInv => PagesMissOnlyTies
  BY DEF WalkInv, WalkMeets, OnWalk, Met, PagesMissOnlyTies
<1> QED
  BY <1>1, Always, PTL

(* The types of what the readers hold.                                        *)
THEOREM ReadsTypeCorrect == Spec => []ReadsTypeOK
<1>1. ASSUME RaisesInv, ViewInv, WalkInv
      PROVE  ReadsTypeOK
  <2>1. CASE Walking
    <3>1. /\ reader.cursor \in Nat /\ reader.got \subseteq Raises /\ reader.from \subseteq Raises
          /\ reader.ends \subseteq Nat /\ reader.op \in {"walk", "walked"}
      BY <1>1, <2>1 DEF WalkInv, WalkTyped, OnWalk, Walking, Tickets
    <3>2. reader \in Walk
      BY <2>1, <3>1 DEF Walking, Walk
    <3> QED
      BY <1>1, <3>2 DEF RaisesInv, ViewInv, ReadsTypeOK
  <2>2. CASE ~Walking
    BY <1>1, <2>2 DEF RaisesInv, ViewInv, ReadsTypeOK
  <2> QED
    BY <2>1, <2>2
<1>2. RaisesInv /\ ViewInv /\ WalkInv => ReadsTypeOK
  BY <1>1
<1> QED
  BY <1>2, Always, PTL
=============================================================================
