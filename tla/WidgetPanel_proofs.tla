-------------------------- MODULE WidgetPanel_proofs --------------------------
(***************************************************************************)
(* WidgetPanel for any number of calls under way, files, earlier tickets,   *)
(* texts, entries and faults.  Four of its invariants follow from PanelInv. *)
(* The first part says of each handler what becomes of what PanelInv reads  *)
(* (its effect); most effects leave the submissions aside, and the invariant *)
(* is kept by the few that do not, conjunct by conjunct.  The second part   *)
(* does the same for the fields beside the description with FieldInv, which *)
(* rests on PanelInv: one submission at a time.                             *)
(***************************************************************************)
EXTENDS WidgetPanel, TLAPS

-----------------------------------------------------------------------------
(* Types.                                                                   *)

Kinds == {"none", "ask", "upload", "raise", "link", "reply", "article"} \cup Loading \cup Opening

PanelState ==
  [view : Views, config : BOOLEAN, loading : BOOLEAN, chat : [question : Nat, offer : BOOLEAN],
   conversationId : Nat, asking : BOOLEAN, tickets : SUBSET Nat, ticket : Nat, createdId : Nat,
   pendingAttachments : SUBSET Files, submitting : BOOLEAN, link : Links \cup {"none"}]

CallRow ==
  [kind : Kinds, about : Nat \cup Files, text : Nat, conv : Nat, files : SUBSET Files]

Server ==
  [tickets : Seq([text : Nat, conv : Nat]), linked : [Files -> Nat], convs : Nat]

SeenRow ==
  [typed : Nat, spoilt : BOOLEAN, retried : SUBSET Nat, revived : SUBSET Nat,
   taken : SUBSET Files, dropped : SUBSET Files,
   listing : {"never", "waiting", "answered", "muddled"}, opened : Nat, muddled : BOOLEAN]

CallsTyped ==
  /\ calls \in [Slots -> CallRow]
  /\ \A s \in Slots : IF calls[s].kind = "upload" THEN calls[s].about \in Files
                                                  ELSE calls[s].about \in Nat

Used == [calls : Nat, texts : Nat, faults : Nat]

PanelTypeOK ==
  /\ state \in PanelState
  /\ draft \in Nat
  /\ button \in BOOLEAN
  /\ CallsTyped
  /\ server \in Server
  /\ seen \in SeenRow
  /\ used \in Used

-----------------------------------------------------------------------------
(* Submissions.                                                             *)

(* The calls that a press of the submit button sets going.                  *)
Pressing == {"raise", "link", "reply", "refresh"}

(* One press at a time, and the button stays disabled until it is over.     *)
OnePress ==
  /\ \A s, u \in UnderWay(Pressing) : s = u
  /\ UnderWay(Pressing) # {} => state.submitting /\ ~button

(* Texts are new when they are written.                                     *)
TextsSoFar ==
  /\ draft <= used.texts
  /\ state.chat.question <= used.texts
  /\ \A s \in Slots : calls[s].text <= used.texts
  /\ \A i \in Raised : server.tickets[i].text <= used.texts

Linking(i) == \E s \in UnderWay({"link"}) : calls[s].about = i

(* A ticket whose files are being linked is that of the call.               *)
LinksOK ==
  \A s \in UnderWay({"link"}) :
    /\ calls[s].about \in Raised
    /\ server.tickets[calls[s].about].text = calls[s].text
    /\ server.tickets[calls[s].about].conv = calls[s].conv
    /\ state.pendingAttachments \subseteq calls[s].files \cup seen.dropped

(* A text that is a ticket already is not submitted again but for cause.    *)
TextOnce ==
  /\ \A i, j \in Raised :
       i # j /\ server.tickets[i].text = server.tickets[j].text /\ server.tickets[i].text # 0
         => server.tickets[i].text \in seen.retried
  /\ \A s \in UnderWay({"raise"}), i \in Raised :
       server.tickets[i].text = calls[s].text => calls[s].text \in seen.retried
  /\ \A i \in Raised :
       draft # 0 /\ server.tickets[i].text = draft => draft \in seen.retried \/ Linking(i)
  /\ \A s \in UnderWay({"raise"}) : calls[s].text # 0

(* The question on view has not been submitted.                             *)
QuestionNew ==
  state.view = "ask" /\ state.chat.question # 0 =>
    /\ \A i \in Raised : server.tickets[i].text # state.chat.question
    /\ \A s \in UnderWay({"raise", "link"}) : calls[s].text # state.chat.question

(* Conversations are numbered in the order the server opened them.          *)
ConvsSoFar ==
  /\ state.conversationId <= server.convs
  /\ \A s \in Slots : calls[s].conv <= server.convs
  /\ \A i \in Raised : server.tickets[i].conv <= server.convs

(* No ticket was raised in the conversation, but for cause.                 *)
Free(conv) ==
  \A i \in Raised : conv # 0 /\ server.tickets[i].conv = conv => conv \in seen.revived \/ Linking(i)

ConvOnce ==
  /\ \A i, j \in Raised :
       i # j /\ server.tickets[i].conv = server.tickets[j].conv /\ server.tickets[i].conv # 0
         => server.tickets[i].conv \in seen.revived
  /\ \A s \in UnderWay({"raise"}), i \in Raised :
       server.tickets[i].conv = calls[s].conv /\ calls[s].conv # 0 => calls[s].conv \in seen.revived
  /\ Free(state.conversationId)
  /\ \A s \in UnderWay({"ask"}) : Free(calls[s].conv)

(* What the user typed last.                                                *)
Ticketed == \E i \in Raised : server.tickets[i].text = seen.typed

TypedKept ==
  seen.typed # 0 /\ ~seen.spoilt =>
    /\ draft = seen.typed \/ Ticketed
    /\ \A s \in UnderWay({"raise", "link"}) : calls[s].text = seen.typed \/ Ticketed

(* While the list is asked for, it is all that is loading.                  *)
ListOK ==
  seen.listing = "waiting" =>
    /\ state.loading /\ UnderWay(Loading) # {}
    /\ \A s \in UnderWay(Loading) : calls[s].kind = "tickets"

(* No ticket but the one opened last is on its way to the view.             *)
OpeningOK ==
  ~seen.muddled =>
    /\ state.ticket \in {0, seen.opened}
    /\ \A s \in UnderWay(Opening) : calls[s].about = seen.opened

PanelInv ==
  /\ PanelTypeOK
  /\ OnePress
  /\ TextsSoFar /\ TextOnce /\ QuestionNew
  /\ LinksOK
  /\ ConvsSoFar /\ ConvOnce
  /\ TypedKept
  /\ FilesKept
  /\ ListOK
  /\ OpeningOK

-----------------------------------------------------------------------------
(* The steps as the invariant sees them: what becomes of the fields it reads. *)

Becomes(view, question, conv, ticket) ==
  /\ state' \in PanelState
  /\ state'.view = view /\ state'.chat.question = question
  /\ state'.conversationId = conv /\ state'.ticket = ticket

Holds(files, submitting, loading) ==
  /\ state'.pendingAttachments = files
  /\ state'.submitting = submitting /\ state'.loading = loading

SameShown == Becomes(state.view, state.chat.question, state.conversationId, state.ticket)

SameHeld == Holds(state.pendingAttachments, state.submitting, state.loading)

Serves(tickets, linked, convs) ==
  /\ server' \in Server
  /\ server'.tickets = tickets /\ server'.linked = linked /\ server'.convs = convs

Excuses(typed, spoilt, retried, revived) ==
  /\ seen' \in SeenRow
  /\ seen'.typed = typed /\ seen'.spoilt = spoilt
  /\ seen'.retried = retried /\ seen'.revived = revived

Watches(taken, dropped, listing, opened, muddled) ==
  /\ seen'.taken = taken /\ seen'.dropped = dropped
  /\ seen'.listing = listing /\ seen'.opened = opened /\ seen'.muddled = muddled

SameExcuses == Excuses(seen.typed, seen.spoilt, seen.retried, seen.revived)

SameWatched == Watches(seen.taken, seen.dropped, seen.listing, seen.opened, seen.muddled)

Writes(n) == used' \in Used /\ used'.texts = used.texts + n

ButtonDrawn == button' \in BOOLEAN /\ (button' => ~state'.submitting \/ ~state.submitting \/ button)

Begins(s, call) == calls[s] = NoCall /\ calls' = [calls EXCEPT ![s] = call]

(* A view is shown; the chat and the conversation stay or are given up.     *)
Turns ==
  /\ \E view \in Views, question \in {0, state.chat.question}, conv \in {0, state.conversationId} :
       /\ view = "ask" => question = 0
       /\ Becomes(view, question, conv, state.ticket)
  /\ SameHeld /\ ButtonDrawn /\ Writes(0)
  /\ UNCHANGED <<draft, calls, server, seen>>

StartsLoading(s, kind) ==
  /\ Begins(s, Simple(kind))
  /\ \E view \in Views :
       /\ view = "ask" => view = state.view
       /\ Becomes(view, state.chat.question, state.conversationId, state.ticket)
  /\ Holds(state.pendingAttachments, state.submitting, TRUE)
  /\ SameExcuses
  /\ Watches(seen.taken, seen.dropped, Muddled(kind), seen.opened, seen.muddled)
  /\ ButtonDrawn /\ Writes(0)
  /\ UNCHANGED <<draft, server>>

(* An upload or an article.                                                 *)
StartsQuietly(s, call) ==
  /\ call \in CallRow
  /\ \/ call.kind = "upload" /\ call.about \in Files
     \/ call.kind = "article" /\ call.about = 0
  /\ call.text = 0 /\ call.conv = 0
  /\ Begins(s, call)
  /\ \E view \in {state.view, "article"} :
       Becomes(view, state.chat.question, state.conversationId, state.ticket)
  /\ SameHeld /\ ButtonDrawn /\ Writes(0)
  /\ UNCHANGED <<draft, server, seen>>

Asks(s) ==
  /\ Begins(s, Call("ask", 0, 0, state.conversationId, {}))
  /\ Becomes("ask", used.texts + 1, state.conversationId, state.ticket)
  /\ SameHeld /\ ButtonDrawn /\ Writes(1)
  /\ UNCHANGED <<draft, server, seen>>

Escalates ==
  /\ state.view = "ask"
  /\ Becomes("create", state.chat.question, state.conversationId, state.ticket)
  /\ SameHeld
  /\ draft' \in {draft, state.chat.question} /\ (draft' = 0 => draft' = draft)
  /\ \E spoilt \in BOOLEAN :
       /\ ~spoilt => ~seen.spoilt /\ draft' = draft
       /\ Excuses(seen.typed, spoilt, seen.retried, seen.revived)
  /\ SameWatched
  /\ ButtonDrawn /\ Writes(0)
  /\ UNCHANGED <<calls, server>>

Types ==
  /\ draft' = used.texts + 1
  /\ Excuses(draft', UnderWay({"raise", "link"}) # {}, seen.retried, seen.revived)
  /\ SameWatched
  /\ Writes(1)
  /\ UNCHANGED <<state, button, calls, server>>

DropsFile(f) ==
  /\ SameShown
  /\ Holds(state.pendingAttachments \ {f}, state.submitting, state.loading)
  /\ SameExcuses
  /\ Watches(seen.taken, seen.dropped \cup {f}, seen.listing, seen.opened, seen.muddled)
  /\ ButtonDrawn /\ Writes(0)
  /\ UNCHANGED <<draft, calls, server>>

(* The form, or a reply, is submitted.                                      *)
Submits(s, call) ==
  /\ call \in {Call("raise", 0, draft, state.conversationId, {}),
               Call("reply", state.ticket, 0, 0, {})}
  /\ call.kind = "raise" => draft # 0 /\ state.view = "create"
  /\ button
  /\ Begins(s, call)
  /\ SameShown
  /\ Holds(state.pendingAttachments, TRUE, state.loading)
  /\ Writes(0)
  /\ button' = FALSE
  /\ UNCHANGED <<draft, server, seen>>

(* A ticket is opened; after a reply its call takes the place of the reply's. *)
Opens(s, kind, t) ==
  /\ \/ kind = "ticket" /\ calls[s] = NoCall
     \/ kind = "refresh" /\ calls[s].kind = "reply"
  /\ t \in Nat
  /\ calls' = [calls EXCEPT ![s] = Call(kind, t, 0, 0, {})]
  /\ Becomes("ticket", state.chat.question, state.conversationId, 0)
  /\ SameHeld
  /\ SameExcuses
  /\ Watches(seen.taken, seen.dropped, seen.listing, t, UnderWay(Opening) # {})
  /\ ButtonDrawn /\ Writes(0)
  /\ UNCHANGED <<draft, server>>

LoadingEnds(s) ==
  /\ calls[s].kind \in Loading
  /\ Ends(s)
  /\ SameShown
  /\ Holds(state.pendingAttachments, state.submitting, FALSE)
  /\ SameExcuses
  /\ \E listing \in {seen.listing, "answered", "muddled"} :
       /\ calls[s].kind = "tickets" => listing # "waiting"
       /\ Watches(seen.taken, seen.dropped, listing, seen.opened, seen.muddled)
  /\ ButtonDrawn /\ Writes(0)
  /\ UNCHANGED <<draft, server>>

AskEnds(s) ==
  /\ calls[s].kind = "ask"
  /\ Ends(s)
  /\ \E conv \in Nat :
       /\ \/ conv = state.conversationId /\ UNCHANGED server
          \/ /\ conv = IF calls[s].conv = 0 THEN server.convs + 1 ELSE calls[s].conv
             /\ Serves(server.tickets, server.linked,
                       IF conv > server.convs THEN conv ELSE server.convs)
       /\ Becomes(state.view, state.chat.question, conv, state.ticket)
  /\ SameHeld /\ ButtonDrawn /\ Writes(0)
  /\ UNCHANGED <<draft, seen>>

(* An article is there or not, or an upload failed.                         *)
QuietEnds(s) ==
  /\ calls[s].kind \in {"article", "upload"}
  /\ Ends(s)
  /\ SameShown /\ SameHeld /\ ButtonDrawn /\ Writes(0)
  /\ UNCHANGED <<draft, server, seen>>

UploadEnds(s) ==
  /\ calls[s].kind = "upload"
  /\ Ends(s)
  /\ SameShown
  /\ Holds(state.pendingAttachments \cup {calls[s].about}, state.submitting, state.loading)
  /\ SameExcuses
  /\ Watches(seen.taken \cup {calls[s].about},
             IF UnderWay({"link"}) # {} THEN seen.dropped \cup {calls[s].about} ELSE seen.dropped,
             seen.listing, seen.opened, seen.muddled)
  /\ ButtonDrawn /\ Writes(0)
  /\ UNCHANGED <<draft, server>>

(* The ticket is there or not; or the reply failed.                         *)
OpeningEnds(s) ==
  /\ calls[s].kind \in Opening \cup {"reply"}
  /\ Ends(s)
  /\ \E t \in {state.ticket} \cup {calls[u].about : u \in UnderWay(Opening) \cap {s}} :
       Becomes(state.view, state.chat.question, state.conversationId, t)
  /\ Holds(state.pendingAttachments,
           IF calls[s].kind = "ticket" THEN state.submitting ELSE FALSE, state.loading)
  /\ ButtonDrawn /\ Writes(0)
  /\ UNCHANGED <<draft, server, seen>>

WithTicket(call) == Append(server.tickets, [text |-> call.text, conv |-> call.conv])

Attached(call) ==
  [f \in Files |-> IF f \in call.files /\ server.linked[f] = 0
                   THEN call.about ELSE server.linked[f]]

(* The ticket is raised and its files are to be linked.                     *)
GoesOnToLink(s) ==
  /\ calls[s].kind = "raise"
  /\ Serves(WithTicket(calls[s]), server.linked, server.convs)
  /\ calls' = [calls EXCEPT ![s] = Call("link", Len(server.tickets) + 1, calls[s].text,
                                        calls[s].conv, state.pendingAttachments)]
  /\ ButtonDrawn /\ Writes(0)
  /\ UNCHANGED <<state, draft, seen>>

(* The user is told of the ticket.                                          *)
Tells(s) ==
  /\ Ends(s)
  /\ draft' = 0
  /\ Becomes("created", state.chat.question, 0, state.ticket)
  /\ Holds({}, FALSE, state.loading)
  /\ Excuses(seen.typed, seen.spoilt, seen.retried, seen.revived \cup Revived(calls[s].conv))
  /\ SameWatched
  /\ ButtonDrawn /\ Writes(0)

RaiseEnds(s) ==
  /\ calls[s].kind = "raise" /\ state.pendingAttachments = {}
  /\ Serves(WithTicket(calls[s]), server.linked, server.convs)
  /\ Tells(s)

LinkEnds(s) ==
  /\ calls[s].kind = "link"
  /\ Serves(server.tickets, Attached(calls[s]), server.convs)
  /\ Tells(s)

(* The user is not told.                                                    *)
SubmissionFails(s) ==
  /\ \/ calls[s].kind = "raise" /\ Serves(WithTicket(calls[s]), server.linked, server.convs)
     \/ calls[s].kind = "link" /\ Serves(server.tickets, Attached(calls[s]), server.convs)
     \/ calls[s].kind \in {"raise", "link"} /\ UNCHANGED server
  /\ Ends(s)
  /\ draft' = calls[s].text
  /\ SameShown
  /\ Holds(state.pendingAttachments, FALSE, state.loading)
  /\ Excuses(seen.typed, seen.spoilt, seen.retried \cup {calls[s].text},
             seen.revived \cup {calls[s].conv})
  /\ SameWatched
  /\ ButtonDrawn /\ Writes(0)

(* The page is left; at most one submission still has its effect.           *)
Leaves ==
  /\ \/ UNCHANGED server
     \/ \E s \in UnderWay({"raise"}) : Serves(WithTicket(calls[s]), server.linked, server.convs)
     \/ \E s \in UnderWay({"link"}) : Serves(server.tickets, Attached(calls[s]), server.convs)
  /\ calls' \in [Slots -> {NoCall, FirstBoot}]
  /\ UNCHANGED draft
  /\ Becomes("home", 0, 0, 0)
  /\ Holds({}, FALSE, TRUE)
  /\ Excuses(seen.typed, seen.spoilt,
             seen.retried \cup {calls[s].text : s \in UnderWay({"raise", "link"})},
             seen.revived \cup {calls[s].conv : s \in UnderWay({"raise", "link"})})
  /\ Watches(seen.taken, seen.dropped \cup state.pendingAttachments, "never", 0, seen.muddled)
  /\ button' \in BOOLEAN /\ Writes(0)

-----------------------------------------------------------------------------
LEMMA Typed ==
  ASSUME PanelTypeOK
  PROVE  /\ state \in PanelState /\ state.chat \in [question : Nat, offer : BOOLEAN]
         /\ state.view \in Views /\ state.chat.question \in Nat /\ state.conversationId \in Nat
         /\ state.pendingAttachments \subseteq Files /\ state.submitting \in BOOLEAN
         /\ state.loading \in BOOLEAN /\ state.ticket \in Nat
         /\ seen \in SeenRow /\ seen.spoilt \in BOOLEAN /\ used \in Used /\ used.texts \in Nat
         /\ server \in Server /\ server.convs \in Nat
BY DEF PanelTypeOK, PanelState, Server, SeenRow, Used

LEMMA ShowsTurns ==
  ASSUME PanelTypeOK, NEW view \in Views, Shows(view)
  PROVE  Turns
<1>1. /\ state' \in PanelState /\ state'.view = view
      /\ state'.chat = (IF view = "ask" THEN NoChat ELSE state.chat)
      /\ state'.conversationId = state.conversationId /\ state'.ticket = state.ticket
      /\ SameHeld
  BY Typed DEF Shows, Go, NoChat, PanelState, SameHeld, Holds
<1>2. ButtonDrawn
  BY <1>1, Typed DEF ButtonDrawn, Shows, Render, DrawsButton, SameHeld, Holds
<1> QED
  BY <1>1, <1>2, Typed DEF Shows, Turns, Becomes, NoChat, Writes

LEMMA RestartTurns == ASSUME PanelTypeOK, Restart PROVE Turns
<1>1. /\ state' \in PanelState /\ state'.view = "home" /\ state'.chat = NoChat
      /\ state'.conversationId = 0 /\ state'.ticket = state.ticket
      /\ SameHeld
  BY Typed DEF Restart, Restarted, Go, NoChat, Views, PanelState, SameHeld, Holds
<1>2. ButtonDrawn
  BY <1>1, Typed DEF ButtonDrawn, Restart, Render, DrawsButton, SameHeld, Holds
<1> QED
  BY <1>1, <1>2, Typed DEF Restart, Turns, Becomes, NoChat, Writes, Views

LEMMA LoadListStarts ==
  ASSUME PanelTypeOK, NEW list \in Lists, LoadList(list)
  PROVE  \E s \in Slots : StartsLoading(s, list)
<1>1. /\ state' \in PanelState /\ state'.view = list /\ state'.chat = state.chat
      /\ state'.conversationId = state.conversationId /\ state'.ticket = state.ticket
      /\ Holds(state.pendingAttachments, state.submitting, TRUE)
  BY Typed DEF LoadList, Loads, Go, Lists, Views, PanelState, Holds
<1>2. SameExcuses /\ Watches(seen.taken, seen.dropped, Muddled(list), seen.opened, seen.muddled)
  <2>1. Muddled(list) \in {"never", "waiting", "answered", "muddled"}
    BY Typed DEF Muddled, SeenRow
  <2> QED
    BY <2>1, Typed DEF LoadList, SameExcuses, Excuses, Watches, SeenRow
<1>3. ButtonDrawn
  BY <1>1, Typed DEF ButtonDrawn, LoadList, Render, DrawsButton, Holds
<1>4. PICK s \in Slots : Begins(s, Simple(list))
  BY DEF LoadList, Starts, Begins
<1>5. Writes(0)
  BY Typed DEF LoadList, Starts, Writes, Used
<1> QED
  BY <1>1, <1>2, <1>3, <1>4, <1>5, Typed DEF LoadList, StartsLoading, Becomes, Lists, Views

LEMMA BootStarts ==
  ASSUME PanelTypeOK, Boot
  PROVE  \E s \in Slots : StartsLoading(s, "config")
<1>1. /\ state' \in PanelState /\ state'.view = state.view /\ state'.chat = state.chat
      /\ state'.conversationId = state.conversationId /\ state'.ticket = state.ticket
      /\ Holds(state.pendingAttachments, state.submitting, TRUE)
  BY Typed DEF Boot, PanelState, Holds
<1>2. SameExcuses /\ Watches(seen.taken, seen.dropped, Muddled("config"), seen.opened, seen.muddled)
  <2>1. Muddled("config") \in {"never", "waiting", "answered", "muddled"}
    BY Typed DEF Muddled, SeenRow
  <2> QED
    BY <2>1, Typed DEF Boot, SameExcuses, Excuses, Watches, SeenRow
<1>3. ButtonDrawn
  BY <1>1, Typed DEF ButtonDrawn, Boot, Render, DrawsButton, Holds
<1>4. PICK s \in Slots : Begins(s, Simple("config"))
  BY DEF Boot, Starts, Begins
<1>5. Writes(0)
  BY Typed DEF Boot, Starts, Writes, Used
<1> QED
  BY <1>1, <1>2, <1>3, <1>4, <1>5, Typed DEF Boot, StartsLoading, Becomes

LEMMA DeepLinkEffect ==
  ASSUME PanelTypeOK, DeepLink
  PROVE  Turns \/ \E s \in Slots, list \in Lists : StartsLoading(s, list)
<1>1. CASE state.link \in {"ask", "create"} /\ Shows(state.link)
  <2>1. state.link \in Views
    BY <1>1 DEF Views
  <2> QED
    BY <1>1, <2>1, ShowsTurns
<1>2. CASE ~(state.link \in {"ask", "create"} /\ Shows(state.link))
  <2>1. PICK list \in Lists : list = state.link
    BY <1>2 DEF DeepLink
  <2>2. /\ \E s \in Slots : calls[s] = NoCall /\ calls' = [calls EXCEPT ![s] = Simple(list)]
        /\ state' = [Loads(state, list) EXCEPT !.link = "none"]
        /\ seen' = [seen EXCEPT !.listing = Muddled(list)]
        /\ Render
        /\ UNCHANGED <<draft, server, used>>
    BY <1>2, <2>1 DEF DeepLink
  <2>3. /\ state' \in PanelState /\ state'.view = list /\ state'.chat = state.chat
        /\ state'.conversationId = state.conversationId /\ state'.ticket = state.ticket
        /\ Holds(state.pendingAttachments, state.submitting, TRUE)
    BY <2>2, Typed DEF Loads, Go, Lists, Views, PanelState, Holds
  <2>4. SameExcuses /\ Watches(seen.taken, seen.dropped, Muddled(list), seen.opened, seen.muddled)
    <3>1. Muddled(list) \in {"never", "waiting", "answered", "muddled"}
      BY Typed DEF Muddled, SeenRow
    <3> QED
      BY <2>2, <3>1, Typed DEF SameExcuses, Excuses, Watches, SeenRow
  <2>5. ButtonDrawn
    BY <2>2, <2>3, Typed DEF ButtonDrawn, Render, DrawsButton, Holds
  <2>6. PICK s \in Slots : Begins(s, Simple(list))
    BY <2>2 DEF Begins
  <2>7. Writes(0)
    BY <2>2, Typed DEF Writes, Used
  <2>8. StartsLoading(s, list)
    BY <2>2, <2>3, <2>4, <2>5, <2>6, <2>7, Typed DEF StartsLoading, Becomes, Lists, Views
  <2> QED
    BY <2>8
<1> QED
  BY <1>1, <1>2

LEMMA AskEffect == ASSUME PanelTypeOK, DoAsk PROVE \E s \in Slots : Asks(s)
<1>1. /\ state' \in PanelState /\ state'.view = "ask" /\ state'.chat.question = used.texts + 1
      /\ state'.conversationId = state.conversationId /\ state'.ticket = state.ticket
      /\ SameHeld
  <2>1. DEFINE chat == [state.chat EXCEPT !.question = used.texts + 1]
  <2>2. chat \in [question : Nat, offer : BOOLEAN] /\ chat.question = used.texts + 1
    BY Typed
  <2>3. state' = [Go(state, "ask") EXCEPT !.chat = chat, !.asking = TRUE]
    BY Typed DEF DoAsk, Go, PanelState
  <2> HIDE DEF chat
  <2> QED
    BY <2>2, <2>3, Typed DEF Go, Views, PanelState, SameHeld, Holds
<1>2. ButtonDrawn
  BY <1>1, Typed DEF ButtonDrawn, DoAsk, Render, DrawsButton, SameHeld, Holds
<1>3. Writes(1)
  <2>1. used' = [used EXCEPT !.texts = used.texts + 1, !.calls = used.calls + 1]
    BY DEF DoAsk
  <2>2. used.texts + 1 \in Nat /\ used.calls + 1 \in Nat
    BY Typed DEF Used
  <2> QED
    BY <2>1, <2>2, Typed DEF Writes, Used
<1> QED
  BY <1>1, <1>2, <1>3 DEF DoAsk, Asks, Begins, Becomes

LEMMA EscalateEffect == ASSUME PanelTypeOK, Escalate PROVE Escalates
<1>1. /\ state' \in PanelState /\ state'.view = "create" /\ state'.chat = state.chat
      /\ state'.conversationId = state.conversationId /\ state'.ticket = state.ticket
      /\ SameHeld
  BY Typed DEF Escalate, Go, Views, PanelState, SameHeld, Holds
<1>2. ButtonDrawn
  BY <1>1, Typed DEF ButtonDrawn, Escalate, Render, DrawsButton, SameHeld, Holds
<1>3. /\ seen' = [seen EXCEPT !.spoilt = seen.spoilt \/ draft' # draft]
      /\ (seen.spoilt \/ draft' # draft) \in BOOLEAN
  BY Typed DEF Escalate, SeenRow
<1>4. \E spoilt \in BOOLEAN :
        /\ ~spoilt => ~seen.spoilt /\ draft' = draft
        /\ Excuses(seen.typed, spoilt, seen.retried, seen.revived)
  <2> DEFINE spoilt == seen.spoilt \/ draft' # draft
  <2>1. seen' = [seen EXCEPT !.spoilt = spoilt] /\ spoilt \in BOOLEAN
    BY <1>3
  <2>2. ~spoilt => ~seen.spoilt /\ draft' = draft
    OBVIOUS
  <2> HIDE DEF spoilt
  <2> QED
    BY <2>1, <2>2, Typed DEF Excuses, SeenRow
<1>5. SameWatched
  BY <1>3, Typed DEF SameWatched, Watches, SeenRow
<1> QED
  BY <1>1, <1>2, <1>4, <1>5, Typed DEF Escalate, Escalates, OffersForm, At, Becomes, Writes

LEMMA TypeEffect == ASSUME PanelTypeOK, Type PROVE Types
<1> DEFINE spoilt == UnderWay({"raise", "link"}) # {}
<1>1. seen' = [seen EXCEPT !.typed = draft', !.spoilt = spoilt] /\ spoilt \in BOOLEAN
  BY Typed DEF Type
<1>2. draft' = used.texts + 1 /\ draft' \in Nat
  BY Typed DEF Type
<1> HIDE DEF spoilt
<1>3. Excuses(draft', spoilt, seen.retried, seen.revived) /\ SameWatched
  BY <1>1, <1>2, Typed DEF Excuses, SameWatched, Watches, SeenRow
<1>4. Writes(1)
  BY Typed DEF Type, Writes, Used
<1> QED
  BY <1>2, <1>3, <1>4 DEF Type, Types, spoilt

LEMMA UploadEffect ==
  ASSUME PanelTypeOK, NEW f \in Files, Upload(f)
  PROVE  \E s \in Slots, call \in CallRow : StartsQuietly(s, call)
<1> DEFINE call == Call("upload", f, 0, 0, {})
<1>1. call \in CallRow /\ call.kind = "upload" /\ call.about = f /\ call.text = 0 /\ call.conv = 0
  BY DEF Call, CallRow, Kinds
<1> HIDE DEF call
<1>2. PICK s \in Slots : Begins(s, call)
  BY DEF Upload, Starts, Begins, call
<1>3. Writes(0)
  BY Typed DEF Upload, Starts, Writes, Used
<1>4. SameShown /\ SameHeld /\ ButtonDrawn
  BY Typed DEF Upload, SameShown, Becomes, SameHeld, Holds, ButtonDrawn, PanelTypeOK
<1> QED
  BY <1>1, <1>2, <1>3, <1>4 DEF Upload, StartsQuietly, SameShown

LEMMA OpenArticleEffect ==
  ASSUME PanelTypeOK, OpenArticle
  PROVE  \E s \in Slots, call \in CallRow : StartsQuietly(s, call)
<1> DEFINE call == Simple("article")
<1>1. call \in CallRow /\ call.kind = "article" /\ call.about = 0 /\ call.text = 0 /\ call.conv = 0
  BY DEF Simple, Call, CallRow, Kinds
<1> HIDE DEF call
<1>2. PICK s \in Slots : Begins(s, call)
  BY DEF OpenArticle, Starts, Begins, call
<1>3. Writes(0)
  BY Typed DEF OpenArticle, Starts, Writes, Used
<1>4. /\ Becomes("article", state.chat.question, state.conversationId, state.ticket)
      /\ SameHeld
  BY Typed DEF OpenArticle, Go, Views, PanelState, Becomes, SameHeld, Holds
<1>5. ButtonDrawn
  BY <1>4, Typed DEF ButtonDrawn, OpenArticle, Render, DrawsButton, SameHeld, Holds
<1> QED
  BY <1>1, <1>2, <1>3, <1>4, <1>5 DEF OpenArticle, StartsQuietly

LEMMA RemoveFileEffect == ASSUME PanelTypeOK, NEW f \in Files, RemoveFile(f) PROVE DropsFile(f)
<1>1. SameShown /\ Holds(state.pendingAttachments \ {f}, state.submitting, state.loading)
  BY Typed DEF RemoveFile, PanelState, SameShown, Becomes, Holds
<1>2. ButtonDrawn
  BY <1>1, Typed DEF ButtonDrawn, RemoveFile, Render, DrawsButton, Holds
<1>3. /\ SameExcuses
      /\ Watches(seen.taken, seen.dropped \cup {f}, seen.listing, seen.opened, seen.muddled)
  BY Typed DEF RemoveFile, SameExcuses, Excuses, Watches, SeenRow
<1> QED
  BY <1>1, <1>2, <1>3, Typed DEF RemoveFile, DropsFile, Writes

LEMMA SubmitEffect ==
  ASSUME PanelTypeOK, SubmitTicket \/ SubmitReply
  PROVE  \E s \in Slots : \E call \in CallRow : Submits(s, call)
<1> DEFINE ticket == Call("raise", 0, draft, state.conversationId, {})
           reply == Call("reply", state.ticket, 0, 0, {})
<1>1. /\ ticket \in CallRow /\ ticket.kind = "raise"
      /\ reply \in CallRow /\ reply.kind = "reply"
  BY Typed DEF Call, CallRow, Kinds, PanelTypeOK
<1>2. /\ SameShown /\ Holds(state.pendingAttachments, TRUE, state.loading)
      /\ button' = FALSE
  BY Typed DEF SubmitTicket, SubmitReply, Render, DrawsButton, PanelState, SameShown, Becomes, Holds
<1>3. Writes(0) /\ button /\ UNCHANGED <<draft, server, seen>>
  BY Typed DEF SubmitTicket, SubmitReply, Starts, Pressed, Writes, Used
<1>4. CASE SubmitTicket
  <2>1. PICK s \in Slots : Begins(s, ticket)
    BY <1>4 DEF SubmitTicket, Starts, Begins
  <2>2. draft # 0 /\ state.view = "create"
    BY <1>4 DEF SubmitTicket, CreateView, At
  <2> QED
    BY <1>1, <1>2, <1>3, <2>1, <2>2 DEF Submits
<1>5. CASE SubmitReply
  <2>1. PICK s \in Slots : Begins(s, reply)
    BY <1>5 DEF SubmitReply, Starts, Begins
  <2> QED
    BY <1>1, <1>2, <1>3, <2>1 DEF Submits
<1> QED
  BY <1>4, <1>5

LEMMA OpensSeen ==
  ASSUME PanelTypeOK, NEW t \in Nat, seen' = NotesOpening(t)
  PROVE  /\ SameExcuses
         /\ Watches(seen.taken, seen.dropped, seen.listing, t, UnderWay(Opening) # {})
<1> DEFINE muddled == UnderWay(Opening) # {}
<1>1. seen' = [seen EXCEPT !.opened = t, !.muddled = muddled] /\ muddled \in BOOLEAN
  BY DEF NotesOpening
<1> HIDE DEF muddled
<1>2. SameExcuses /\ Watches(seen.taken, seen.dropped, seen.listing, t, muddled)
  BY <1>1, Typed DEF SameExcuses, Excuses, Watches, SeenRow
<1> QED
  BY <1>2 DEF muddled

LEMMA OpenedShows ==
  ASSUME PanelTypeOK, state' = Opened
  PROVE  Becomes("ticket", state.chat.question, state.conversationId, 0) /\ SameHeld
BY Typed DEF Opened, Go, Views, PanelState, Becomes, SameHeld, Holds

LEMMA OpenTicketEffect ==
  ASSUME PanelTypeOK, OpenTicket
  PROVE  \E s \in Slots, t \in Nat : Opens(s, "ticket", t)
<1>1. PICK t \in Raised :
         /\ Starts(Call("ticket", t, 0, 0, {}))
         /\ state' = Opened /\ seen' = NotesOpening(t)
  BY DEF OpenTicket
<1>2. t \in Nat
  BY Typed DEF Raised, Server
<1>3. PICK s \in Slots : Begins(s, Call("ticket", t, 0, 0, {}))
  BY <1>1 DEF Starts, Begins
<1>4. Writes(0)
  BY <1>1, Typed DEF Starts, Writes, Used
<1>5. ButtonDrawn
  BY <1>1, OpenedShows, Typed DEF ButtonDrawn, OpenTicket, Render, DrawsButton, SameHeld, Holds
<1> QED
  BY <1>1, <1>2, <1>3, <1>4, <1>5, OpenedShows, OpensSeen DEF OpenTicket, Opens, Begins

-----------------------------------------------------------------------------
(* The answers.                                                             *)

LEMMA Spends == ASSUME PanelTypeOK, NEW fails \in BOOLEAN, Unless(fails) PROVE Writes(0)
BY Typed DEF Unless, Fault, Writes, Used

LEMMA FaultSpends == ASSUME PanelTypeOK, Fault PROVE Writes(0)
BY Typed DEF Fault, Writes, Used

LEMMA ConfigEffect ==
  ASSUME PanelTypeOK, NEW s \in Slots, ConfigAnswered(s)
  PROVE  LoadingEnds(s)
<1>1. PICK fails \in BOOLEAN :
        /\ Unless(fails)
        /\ state' = [state EXCEPT !.loading = FALSE, !.config = state.config \/ ~fails,
             !.link = IF calls[s] = FirstBoot /\ ~state.config /\ fails THEN "none" ELSE state.link]
  BY DEF ConfigAnswered
<1>2. SameShown /\ Holds(state.pendingAttachments, state.submitting, FALSE)
  <2> DEFINE config == state.config \/ ~fails
             link == IF calls[s] = FirstBoot /\ ~state.config /\ fails THEN "none" ELSE state.link
  <2>1. config \in BOOLEAN /\ link \in Links \cup {"none"}
    BY Typed DEF PanelState
  <2>2. state' = [state EXCEPT !.loading = FALSE, !.config = config, !.link = link]
    BY <1>1
  <2> HIDE DEF config, link
  <2> QED
    BY <2>1, <2>2, Typed DEF PanelState, SameShown, Becomes, Holds
<1>3. ButtonDrawn
  BY <1>2, Typed DEF ButtonDrawn, ConfigAnswered, Render, DrawsButton, Holds
<1>4. SameExcuses /\ SameWatched
  BY Typed DEF ConfigAnswered, SameExcuses, Excuses, SameWatched, Watches
<1> QED
  BY <1>1, <1>2, <1>3, <1>4, Spends DEF ConfigAnswered, LoadingEnds, Loading, SameWatched

LEMMA ListEffect ==
  ASSUME PanelTypeOK, NEW s \in Slots, ListAnswered(s)
  PROVE  LoadingEnds(s)
<1>1. PICK fails \in BOOLEAN :
        /\ Unless(fails)
        /\ state' = [state EXCEPT !.loading = FALSE,
             !.tickets = IF calls[s].kind = "tickets" /\ ~fails THEN Raised ELSE state.tickets]
        /\ seen' = IF calls[s].kind = "tickets" /\ seen.listing = "waiting"
                   THEN [seen EXCEPT !.listing = IF fails THEN "muddled" ELSE "answered"] ELSE seen
  BY DEF ListAnswered
<1>2. SameShown /\ Holds(state.pendingAttachments, state.submitting, FALSE)
  <2> DEFINE tickets == IF calls[s].kind = "tickets" /\ ~fails THEN Raised ELSE state.tickets
  <2>1. tickets \in SUBSET Nat
    BY Typed DEF PanelState, Raised, Server
  <2>2. state' = [state EXCEPT !.loading = FALSE, !.tickets = tickets]
    BY <1>1
  <2> HIDE DEF tickets
  <2> QED
    BY <2>1, <2>2, Typed DEF PanelState, SameShown, Becomes, Holds
<1>3. ButtonDrawn
  BY <1>2, Typed DEF ButtonDrawn, ListAnswered, Render, DrawsButton, Holds
<1>4. SameExcuses
  BY <1>1, Typed DEF SameExcuses, Excuses, SeenRow
<1>5. \E listing \in {seen.listing, "answered", "muddled"} :
        /\ calls[s].kind = "tickets" => listing # "waiting"
        /\ Watches(seen.taken, seen.dropped, listing, seen.opened, seen.muddled)
  BY <1>1, Typed DEF Watches, SeenRow
<1> QED
  BY <1>1, <1>2, <1>3, <1>4, <1>5, Spends DEF ListAnswered, LoadingEnds, Loading

LEMMA AskAnsweredEffect ==
  ASSUME PanelTypeOK, NEW s \in Slots, AskAnswered(s)
  PROVE  AskEnds(s)
<1> DEFINE conv == IF calls[s].conv = 0 THEN server.convs + 1 ELSE calls[s].conv
           convs == IF conv > server.convs THEN conv ELSE server.convs
<1>1. PICK fails, offer \in BOOLEAN :
        /\ Unless(fails)
        /\ server' = IF fails THEN server ELSE [server EXCEPT !.convs = convs]
        /\ state' = [state EXCEPT !.asking = FALSE,
             !.conversationId = IF fails THEN state.conversationId ELSE conv,
             !.chat.offer = state.chat.offer \/ offer \/ fails]
  BY DEF AskAnswered
<1>2. conv \in Nat /\ convs \in Nat
  BY Typed DEF PanelTypeOK, CallsTyped, CallRow
<1> HIDE DEF convs
<1>3. /\ state' \in PanelState
      /\ Becomes(state.view, state.chat.question,
                 IF fails THEN state.conversationId ELSE conv, state.ticket)
      /\ SameHeld
  <2> DEFINE chat == [state.chat EXCEPT !.offer = state.chat.offer \/ offer \/ fails]
             new == IF fails THEN state.conversationId ELSE conv
  <2>1. chat \in [question : Nat, offer : BOOLEAN] /\ chat.question = state.chat.question
    BY Typed
  <2>2. new \in Nat
    BY <1>2, Typed
  <2>3. state' = [state EXCEPT !.asking = FALSE, !.conversationId = new, !.chat = chat]
    BY <1>1, Typed DEF PanelState
  <2> HIDE DEF chat, new, conv
  <2>4. /\ Becomes(state.view, state.chat.question, new, state.ticket)
        /\ SameHeld
    BY <2>1, <2>2, <2>3, Typed DEF PanelState, Becomes, SameHeld, Holds
  <2> QED
    BY <2>4 DEF new, Becomes
<1>4. ButtonDrawn
  BY <1>3, Typed DEF ButtonDrawn, AskAnswered, Render, DrawsButton, SameHeld, Holds
<1>5. ~fails => Serves(server.tickets, server.linked, convs)
  BY <1>1, <1>2, Typed DEF Serves, Server
<1>6. Writes(0)
  BY <1>1, Spends
<1>7. \E new \in Nat :
       /\ \/ new = state.conversationId /\ UNCHANGED server
          \/ /\ new = IF calls[s].conv = 0 THEN server.convs + 1 ELSE calls[s].conv
             /\ Serves(server.tickets, server.linked,
                       IF new > server.convs THEN new ELSE server.convs)
       /\ Becomes(state.view, state.chat.question, new, state.ticket)
  <2>1. CASE fails
    BY <2>1, <1>1, <1>3, Typed
  <2>2. CASE ~fails
    BY <2>2, <1>2, <1>3, <1>5 DEF convs
  <2> QED
    BY <2>1, <2>2
<1> QED
  BY <1>3, <1>4, <1>6, <1>7 DEF AskAnswered, AskEnds

LEMMA ArticleEffect ==
  ASSUME PanelTypeOK, NEW s \in Slots, ArticleAnswered(s)
  PROVE  QuietEnds(s)
<1>1. SameShown /\ SameHeld /\ ButtonDrawn
  BY Typed DEF ArticleAnswered, SameShown, Becomes, SameHeld, Holds, ButtonDrawn, DrawnBusy
<1>2. Writes(0)
  BY Spends DEF ArticleAnswered
<1> QED
  BY <1>1, <1>2 DEF ArticleAnswered, QuietEnds

LEMMA TicketEffect ==
  ASSUME PanelTypeOK, NEW s \in Slots, TicketAnswered(s)
  PROVE  OpeningEnds(s)
<1>1. PICK fails \in BOOLEAN :
        /\ Unless(fails)
        /\ LET st == [state EXCEPT !.ticket = IF fails THEN state.ticket ELSE calls[s].about]
           IN state' = IF calls[s].kind = "refresh" THEN Finally(st) ELSE st
  BY DEF TicketAnswered
<1> DEFINE t == IF fails THEN state.ticket ELSE calls[s].about
<1>2. t \in Nat /\ t \in {state.ticket} \cup {calls[u].about : u \in UnderWay(Opening) \cap {s}}
  BY Typed DEF PanelTypeOK, CallsTyped, CallRow, TicketAnswered, UnderWay, Opening
<1>3. state' = IF calls[s].kind = "refresh" THEN [state EXCEPT !.ticket = t, !.submitting = FALSE]
                                            ELSE [state EXCEPT !.ticket = t]
  <2> DEFINE st == [state EXCEPT !.ticket = t]
  <2>1. Finally(st) = [state EXCEPT !.ticket = t, !.submitting = FALSE]
    BY Typed DEF Finally, PanelState
  <2> QED
    BY <1>1, <2>1
<1> HIDE DEF t
<1>4. /\ Becomes(state.view, state.chat.question, state.conversationId, t)
      /\ Holds(state.pendingAttachments,
               IF calls[s].kind = "ticket" THEN state.submitting ELSE FALSE, state.loading)
  <2>1. CASE calls[s].kind = "refresh"
    BY <2>1, <1>2, <1>3, Typed DEF PanelState, Becomes, Holds
  <2>2. CASE calls[s].kind = "ticket"
    BY <2>2, <1>2, <1>3, Typed DEF PanelState, Becomes, Holds
  <2> QED
    BY <2>1, <2>2 DEF TicketAnswered, Opening
<1>5. ButtonDrawn
  BY Typed DEF TicketAnswered, ButtonDrawn, DrawnBusy
<1>6. Writes(0)
  BY <1>1, Spends
<1> QED
  BY <1>2, <1>4, <1>5, <1>6 DEF TicketAnswered, OpeningEnds

LEMMA ReplyEffect ==
  ASSUME PanelTypeOK, NEW s \in Slots, ReplyAnswered(s)
  PROVE  Opens(s, "refresh", state.ticket) \/ OpeningEnds(s)
<1>1. calls[s].kind = "reply" /\ UNCHANGED <<draft, server>> /\ ButtonDrawn
  BY Typed DEF ReplyAnswered, ButtonDrawn, DrawnBusy
<1>2. CASE /\ state.ticket # 0
           /\ calls' = [calls EXCEPT ![s] = Call("refresh", state.ticket, 0, 0, {})]
           /\ state' = Opened
           /\ seen' = NotesOpening(state.ticket)
           /\ UNCHANGED used
  <2>1. Writes(0)
    BY <1>2, Typed DEF Writes
  <2> QED
    BY <1>1, <1>2, <2>1, OpenedShows, OpensSeen, Typed DEF Opens
<1>3. CASE /\ (state.ticket = 0 /\ UNCHANGED used) \/ Fault
           /\ Ends(s)
           /\ state' = Finally(state)
           /\ UNCHANGED seen
  <2>1. Writes(0)
    BY <1>3, FaultSpends, Typed DEF Writes
  <2>2. SameShown /\ Holds(state.pendingAttachments, FALSE, state.loading)
    BY <1>3, Typed DEF Finally, PanelState, SameShown, Becomes, Holds
  <2> QED
    BY <1>1, <1>3, <2>1, <2>2 DEF OpeningEnds, SameShown
<1> QED
  BY <1>2, <1>3 DEF ReplyAnswered

LEMMA UploadAnsweredEffect ==
  ASSUME PanelTypeOK, NEW s \in Slots, UploadAnswered(s)
  PROVE  UploadEnds(s) \/ QuietEnds(s)
<1>1. calls[s].kind = "upload" /\ Ends(s) /\ Render /\ UNCHANGED <<draft, server>>
  BY DEF UploadAnswered
<1> DEFINE f == calls[s].about
           dropped == IF UnderWay({"link"}) # {} THEN seen.dropped \cup {f} ELSE seen.dropped
<1>2. CASE /\ state' = [state EXCEPT !.pendingAttachments = state.pendingAttachments \cup {f}]
           /\ seen' = [seen EXCEPT !.taken = seen.taken \cup {f}, !.dropped = dropped]
           /\ UNCHANGED used
  <2>1. f \in Files /\ dropped \subseteq Files
    BY <1>1, Typed DEF PanelTypeOK, CallsTyped, SeenRow
  <2> HIDE DEF dropped
  <2>2. SameShown /\ Holds(state.pendingAttachments \cup {f}, state.submitting, state.loading)
    BY <1>2, <2>1, Typed DEF PanelState, SameShown, Becomes, Holds
  <2>3. /\ SameExcuses
        /\ Watches(seen.taken \cup {f}, dropped, seen.listing, seen.opened, seen.muddled)
    BY <1>2, <2>1, Typed DEF SameExcuses, Excuses, Watches, SeenRow
  <2>4. ButtonDrawn
    BY <1>1, <2>2, Typed DEF ButtonDrawn, Render, DrawsButton, Holds
  <2>5. Writes(0)
    BY <1>2, Typed DEF Writes
  <2> QED
    BY <1>1, <2>2, <2>3, <2>4, <2>5 DEF UploadEnds, dropped
<1>3. CASE Fault /\ UNCHANGED <<state, seen>>
  <2>1. SameShown /\ SameHeld /\ ButtonDrawn
    BY <1>1, <1>3, Typed DEF SameShown, Becomes, SameHeld, Holds, ButtonDrawn, Render, DrawsButton
  <2> QED
    BY <1>1, <1>3, <2>1, FaultSpends DEF QuietEnds
<1> QED
  BY <1>2, <1>3 DEF UploadAnswered

LEMMA WithServes ==
  ASSUME PanelTypeOK, NEW call \in CallRow,
         server' = [server EXCEPT !.tickets =
                                    Append(server.tickets,
                                           [text |-> call.text, conv |-> call.conv])]
  PROVE  Serves(WithTicket(call), server.linked, server.convs)
<1>1. [text |-> call.text, conv |-> call.conv] \in [text : Nat, conv : Nat]
  BY DEF CallRow
<1>2. WithTicket(call) \in Seq([text : Nat, conv : Nat])
  BY <1>1, Typed DEF WithTicket, Server
<1> QED
  BY <1>2, Typed DEF Serves, Server, WithTicket

LEMMA LinkedServes ==
  ASSUME PanelTypeOK, NEW call \in CallRow, call.about \in Nat, server' = Linked(call)
  PROVE  Serves(server.tickets, Attached(call), server.convs)
<1>1. Attached(call) \in [Files -> Nat]
  BY Typed DEF Attached, Server
<1>2. server' = [server EXCEPT !.linked = Attached(call)]
  BY DEF Linked, Attached
<1> QED
  BY <1>1, <1>2, Typed DEF Serves, Server

LEMMA CallTyped ==
  ASSUME PanelTypeOK, NEW s \in Slots
  PROVE  /\ calls[s] \in CallRow
         /\ calls[s].text \in Nat /\ calls[s].conv \in Nat
         /\ calls[s].kind # "upload" => calls[s].about \in Nat
         /\ calls[s].kind = "upload" => calls[s].about \in Files
BY DEF PanelTypeOK, CallsTyped, CallRow

LEMMA TellsEffect ==
  ASSUME PanelTypeOK, NEW s \in Slots, NEW t \in Nat, Succeeds(s, t),
         seen' = [seen EXCEPT !.revived = seen.revived \cup Revived(calls[s].conv)],
         UNCHANGED used, DrawnBusy
  PROVE  Tells(s)
<1>1. /\ Becomes("created", state.chat.question, 0, state.ticket)
      /\ Holds({}, FALSE, state.loading)
  BY Typed DEF Succeeds, Created, Finally, Go, Views, PanelState, Becomes, Holds
<1>2. Revived(calls[s].conv) \subseteq Nat
  BY CallTyped DEF Revived
<1>3. /\ Excuses(seen.typed, seen.spoilt, seen.retried, seen.revived \cup Revived(calls[s].conv))
      /\ SameWatched
  BY <1>2, Typed DEF Excuses, SameWatched, Watches, SeenRow
<1>4. ButtonDrawn
  BY Typed DEF ButtonDrawn, DrawnBusy
<1>5. Writes(0)
  BY Typed DEF Writes
<1> QED
  BY <1>1, <1>3, <1>4, <1>5 DEF Succeeds, Tells

LEMMA FailsEffect ==
  ASSUME PanelTypeOK, NEW s \in Slots, Fails(s), seen' = Doubtful({calls[s]}), Fault, DrawnBusy
  PROVE  /\ Ends(s)
         /\ draft' = calls[s].text
         /\ SameShown
         /\ Holds(state.pendingAttachments, FALSE, state.loading)
         /\ Excuses(seen.typed, seen.spoilt, seen.retried \cup {calls[s].text},
                    seen.revived \cup {calls[s].conv})
         /\ SameWatched
         /\ ButtonDrawn /\ Writes(0)
<1>1. SameShown /\ Holds(state.pendingAttachments, FALSE, state.loading)
  BY Typed DEF Fails, GivesBack, Finally, PanelState, SameShown, Becomes, Holds
<1> DEFINE retried == seen.retried \cup {calls[s].text}
           revived == seen.revived \cup {calls[s].conv}
<1>2. seen' = [seen EXCEPT !.retried = retried, !.revived = revived]
  BY DEF Doubtful
<1>3. retried \subseteq Nat /\ revived \subseteq Nat
  BY CallTyped, Typed DEF SeenRow
<1> HIDE DEF retried, revived
<1>5. Excuses(seen.typed, seen.spoilt, retried, revived) /\ SameWatched
  BY <1>2, <1>3, Typed DEF Excuses, SameWatched, Watches, SeenRow
<1>4. ButtonDrawn
  BY Typed DEF ButtonDrawn, DrawnBusy
<1> QED
  BY <1>1, <1>4, <1>5, FaultSpends DEF Fails, GivesBack, retried, revived

LEMMA RaiseEffect ==
  ASSUME PanelTypeOK, NEW s \in Slots, RaiseAnswered(s)
  PROVE  GoesOnToLink(s) \/ RaiseEnds(s) \/ SubmissionFails(s)
<1> DEFINE call == calls[s]
           with == [server EXCEPT !.tickets =
                                    Append(server.tickets,
                                           [text |-> call.text, conv |-> call.conv])]
           t == Len(server.tickets) + 1
           files == state.pendingAttachments
<1>1. call \in CallRow /\ call.kind = "raise" /\ t \in Nat
  BY CallTyped, Typed DEF RaiseAnswered, Server
<1>2. server' = with => Serves(WithTicket(call), server.linked, server.convs)
  BY <1>1, WithServes
<1>3. DrawnBusy /\ ButtonDrawn
  BY Typed DEF RaiseAnswered, ButtonDrawn, DrawnBusy
<1>4. CASE /\ server' = with
           /\ files = {}
           /\ Succeeds(s, t)
           /\ seen' = [seen EXCEPT !.revived = seen.revived \cup Revived(call.conv)]
           /\ UNCHANGED used
  BY <1>1, <1>2, <1>3, <1>4, TellsEffect DEF RaiseEnds
<1>5. CASE /\ server' = with
           /\ files # {}
           /\ calls' = [calls EXCEPT ![s] = Call("link", t, call.text, call.conv, files)]
           /\ UNCHANGED <<state, draft, seen, used>>
  <2>1. Writes(0)
    BY <1>5, Typed DEF Writes
  <2> QED
    BY <1>1, <1>2, <1>3, <1>5, <2>1 DEF GoesOnToLink
<1>6. CASE server' \in {server, with} /\ Fault /\ Fails(s) /\ seen' = Doubtful({call})
  BY <1>1, <1>2, <1>3, <1>6, FailsEffect DEF SubmissionFails
<1> QED
  BY <1>4, <1>5, <1>6 DEF RaiseAnswered

LEMMA LinkEffect ==
  ASSUME PanelTypeOK, NEW s \in Slots, LinkAnswered(s)
  PROVE  LinkEnds(s) \/ SubmissionFails(s)
<1> DEFINE call == calls[s]
<1>1. call \in CallRow /\ call.kind = "link" /\ call.about \in Nat
  BY CallTyped DEF LinkAnswered
<1>2. server' = Linked(call) => Serves(server.tickets, Attached(call), server.convs)
  BY <1>1, LinkedServes
<1>3. DrawnBusy
  BY DEF LinkAnswered
<1>4. CASE /\ server' = Linked(call)
           /\ Succeeds(s, call.about)
           /\ seen' = [seen EXCEPT !.revived = seen.revived \cup Revived(call.conv)]
           /\ UNCHANGED used
  BY <1>1, <1>2, <1>3, <1>4, TellsEffect DEF LinkEnds
<1>5. CASE server' \in {server, Linked(call)} /\ Fault /\ Fails(s) /\ seen' = Doubtful({call})
  BY <1>1, <1>2, <1>3, <1>5, FailsEffect DEF SubmissionFails
<1> QED
  BY <1>4, <1>5 DEF LinkAnswered

LEMMA LeaveEffect == ASSUME PanelTypeOK, LeavePage PROVE Leaves
<1> DEFINE raises == {calls[s] : s \in UnderWay({"raise"})}
           links == {calls[s] : s \in UnderWay({"link"})}
<1>1. /\ Fault
      /\ server' \in {server}
            \cup {[server EXCEPT !.tickets =
                                   Append(server.tickets,
                                          [text |-> c.text, conv |-> c.conv])] : c \in raises}
            \cup {Linked(c) : c \in links}
      /\ seen' = [Doubtful(raises \cup links) EXCEPT
            !.dropped = @ \cup state.pendingAttachments, !.listing = "never", !.opened = 0]
      /\ state' = Fresh("none")
      /\ \E first \in Slots : calls' = [s \in Slots |-> IF s = first THEN FirstBoot ELSE NoCall]
      /\ button' = TRUE
      /\ UNCHANGED draft
  BY DEF LeavePage
<1>2. \/ UNCHANGED server
      \/ \E s \in UnderWay({"raise"}) : Serves(WithTicket(calls[s]), server.linked, server.convs)
      \/ \E s \in UnderWay({"link"}) : Serves(server.tickets, Attached(calls[s]), server.convs)
  <2>1. CASE server' = server
    BY <2>1
  <2>2. ASSUME NEW s \in UnderWay({"raise"}),
               server' = [server EXCEPT !.tickets =
                                          Append(server.tickets,
                                                 [text |-> calls[s].text, conv |-> calls[s].conv])]
        PROVE  Serves(WithTicket(calls[s]), server.linked, server.convs)
    BY <2>2, CallTyped, WithServes DEF UnderWay
  <2>3. ASSUME NEW s \in UnderWay({"link"}), server' = Linked(calls[s])
        PROVE  Serves(server.tickets, Attached(calls[s]), server.convs)
    BY <2>3, CallTyped, LinkedServes DEF UnderWay
  <2> QED
    BY <1>1, <2>1, <2>2, <2>3
<1>3. /\ Becomes("home", 0, 0, 0) /\ Holds({}, FALSE, TRUE)
  BY <1>1 DEF Fresh, NoChat, Views, PanelState, Becomes, Holds
<1>4. calls' \in [Slots -> {NoCall, FirstBoot}]
  BY <1>1
<1> DEFINE retried == seen.retried \cup {calls[s].text : s \in UnderWay({"raise", "link"})}
           revived == seen.revived \cup {calls[s].conv : s \in UnderWay({"raise", "link"})}
           dropped == seen.dropped \cup state.pendingAttachments
<1>5. seen' = [seen EXCEPT !.retried = retried, !.revived = revived, !.dropped = dropped,
                           !.listing = "never", !.opened = 0]
  <2>1. /\ {c.text : c \in raises \cup links} = {calls[s].text : s \in UnderWay({"raise", "link"})}
        /\ {c.conv : c \in raises \cup links} = {calls[s].conv : s \in UnderWay({"raise", "link"})}
    BY DEF UnderWay
  <2>2. Doubtful(raises \cup links) = [seen EXCEPT !.retried = retried, !.revived = revived]
    BY <2>1 DEF Doubtful
  <2> HIDE DEF raises, links, retried, revived
  <2> QED
    BY <1>1, <2>2, Typed DEF SeenRow
<1>6. retried \subseteq Nat /\ revived \subseteq Nat /\ dropped \subseteq Files
  BY CallTyped, Typed DEF UnderWay, SeenRow
<1> HIDE DEF retried, revived, dropped
<1>7. /\ Excuses(seen.typed, seen.spoilt, retried, revived)
      /\ Watches(seen.taken, dropped, "never", 0, seen.muddled)
  BY <1>5, <1>6, Typed DEF Excuses, Watches, SeenRow
<1> QED
  BY <1>1, <1>2, <1>3, <1>4, <1>7, FaultSpends DEF Leaves, retried, revived, dropped

(* Every step of the panel is one of these.                                 *)
Effect ==
  \/ Turns \/ Escalates \/ Types \/ Leaves \/ \E f \in Files : DropsFile(f)
  \/ \E s \in Slots :
       \/ \E kind \in Loading : StartsLoading(s, kind)
       \/ \E call \in CallRow : StartsQuietly(s, call) \/ Submits(s, call)
       \/ \E kind \in Opening, t \in Nat : Opens(s, kind, t)
       \/ Asks(s) \/ LoadingEnds(s) \/ AskEnds(s) \/ QuietEnds(s) \/ UploadEnds(s) \/ OpeningEnds(s)
       \/ GoesOnToLink(s) \/ RaiseEnds(s) \/ LinkEnds(s) \/ SubmissionFails(s)

(* Another field than the description is typed in.                          *)
Stays == UNCHANGED <<state, draft, button, calls, server, seen, used>>

LEMMA NextEffect == ASSUME PanelTypeOK, Next PROVE Effect \/ Stays
<1>1. ASSUME NEW list \in Lists, LoadList(list)
      PROVE  Effect
  BY <1>1, LoadListStarts DEF Effect, Loading
<1>2. ASSUME NEW view \in Views, Shows(view)
      PROVE  Effect
  BY <1>2, ShowsTurns DEF Effect
<1>3. CASE DeepLink
  BY <1>3, DeepLinkEffect DEF Effect, Loading
<1>4. CASE Boot
  BY <1>4, BootStarts DEF Effect, Loading
<1>5. CASE Tile
  BY <1>5, <1>1, <1>2 DEF Tile, Views
<1>6. CASE SearchDocs
  BY <1>6, <1>1 DEF SearchDocs, Lists
<1>7. CASE Back
  BY <1>7, <1>2 DEF Back, Views
<1>8. CASE Restart
  BY <1>8, RestartTurns DEF Effect
<1>9. CASE DoAsk
  BY <1>9, AskEffect DEF Effect
<1>10. CASE Escalate
  BY <1>10, EscalateEffect DEF Effect
<1>11. CASE Type
  BY <1>11, TypeEffect DEF Effect
<1>18. CASE \E field \in TypedIn : Enter(field)
  BY <1>18 DEF Enter, Stays
<1>12. CASE SubmitTicket \/ SubmitReply
  BY <1>12, SubmitEffect DEF Effect
<1>13. CASE \E f \in Files : Upload(f) \/ RemoveFile(f)
  BY <1>13, UploadEffect, RemoveFileEffect DEF Effect
<1>14. CASE OpenTicket
  BY <1>14, OpenTicketEffect DEF Effect, Opening
<1>15. CASE OpenArticle
  BY <1>15, OpenArticleEffect DEF Effect
<1>16. CASE LeavePage
  BY <1>16, LeaveEffect DEF Effect
<1>17. ASSUME NEW s \in Slots, Answer(s)
       PROVE  Effect
  <2>1. CASE ConfigAnswered(s) \/ ListAnswered(s)
    BY <2>1, ConfigEffect, ListEffect DEF Effect
  <2>2. CASE AskAnswered(s)
    BY <2>2, AskAnsweredEffect DEF Effect
  <2>3. CASE ArticleAnswered(s) \/ UploadAnswered(s)
    BY <2>3, ArticleEffect, UploadAnsweredEffect DEF Effect
  <2>4. CASE TicketAnswered(s) \/ ReplyAnswered(s)
    BY <2>4, TicketEffect, ReplyEffect, Typed DEF Effect, Opening
  <2>5. CASE RaiseAnswered(s) \/ LinkAnswered(s)
    BY <2>5, RaiseEffect, LinkEffect DEF Effect
  <2> QED
    BY <1>17, <2>1, <2>2, <2>3, <2>4, <2>5 DEF Answer
<1> QED
  BY <1>3, <1>4, <1>5, <1>6, <1>7, <1>8, <1>9, <1>10, <1>11, <1>12, <1>13, <1>14, <1>15, <1>16,
     <1>17, <1>18 DEF Next, UserStep

-----------------------------------------------------------------------------
(* Types.                                                                   *)

LEMMA NoCallTyped ==
  /\ NoCall \in CallRow /\ NoCall.kind = "none" /\ NoCall.about = 0 /\ NoCall.text = 0
  /\ NoCall.conv = 0
  /\ FirstBoot \in CallRow /\ FirstBoot.kind = "config" /\ FirstBoot.about = 1 /\ FirstBoot.text = 0
  /\ FirstBoot.conv = 0
BY DEF NoCall, FirstBoot, Call, CallRow, Kinds, Loading

LEMMA OneCall ==
  ASSUME PanelTypeOK, NEW s \in Slots, NEW call \in CallRow,
         IF call.kind = "upload" THEN call.about \in Files ELSE call.about \in Nat,
         calls' = [calls EXCEPT ![s] = call]
  PROVE  CallsTyped'
BY DEF PanelTypeOK, CallsTyped

LEMMA OneEnds == ASSUME PanelTypeOK, NEW s \in Slots, Ends(s) PROVE CallsTyped'
<1>1. IF NoCall.kind = "upload" THEN NoCall.about \in Files ELSE NoCall.about \in Nat
  BY NoCallTyped
<1> QED
  BY <1>1, OneCall, NoCallTyped DEF Ends

LEMMA EffectTyped == ASSUME PanelTypeOK, Effect PROVE PanelTypeOK'
<1>0. PanelState = PanelState' /\ Server = Server' /\ SeenRow = SeenRow' /\ Used = Used'
  BY DEF PanelState, Server, SeenRow, Used
<1> USE Typed DEF PanelTypeOK
<1>1. CASE Turns
  BY <1>1 DEF Turns, Becomes, Writes, ButtonDrawn, CallsTyped
<1>2. CASE Escalates
  BY <1>2 DEF Escalates, Becomes, Excuses, Writes, ButtonDrawn, CallsTyped
<1>3. CASE Types
  BY <1>3 DEF Types, Excuses, Writes, CallsTyped
<1>4. CASE Leaves
  <2>1. CallsTyped'
    BY <1>4, NoCallTyped DEF Leaves, CallsTyped
  <2> QED
    BY <1>4, <2>1 DEF Leaves, Serves, Becomes, Excuses, Writes
<1>5. ASSUME NEW f \in Files, DropsFile(f)
      PROVE  PanelTypeOK'
  BY <1>5 DEF DropsFile, SameShown, Becomes, SameExcuses, Excuses, Writes, ButtonDrawn, CallsTyped
<1>6. ASSUME NEW s \in Slots, NEW kind \in Loading, StartsLoading(s, kind)
      PROVE  PanelTypeOK'
  <2>1. Simple(kind) \in CallRow /\ Simple(kind).kind # "upload" /\ Simple(kind).about \in Nat
    BY DEF Simple, Call, CallRow, Kinds, Loading, Lists
  <2>2. CallsTyped'
    BY <1>6, <2>1, OneCall DEF StartsLoading, Begins
  <2> QED
    BY <1>6, <2>2 DEF StartsLoading, Becomes, SameExcuses, Excuses, Writes, ButtonDrawn
<1>7. ASSUME NEW s \in Slots, NEW call \in CallRow, StartsQuietly(s, call)
      PROVE  PanelTypeOK'
  <2>1. IF call.kind = "upload" THEN call.about \in Files ELSE call.about \in Nat
    BY <1>7 DEF StartsQuietly
  <2>2. CallsTyped'
    BY <1>7, <2>1, OneCall DEF StartsQuietly, Begins
  <2> QED
    BY <1>7, <2>2 DEF StartsQuietly, Becomes, Writes, ButtonDrawn
<1>8. ASSUME NEW s \in Slots, NEW call \in CallRow, Submits(s, call)
      PROVE  PanelTypeOK'
  <2>1. call.kind # "upload" /\ call.about \in Nat
    BY <1>8 DEF Submits, Call
  <2>2. CallsTyped'
    BY <1>8, <2>1, OneCall DEF Submits, Begins
  <2> QED
    BY <1>8, <2>2 DEF Submits, SameShown, Becomes, Writes
<1>9. ASSUME NEW s \in Slots, NEW kind \in Opening, NEW t \in Nat, Opens(s, kind, t)
      PROVE  PanelTypeOK'
  <2> DEFINE call == Call(kind, t, 0, 0, {})
  <2>1. call \in CallRow /\ call.kind # "upload" /\ call.about \in Nat
    BY DEF Call, CallRow, Kinds, Opening
  <2>2. CallsTyped'
    BY <1>9, <2>1, OneCall DEF Opens
  <2> QED
    BY <1>9, <2>2 DEF Opens, Becomes, SameExcuses, Excuses, Writes, ButtonDrawn
<1>10. ASSUME NEW s \in Slots, Asks(s)
       PROVE  PanelTypeOK'
  <2> DEFINE call == Call("ask", 0, 0, state.conversationId, {})
  <2>1. call \in CallRow /\ call.kind # "upload" /\ call.about \in Nat
    BY DEF Call, CallRow, Kinds
  <2>2. CallsTyped'
    BY <1>10, <2>1, OneCall DEF Asks, Begins
  <2> QED
    BY <1>10, <2>2 DEF Asks, Becomes, Writes, ButtonDrawn
<1>11. ASSUME NEW s \in Slots, LoadingEnds(s)
       PROVE  PanelTypeOK'
  BY <1>11, OneEnds DEF LoadingEnds, SameShown, Becomes, SameExcuses, Excuses, Writes, ButtonDrawn
<1>12. ASSUME NEW s \in Slots, AskEnds(s)
       PROVE  PanelTypeOK'
  BY <1>12, OneEnds DEF AskEnds, Serves, Becomes, Writes, ButtonDrawn
<1>13. ASSUME NEW s \in Slots, QuietEnds(s) \/ OpeningEnds(s)
       PROVE  PanelTypeOK'
  BY <1>13, OneEnds DEF QuietEnds, OpeningEnds, SameShown, Becomes, Writes, ButtonDrawn
<1>14. ASSUME NEW s \in Slots, UploadEnds(s)
       PROVE  PanelTypeOK'
  BY <1>14, OneEnds DEF UploadEnds, SameShown, Becomes, SameExcuses, Excuses, Writes, ButtonDrawn
<1>15. ASSUME NEW s \in Slots, GoesOnToLink(s)
       PROVE  PanelTypeOK'
  <2> DEFINE call == Call("link", Len(server.tickets) + 1, calls[s].text, calls[s].conv,
                          state.pendingAttachments)
  <2>1. call \in CallRow /\ call.kind # "upload" /\ call.about \in Nat
    BY CallTyped DEF Call, CallRow, Kinds, Server
  <2>2. CallsTyped'
    BY <1>15, <2>1, OneCall DEF GoesOnToLink
  <2> QED
    BY <1>15, <2>2 DEF GoesOnToLink, Serves, Writes, ButtonDrawn
<1>16. ASSUME NEW s \in Slots, RaiseEnds(s) \/ LinkEnds(s)
       PROVE  PanelTypeOK'
  <2>1. Tells(s) /\ server' \in Server
    BY <1>16 DEF RaiseEnds, LinkEnds, Serves
  <2>2. CallsTyped'
    BY <2>1, OneEnds DEF Tells
  <2> QED
    BY <2>1, <2>2 DEF Tells, Becomes, Excuses, Writes, ButtonDrawn
<1>17. ASSUME NEW s \in Slots, SubmissionFails(s)
       PROVE  PanelTypeOK'
  BY <1>17, OneEnds, CallTyped DEF SubmissionFails, Serves, SameShown, Becomes, Excuses,
                                   Writes, ButtonDrawn
<1> QED
  BY <1>1, <1>2, <1>3, <1>4, <1>5, <1>6, <1>7, <1>8, <1>9, <1>10, <1>11, <1>12, <1>13, <1>14,
     <1>15, <1>16, <1>17 DEF Effect

-----------------------------------------------------------------------------
(* The steps that are not about a submission.                               *)

Chats ==
  \/ /\ Writes(0)
     /\ state'.chat.question \in {0, state.chat.question}
     /\ state'.view = "ask" /\ state'.chat.question # 0 => state.view = "ask"
  \/ Writes(1) /\ state'.chat.question = used.texts + 1

Converses ==
  /\ server'.convs \in Nat /\ server.convs <= server'.convs
  /\ \/ state'.conversationId \in {0, state.conversationId}
     \/ state'.conversationId = server.convs + 1 /\ server.convs < server'.convs
     \/ \E u \in UnderWay({"ask"}) : state'.conversationId = calls[u].conv

Attaches ==
  /\ seen.dropped \subseteq seen'.dropped
  /\ seen'.taken \subseteq seen.taken \cup state'.pendingAttachments
  /\ state.pendingAttachments \subseteq state'.pendingAttachments \cup seen'.dropped
  /\ UnderWay({"link"}) # {} =>
       state'.pendingAttachments \subseteq state.pendingAttachments \cup seen'.dropped

SameSubmissions ==
  \A u \in Slots :
    \/ calls'[u] = calls[u]
    \/ /\ calls[u].kind \notin {"raise", "link"} /\ calls'[u].kind \notin {"raise", "link"}
       /\ calls'[u].text = 0 /\ calls'[u].conv \in {0, state.conversationId}

Aside ==
  /\ UNCHANGED draft
  /\ server'.tickets = server.tickets /\ server'.linked = server.linked
  /\ SameExcuses
  /\ SameSubmissions
  /\ Chats /\ Converses /\ Attaches

LEMMA OthersSame ==
  ASSUME PanelTypeOK, NEW s \in Slots, NEW call, calls' = [calls EXCEPT ![s] = call],
         calls[s].kind \notin {"raise", "link"}, call.kind \notin {"raise", "link"},
         call.text = 0, call.conv \in {0, state.conversationId}
  PROVE  SameSubmissions
BY DEF PanelTypeOK, CallsTyped, SameSubmissions

LEMMA OtherEnds ==
  ASSUME PanelTypeOK, NEW s \in Slots, Ends(s), calls[s].kind \notin {"raise", "link"}
  PROVE  SameSubmissions
BY OthersSame, NoCallTyped DEF Ends

LEMMA SameServer ==
  ASSUME PanelTypeOK, UNCHANGED server
  PROVE  /\ server'.tickets = server.tickets /\ server'.linked = server.linked
         /\ server'.convs = server.convs /\ server'.convs \in Nat
         /\ state'.conversationId \in {0, state.conversationId} => Converses
BY Typed DEF Converses

LEMMA SameSeen == ASSUME PanelTypeOK, UNCHANGED seen PROVE SameExcuses /\ SameWatched
BY Typed DEF SameExcuses, Excuses, SameWatched, Watches

(* A step that begins a call that is no submission.                         *)
LEMMA BeginsAside ==
  ASSUME PanelTypeOK, NEW s \in Slots, NEW call, Begins(s, call),
         call.kind \notin {"raise", "link"},
         call.text = 0, call.conv \in {0, state.conversationId}
  PROVE  SameSubmissions
BY OthersSame, NoCallTyped DEF Begins

LEMMA SameFiles ==
  ASSUME state'.pendingAttachments = state.pendingAttachments,
         seen'.taken = seen.taken, seen'.dropped = seen.dropped
  PROVE  Attaches
BY DEF Attaches

LEMMA SameChat ==
  ASSUME Writes(0), state'.chat.question = state.chat.question,
         state'.view = "ask" => state.view = "ask"
  PROVE  Chats
BY DEF Chats

LEMMA TurnsAside == ASSUME PanelTypeOK, Turns PROVE Aside
<1>1. SameSubmissions
  BY DEF Turns, SameSubmissions
<1>2. Chats /\ Converses
  BY SameServer DEF Turns, Becomes, Chats
<1>3. Attaches
  BY SameFiles DEF Turns, SameHeld, Holds
<1> QED
  BY <1>1, <1>2, <1>3, SameServer, SameSeen DEF Turns, Aside

LEMMA DropsAside == ASSUME PanelTypeOK, NEW f \in Files, DropsFile(f) PROVE Aside
<1>1. SameSubmissions
  BY DEF DropsFile, SameSubmissions
<1>2. Chats /\ Converses
  BY SameServer, SameChat DEF DropsFile, SameShown, Becomes
<1>3. Attaches
  BY DEF DropsFile, Holds, Watches, Attaches
<1> QED
  BY <1>1, <1>2, <1>3, SameServer DEF DropsFile, Aside

LEMMA StartsLoadingAside ==
  ASSUME PanelTypeOK, NEW s \in Slots, NEW kind \in Loading, StartsLoading(s, kind)
  PROVE  Aside
<1>1. SameSubmissions
  <2>1. /\ Simple(kind).kind \notin {"raise", "link"} /\ Simple(kind).text = 0
        /\ Simple(kind).conv = 0
    BY DEF Simple, Call, Loading, Lists
  <2> QED
    BY <2>1, BeginsAside DEF StartsLoading
<1>2. Chats /\ Converses
  BY SameServer, SameChat DEF StartsLoading, Becomes
<1>3. Attaches
  BY SameFiles DEF StartsLoading, Holds, Watches
<1> QED
  BY <1>1, <1>2, <1>3, SameServer DEF StartsLoading, Aside

LEMMA StartsQuietlyAside ==
  ASSUME PanelTypeOK, NEW s \in Slots, NEW call \in CallRow, StartsQuietly(s, call)
  PROVE  Aside
<1>1. SameSubmissions
  BY BeginsAside DEF StartsQuietly
<1>2. Chats /\ Converses
  BY SameServer, SameChat DEF StartsQuietly, Becomes
<1>3. Attaches
  BY SameFiles, SameSeen DEF StartsQuietly, SameHeld, Holds, SameWatched, Watches
<1> QED
  BY <1>1, <1>2, <1>3, SameServer, SameSeen DEF StartsQuietly, Aside

LEMMA AsksAside == ASSUME PanelTypeOK, NEW s \in Slots, Asks(s) PROVE Aside
<1>1. SameSubmissions
  BY BeginsAside DEF Asks, Call
<1>2. Chats /\ Converses
  BY SameServer DEF Asks, Becomes, Chats
<1>3. Attaches
  BY SameFiles, SameSeen DEF Asks, SameHeld, Holds, SameWatched, Watches
<1> QED
  BY <1>1, <1>2, <1>3, SameServer, SameSeen DEF Asks, Aside

LEMMA RepliesAside ==
  ASSUME PanelTypeOK, NEW s \in Slots, NEW call \in CallRow, Submits(s, call), call.kind # "raise"
  PROVE  Aside
<1>1. SameSubmissions
  <2>1. call.kind = "reply" /\ call.text = 0 /\ call.conv = 0
    BY DEF Submits, Call
  <2> QED
    BY <2>1, BeginsAside DEF Submits
<1>2. Chats /\ Converses
  BY SameServer, SameChat DEF Submits, SameShown, Becomes
<1>3. Attaches
  BY SameFiles, SameSeen DEF Submits, Holds, SameWatched, Watches
<1> QED
  BY <1>1, <1>2, <1>3, SameServer, SameSeen DEF Submits, Aside

LEMMA OpensAside ==
  ASSUME PanelTypeOK, NEW s \in Slots, NEW kind \in Opening, NEW t \in Nat, Opens(s, kind, t)
  PROVE  Aside
<1>1. SameSubmissions
  <2> DEFINE call == Call(kind, t, 0, 0, {})
  <2>1. call.kind \notin {"raise", "link"} /\ call.text = 0 /\ call.conv = 0
    BY DEF Call, Opening
  <2>2. calls[s].kind \notin {"raise", "link"}
    BY NoCallTyped DEF Opens
  <2> QED
    BY <2>1, <2>2, OthersSame DEF Opens
<1>2. Chats /\ Converses
  BY SameServer, SameChat DEF Opens, Becomes
<1>3. Attaches
  BY SameFiles DEF Opens, SameHeld, Holds, Watches
<1> QED
  BY <1>1, <1>2, <1>3, SameServer DEF Opens, Aside

LEMMA LoadingEndsAside == ASSUME PanelTypeOK, NEW s \in Slots, LoadingEnds(s) PROVE Aside
<1>1. SameSubmissions
  BY OtherEnds DEF LoadingEnds, Loading, Lists
<1>2. Chats /\ Converses
  BY SameServer, SameChat DEF LoadingEnds, SameShown, Becomes
<1>3. Attaches
  BY SameFiles DEF LoadingEnds, Holds, Watches
<1> QED
  BY <1>1, <1>2, <1>3, SameServer DEF LoadingEnds, Aside

LEMMA AskEndsAside == ASSUME PanelTypeOK, NEW s \in Slots, AskEnds(s) PROVE Aside
<1>1. SameSubmissions
  BY OtherEnds DEF AskEnds
<1>2. Chats
  BY SameChat DEF AskEnds, Becomes
<1>3. server'.tickets = server.tickets /\ server'.linked = server.linked
  BY SameServer DEF AskEnds, Serves
<1>4. Converses
  <2>1. PICK conv \in Nat :
         /\ \/ conv = state.conversationId /\ UNCHANGED server
            \/ /\ conv = IF calls[s].conv = 0 THEN server.convs + 1 ELSE calls[s].conv
               /\ Serves(server.tickets, server.linked,
                         IF conv > server.convs THEN conv ELSE server.convs)
         /\ state'.conversationId = conv
    BY DEF AskEnds, Becomes
  <2>2. CASE conv = state.conversationId /\ UNCHANGED server
    BY <2>1, <2>2, SameServer
  <2>3. CASE /\ conv = IF calls[s].conv = 0 THEN server.convs + 1 ELSE calls[s].conv
             /\ Serves(server.tickets, server.linked,
                       IF conv > server.convs THEN conv ELSE server.convs)
    <3>1. s \in UnderWay({"ask"})
      BY DEF AskEnds, UnderWay
    <3> QED
      BY <2>1, <2>3, <3>1, Typed DEF Serves, Converses
  <2> QED
    BY <2>1, <2>2, <2>3
<1>5. Attaches
  BY SameFiles, SameSeen DEF AskEnds, SameHeld, Holds, SameWatched, Watches
<1> QED
  BY <1>1, <1>2, <1>3, <1>4, <1>5, SameSeen DEF AskEnds, Aside

LEMMA QuietEndsAside == ASSUME PanelTypeOK, NEW s \in Slots, QuietEnds(s) PROVE Aside
<1>1. SameSubmissions
  BY OtherEnds DEF QuietEnds
<1>2. Chats /\ Converses
  BY SameServer, SameChat DEF QuietEnds, SameShown, Becomes
<1>3. Attaches
  BY SameFiles, SameSeen DEF QuietEnds, SameHeld, Holds, SameWatched, Watches
<1> QED
  BY <1>1, <1>2, <1>3, SameServer, SameSeen DEF QuietEnds, Aside

LEMMA UploadEndsAside == ASSUME PanelTypeOK, NEW s \in Slots, UploadEnds(s) PROVE Aside
<1>1. SameSubmissions
  BY OtherEnds DEF UploadEnds
<1>2. Chats /\ Converses
  BY SameServer, SameChat DEF UploadEnds, SameShown, Becomes
<1>3. Attaches
  BY DEF UploadEnds, Holds, Watches, Attaches
<1> QED
  BY <1>1, <1>2, <1>3, SameServer DEF UploadEnds, Aside

LEMMA OpeningEndsAside == ASSUME PanelTypeOK, NEW s \in Slots, OpeningEnds(s) PROVE Aside
<1>1. SameSubmissions
  BY OtherEnds DEF OpeningEnds, Opening
<1>2. Chats /\ Converses
  BY SameServer, SameChat DEF OpeningEnds, Becomes
<1>3. Attaches
  BY SameFiles, SameSeen DEF OpeningEnds, Holds, SameWatched, Watches
<1> QED
  BY <1>1, <1>2, <1>3, SameServer, SameSeen DEF OpeningEnds, Aside

-----------------------------------------------------------------------------
(* Submissions.                                                             *)

(* A submission is over; told is what the user has left of its text.        *)
Settles(s) == RaiseEnds(s) \/ LinkEnds(s) \/ SubmissionFails(s)

SubmissionStep ==
  \/ Escalates \/ Types \/ Leaves
  \/ \E s \in Slots : \/ Submits(s, Call("raise", 0, draft, state.conversationId, {}))
                      \/ GoesOnToLink(s) \/ Settles(s)

LEMMA EffectAside == ASSUME PanelTypeOK, Effect PROVE Aside \/ SubmissionStep
<1>1. ASSUME NEW s \in Slots, NEW call \in CallRow, Submits(s, call)
      PROVE  Aside \/ SubmissionStep
  <2>1. call = Call("raise", 0, draft, state.conversationId, {}) \/ call.kind # "raise"
    BY <1>1 DEF Submits, Call
  <2> QED
    BY <1>1, <2>1, RepliesAside DEF SubmissionStep
<1>2. ASSUME NEW s \in Slots, NEW call \in CallRow, StartsQuietly(s, call)
      PROVE  Aside
  BY <1>2, StartsQuietlyAside
<1>3. ASSUME NEW s \in Slots, NEW kind \in Loading, StartsLoading(s, kind)
      PROVE  Aside
  BY <1>3, StartsLoadingAside
<1>4. ASSUME NEW s \in Slots, NEW kind \in Opening, NEW t \in Nat, Opens(s, kind, t)
      PROVE  Aside
  BY <1>4, OpensAside
<1>5. ASSUME NEW s \in Slots,
             \/ Asks(s) \/ LoadingEnds(s) \/ AskEnds(s) \/ QuietEnds(s) \/ UploadEnds(s)
             \/ OpeningEnds(s)
      PROVE  Aside
  BY <1>5, AsksAside, LoadingEndsAside, AskEndsAside, QuietEndsAside, UploadEndsAside,
     OpeningEndsAside
<1>6. ASSUME NEW f \in Files, DropsFile(f)
      PROVE  Aside
  BY <1>6, DropsAside
<1> QED
  BY <1>1, <1>2, <1>3, <1>4, <1>5, <1>6, TurnsAside DEF Effect, SubmissionStep, Settles

LEMMA TicketAdded ==
  ASSUME PanelTypeOK, NEW call \in CallRow, server'.tickets = WithTicket(call)
  PROVE  \E n \in Nat :
           /\ n # 0 /\ n = Len(server.tickets) + 1
           /\ Raised' = Raised \cup {n} /\ n \notin Raised
           /\ server'.tickets[n].text = call.text /\ server'.tickets[n].conv = call.conv
           /\ server'.tickets[n] = [text |-> call.text, conv |-> call.conv]
           /\ \A i \in Raised : server'.tickets[i] = server.tickets[i]
<1> DEFINE ticket == [text |-> call.text, conv |-> call.conv]
           n == Len(server.tickets) + 1
<1>1. server.tickets \in Seq([text : Nat, conv : Nat])
  BY Typed DEF Server
<1>2. ticket \in [text : Nat, conv : Nat]
  BY DEF CallRow
<1>3. /\ server'.tickets = Append(server.tickets, ticket)
      /\ ticket.text = call.text /\ ticket.conv = call.conv
  BY DEF WithTicket
<1> HIDE DEF ticket
<1>4. /\ n \in Nat /\ n # 0
      /\ DOMAIN server'.tickets = DOMAIN server.tickets \cup {n} /\ n \notin DOMAIN server.tickets
  BY <1>1, <1>2, <1>3
<1>5. /\ server'.tickets[n] = ticket
      /\ \A i \in DOMAIN server.tickets : server'.tickets[i] = server.tickets[i]
  BY <1>1, <1>2, <1>3
<1>6. Raised' = Raised \cup {n} /\ n \notin Raised
  BY <1>4 DEF Raised
<1> QED
  BY <1>3, <1>4, <1>5, <1>6 DEF Raised, ticket

LEMMA Elements ==
  ASSUME NEW S, NEW q \in Seq(S), NEW i \in DOMAIN q
  PROVE  i \in Nat /\ i # 0 /\ q[i] \in S
<1>1. DOMAIN q = 1..Len(q) /\ Len(q) \in Nat
  OBVIOUS
<1> QED
  BY <1>1

LEMMA RaisedTyped ==
  ASSUME PanelTypeOK, NEW i \in Raised
  PROVE  i \in Nat /\ i # 0 /\ server.tickets[i].text \in Nat /\ server.tickets[i].conv \in Nat
<1>1. server.tickets \in Seq([text : Nat, conv : Nat]) /\ i \in DOMAIN server.tickets
  BY Typed DEF Server, Raised
<1>2. i \in Nat /\ i # 0 /\ server.tickets[i] \in [text : Nat, conv : Nat]
  BY <1>1, Elements
<1> QED
  BY <1>2

(* Nothing is submitted any more, and the other calls are as they were.     *)
Quiet ==
  \A u \in Slots :
    /\ calls'[u].kind \notin {"raise", "link"}
    /\ calls'[u] = calls[u] \/ (calls'[u].text = 0 /\ calls'[u].conv = 0)

LEMMA SettlesQuiet ==
  ASSUME PanelTypeOK, OnePress, NEW s \in Slots, Settles(s)
  PROVE  /\ Quiet /\ calls[s].kind \in {"raise", "link"}
         /\ \A u \in Slots \ {s} : calls'[u] = calls[u] /\ calls[u].kind \notin {"raise", "link"}
         /\ \/ UNCHANGED server
            \/ /\ calls[s].kind = "raise" /\ server'.tickets = WithTicket(calls[s])
               /\ server'.linked = server.linked /\ server'.convs = server.convs
            \/ /\ calls[s].kind = "link" /\ server'.tickets = server.tickets
               /\ server'.linked = Attached(calls[s]) /\ server'.convs = server.convs
<1>1. Ends(s) /\ calls[s].kind \in {"raise", "link"}
  BY DEF Settles, RaiseEnds, LinkEnds, SubmissionFails, Tells
<1>2. \A u \in Slots \ {s} : calls'[u] = calls[u]
  BY <1>1 DEF PanelTypeOK, CallsTyped, Ends
<1>3. calls'[s] = NoCall
  BY <1>1 DEF PanelTypeOK, CallsTyped, Ends
<1>4. \A u \in Slots \ {s} : calls[u].kind \notin {"raise", "link"}
  BY <1>1 DEF OnePress, UnderWay, Pressing
<1>5. Quiet
  BY <1>2, <1>3, <1>4, NoCallTyped DEF Quiet
<1> QED
  BY <1>1, <1>2, <1>4, <1>5 DEF Settles, RaiseEnds, LinkEnds, SubmissionFails, Serves

(* The form a submission that is over leaves: empty, or given back for cause. *)
LEMMA SettlesForm ==
  ASSUME PanelTypeOK, NEW s \in Slots, Settles(s)
  PROVE  /\ used'.texts = used.texts
         /\ state'.chat.question = state.chat.question
         /\ state'.view \in {state.view, "created"}
         /\ seen'.typed = seen.typed /\ seen'.spoilt = seen.spoilt
         /\ seen.retried \subseteq seen'.retried /\ seen.revived \subseteq seen'.revived
         /\ SameWatched
         /\ \/ /\ draft' = calls[s].text /\ state'.conversationId = state.conversationId
               /\ calls[s].text \in seen'.retried /\ calls[s].conv \in seen'.revived
               /\ state'.pendingAttachments = state.pendingAttachments
            \/ /\ draft' = 0 /\ state'.conversationId = 0
               /\ Revived(calls[s].conv) \subseteq seen'.revived
               /\ state'.pendingAttachments = {}
               /\ \/ server'.tickets = WithTicket(calls[s]) /\ state.pendingAttachments = {}
                  \/ /\ calls[s].kind = "link" /\ server'.tickets = server.tickets
                     /\ server'.linked = Attached(calls[s])
<1>1. CASE RaiseEnds(s) \/ LinkEnds(s)
  <2>1. /\ Tells(s)
        /\ \/ server'.tickets = WithTicket(calls[s]) /\ state.pendingAttachments = {}
           \/ /\ calls[s].kind = "link" /\ server'.tickets = server.tickets
              /\ server'.linked = Attached(calls[s])
    BY <1>1 DEF RaiseEnds, LinkEnds, Serves
  <2> QED
    BY <2>1, Typed DEF Tells, Becomes, Holds, Excuses, Writes
<1>2. CASE SubmissionFails(s)
  BY <1>2, Typed DEF SubmissionFails, SameShown, Becomes, Holds, Excuses, Writes
<1> QED
  BY <1>1, <1>2 DEF Settles

LEMMA LeavesQuiet ==
  ASSUME PanelTypeOK, Leaves
  PROVE  /\ Quiet
         /\ \/ UNCHANGED server
            \/ \E s \in UnderWay({"raise"}) :
                 /\ server'.tickets = WithTicket(calls[s])
                 /\ server'.linked = server.linked /\ server'.convs = server.convs
            \/ \E s \in UnderWay({"link"}) :
                 /\ server'.tickets = server.tickets
                 /\ server'.linked = Attached(calls[s]) /\ server'.convs = server.convs
<1>1. Quiet
  BY NoCallTyped DEF Leaves, Quiet
<1> QED
  BY <1>1 DEF Leaves, Serves

-----------------------------------------------------------------------------
LEMMA WithTexts ==
  ASSUME PanelTypeOK, TextsSoFar, NEW s \in Slots, server'.tickets = WithTicket(calls[s])
  PROVE  \A i \in Raised' : server'.tickets[i].text <= used.texts
<1>1. PICK n \in Nat :
        /\ Raised' = Raised \cup {n}
        /\ server'.tickets[n].text = calls[s].text
        /\ \A i \in Raised : server'.tickets[i] = server.tickets[i]
  BY CallTyped, TicketAdded
<1> QED
  BY <1>1 DEF TextsSoFar

LEMMA TextsSoFarStep ==
  ASSUME PanelTypeOK, OnePress, TextsSoFar, Effect
  PROVE  TextsSoFar'
<1> USE Typed, CallTyped, RaisedTyped
<1>0. Aside \/ SubmissionStep
  BY EffectAside
<1>1. CASE Aside
  <2>1. used'.texts \in Nat /\ used'.texts >= used.texts /\ state'.chat.question <= used'.texts
    BY <1>1 DEF Aside, Chats, Writes, TextsSoFar
  <2>2. draft' <= used'.texts
    BY <1>1, <2>1 DEF Aside, TextsSoFar, PanelTypeOK
  <2>3. \A s \in Slots : calls'[s].text <= used'.texts
    BY <1>1, <2>1 DEF Aside, SameSubmissions, TextsSoFar
  <2>4. \A i \in Raised' : server'.tickets[i].text <= used'.texts
    BY <1>1, <2>1 DEF Aside, Raised, TextsSoFar
  <2> QED
    BY <2>1, <2>2, <2>3, <2>4 DEF TextsSoFar
<1>2. CASE Escalates
  BY <1>2 DEF Escalates, Becomes, Writes, Raised, TextsSoFar
<1>3. CASE Types
  BY <1>3 DEF Types, Writes, Raised, TextsSoFar
<1>4. ASSUME NEW s \in Slots, Submits(s, Call("raise", 0, draft, state.conversationId, {}))
      PROVE  TextsSoFar'
  <2>1. \A u \in Slots : calls'[u].text \in {calls[u].text, draft}
    BY <1>4 DEF Submits, Begins, Call, PanelTypeOK, CallsTyped
  <2> QED
    BY <1>4, <2>1 DEF Submits, SameShown, Becomes, Writes, Raised, TextsSoFar
<1>5. ASSUME NEW s \in Slots, GoesOnToLink(s)
      PROVE  TextsSoFar'
  <2>1. \A u \in Slots : calls'[u].text = calls[u].text
    BY <1>5 DEF GoesOnToLink, Call, PanelTypeOK, CallsTyped
  <2>2. \A i \in Raised' : server'.tickets[i].text <= used.texts
    BY <1>5, WithTexts DEF GoesOnToLink, Serves
  <2> QED
    BY <1>5, <2>1, <2>2 DEF GoesOnToLink, Writes, TextsSoFar
<1>6. ASSUME NEW s \in Slots, Settles(s)
      PROVE  TextsSoFar'
  <2>1. \A u \in Slots : calls'[u].text <= used.texts
    BY <1>6, SettlesQuiet DEF Quiet, TextsSoFar
  <2>2. \A i \in Raised' : server'.tickets[i].text <= used.texts
    BY <1>6, SettlesQuiet, WithTexts DEF TextsSoFar, Raised
  <2>3. /\ draft' \in {0, calls[s].text} /\ state'.chat.question = state.chat.question
        /\ used'.texts = used.texts
    BY <1>6, SettlesForm
  <2> QED
    BY <2>1, <2>2, <2>3 DEF TextsSoFar
<1>7. CASE Leaves
  <2>1. \A u \in Slots : calls'[u].text <= used.texts
    BY <1>7, LeavesQuiet DEF Quiet, TextsSoFar
  <2>2. \A i \in Raised' : server'.tickets[i].text <= used.texts
    BY <1>7, LeavesQuiet, WithTexts DEF TextsSoFar, Raised, UnderWay
  <2>3. draft' = draft /\ state'.chat.question = 0 /\ used'.texts = used.texts
    BY <1>7 DEF Leaves, Becomes, Writes
  <2> QED
    BY <2>1, <2>2, <2>3 DEF TextsSoFar
<1> QED
  BY <1>0, <1>1, <1>2, <1>3, <1>4, <1>5, <1>6, <1>7 DEF SubmissionStep

-----------------------------------------------------------------------------
LEMMA Unpressed ==
  ASSUME OnePress, button
  PROVE  \A u \in Slots : calls[u].kind \notin Pressing
BY DEF OnePress, UnderWay

(* One text makes two tickets for cause only.                               *)
TicketsOnce ==
  \A i, j \in Raised :
    i # j /\ server.tickets[i].text = server.tickets[j].text /\ server.tickets[i].text # 0
      => server.tickets[i].text \in seen.retried

LEMMA OneMoreOnce ==
  ASSUME PanelTypeOK, TextOnce, seen.retried \subseteq seen'.retried,
         \/ server'.tickets = server.tickets
         \/ \E s \in Slots : calls[s].kind = "raise" /\ server'.tickets = WithTicket(calls[s])
  PROVE  TicketsOnce'
<1>1. CASE server'.tickets = server.tickets
  BY <1>1 DEF TextOnce, TicketsOnce, Raised
<1>2. ASSUME NEW s \in Slots, calls[s].kind = "raise", server'.tickets = WithTicket(calls[s])
      PROVE  TicketsOnce'
  <2>1. PICK n \in Nat :
          /\ Raised' = Raised \cup {n} /\ n \notin Raised
          /\ server'.tickets[n].text = calls[s].text
          /\ \A i \in Raised : server'.tickets[i] = server.tickets[i]
    BY <1>2, CallTyped, TicketAdded
  <2>2. \A i \in Raised : server.tickets[i].text = calls[s].text => calls[s].text \in seen.retried
    BY <1>2 DEF TextOnce, UnderWay
  <2> QED
    BY <2>1, <2>2 DEF TextOnce, TicketsOnce
<1> QED
  BY <1>1, <1>2

(* A text that is submitted is no ticket yet, but for cause.                *)
LEMMA TextOnceStep ==
  ASSUME PanelTypeOK, OnePress, TextsSoFar, LinksOK, QuestionNew, TextOnce, Effect
  PROVE  TextOnce'
<1> USE Typed, CallTyped, RaisedTyped
<1>0. Aside \/ SubmissionStep
  BY EffectAside
<1>1. CASE Aside
  <2>1. /\ Raised' = Raised /\ server'.tickets = server.tickets /\ draft' = draft
        /\ seen'.retried = seen.retried
    BY <1>1 DEF Aside, Raised, SameExcuses, Excuses
  <2>2. \A u \in Slots : calls[u].kind \in {"raise", "link"} \/ calls'[u].kind \in {"raise", "link"}
                           => calls'[u] = calls[u]
    BY <1>1 DEF Aside, SameSubmissions
  <2>3. UnderWay({"raise"})' = UnderWay({"raise"}) /\ UnderWay({"link"})' = UnderWay({"link"})
    BY <2>2 DEF UnderWay
  <2> QED
    BY <2>1, <2>2, <2>3 DEF TextOnce, Linking, UnderWay
<1>2. CASE Escalates
  <2>1. /\ Raised' = Raised /\ server'.tickets = server.tickets /\ calls' = calls
        /\ seen'.retried = seen.retried
    BY <1>2 DEF Escalates, Raised, Excuses
  <2>2. \A i \in Raised : draft' # 0 /\ server.tickets[i].text = draft'
                            => draft' \in seen.retried \/ Linking(i)
    BY <1>2 DEF Escalates, TextOnce, QuestionNew
  <2> QED
    BY <2>1, <2>2 DEF TextOnce, Linking, UnderWay
<1>3. CASE Types
  <2>1. /\ Raised' = Raised /\ server'.tickets = server.tickets /\ calls' = calls
        /\ seen'.retried = seen.retried
    BY <1>3 DEF Types, Raised, Excuses
  <2>2. \A i \in Raised : server.tickets[i].text # draft'
    BY <1>3 DEF Types, TextsSoFar
  <2> QED
    BY <2>1, <2>2 DEF TextOnce, Linking, UnderWay
<1>4. ASSUME NEW s \in Slots, Submits(s, Call("raise", 0, draft, state.conversationId, {}))
      PROVE  TextOnce'
  <2>1. /\ Raised' = Raised /\ server' = server /\ draft' = draft /\ draft # 0
        /\ seen' = seen
    BY <1>4 DEF Submits, Raised, Call
  <2>2. calls'[s].text = draft /\ \A u \in Slots \ {s} : calls'[u] = calls[u]
    BY <1>4 DEF Submits, Begins, Call, PanelTypeOK, CallsTyped
  <2>3. \A u \in Slots : calls[u].kind \notin {"raise", "link"}
    BY <1>4, Unpressed DEF Submits, Pressing
  <2>4. \A i \in Raised : server.tickets[i].text = draft => draft \in seen.retried
    BY <2>1, <2>3 DEF TextOnce, Linking, UnderWay
  <2>5. UnderWay({"raise"})' \subseteq {s}
    BY <2>2, <2>3 DEF UnderWay
  <2> QED
    BY <2>1, <2>2, <2>4, <2>5 DEF TextOnce
<1>5. ASSUME NEW s \in Slots, GoesOnToLink(s)
      PROVE  TextOnce'
  <2>1. PICK n \in Nat :
          /\ n = Len(server.tickets) + 1 /\ Raised' = Raised \cup {n} /\ n \notin Raised
          /\ server'.tickets[n].text = calls[s].text
          /\ \A i \in Raised : server'.tickets[i] = server.tickets[i]
    BY <1>5, TicketAdded DEF GoesOnToLink, Serves
  <2>2. /\ calls'[s].kind = "link" /\ calls'[s].about = n
        /\ \A u \in Slots \ {s} : calls'[u] = calls[u]
    BY <1>5, <2>1 DEF GoesOnToLink, Call, PanelTypeOK, CallsTyped
  <2>3. s \in UnderWay({"raise"}) /\ \A u \in Slots \ {s} : calls[u].kind \notin {"raise", "link"}
    BY <1>5 DEF GoesOnToLink, OnePress, UnderWay, Pressing
  <2>4. UnderWay({"raise"})' = {} /\ UnderWay({"link"})' = {s} /\ UnderWay({"link"}) = {}
    BY <1>5, <2>2, <2>3 DEF UnderWay, GoesOnToLink
  <2>5. draft' = draft /\ seen' = seen
    BY <1>5 DEF GoesOnToLink
  <2>6. TicketsOnce'
    BY <1>5, <2>5, OneMoreOnce DEF GoesOnToLink, Serves
  <2>7. \A i \in Raised' :
          draft # 0 /\ server'.tickets[i].text = draft => draft \in seen.retried \/ Linking(i)'
    BY <2>1, <2>2, <2>4 DEF TextOnce, Linking
  <2> QED
    BY <2>4, <2>5, <2>6, <2>7 DEF TextOnce, TicketsOnce
<1>6. ASSUME NEW s \in Slots, Settles(s)
      PROVE  TextOnce'
  <2>1. UnderWay({"raise"})' = {}
    BY <1>6, SettlesQuiet DEF Quiet, UnderWay
  <2>2. draft' = 0 \/ draft' \in seen'.retried
    BY <1>6, SettlesForm
  <2>3. seen.retried \subseteq seen'.retried
    BY <1>6, SettlesForm
  <2>4. \/ server'.tickets = server.tickets
        \/ calls[s].kind = "raise" /\ server'.tickets = WithTicket(calls[s])
    BY <1>6, SettlesQuiet
  <2>5. TicketsOnce'
    BY <2>3, <2>4, OneMoreOnce
  <2> QED
    BY <2>1, <2>2, <2>5 DEF TextOnce, TicketsOnce
<1>7. CASE Leaves
  <2>1. UnderWay({"raise"})' = {}
    BY <1>7, LeavesQuiet DEF Quiet, UnderWay
  <2>2. seen.retried \subseteq seen'.retried /\ draft' = draft
    BY <1>7 DEF Leaves, Excuses
  <2>3. \/ server'.tickets = server.tickets
        \/ \E s \in Slots : calls[s].kind = "raise" /\ server'.tickets = WithTicket(calls[s])
    BY <1>7, LeavesQuiet DEF UnderWay
  <2>4. TicketsOnce'
    BY <2>2, <2>3, OneMoreOnce
  <2>5. \A s \in UnderWay({"raise", "link"}) : calls[s].text \in seen'.retried
    BY <1>7 DEF Leaves, Excuses
  <2>6. ASSUME NEW i \in Raised', draft # 0, server'.tickets[i].text = draft
        PROVE  draft \in seen'.retried
    <3>1. CASE i \in Raised /\ server'.tickets[i] = server.tickets[i]
      <4>1. CASE Linking(i)
        <5>1. PICK s \in UnderWay({"link"}) : calls[s].about = i
          BY <4>1 DEF Linking
        <5>2. server.tickets[i].text = calls[s].text
          BY <5>1 DEF LinksOK
        <5> QED
          BY <2>5, <2>6, <3>1, <5>1, <5>2 DEF UnderWay
      <4> QED
        BY <2>2, <2>6, <3>1, <4>1 DEF TextOnce
    <3>2. ASSUME NEW s \in Slots, calls[s].kind = "raise", server'.tickets[i].text = calls[s].text
          PROVE  draft \in seen'.retried
      BY <2>5, <2>6, <3>2 DEF UnderWay
    <3>3. CASE server'.tickets = server.tickets
      BY <3>1, <3>3 DEF Raised
    <3>4. ASSUME NEW s \in Slots, calls[s].kind = "raise", server'.tickets = WithTicket(calls[s])
          PROVE  draft \in seen'.retried
      <4>1. PICK n \in Nat :
              /\ Raised' = Raised \cup {n} /\ server'.tickets[n].text = calls[s].text
              /\ \A j \in Raised : server'.tickets[j] = server.tickets[j]
        BY <3>4, TicketAdded
      <4> QED
        BY <3>1, <3>2, <3>4, <4>1
    <3> QED
      BY <2>3, <3>3, <3>4
  <2> QED
    BY <2>1, <2>2, <2>4, <2>6 DEF TextOnce, TicketsOnce
<1> QED
  BY <1>0, <1>1, <1>2, <1>3, <1>4, <1>5, <1>6, <1>7 DEF SubmissionStep

-----------------------------------------------------------------------------
LEMMA QuestionNewStep ==
  ASSUME PanelTypeOK, OnePress, TextsSoFar, QuestionNew, Effect
  PROVE  QuestionNew'
<1> USE Typed, CallTyped, RaisedTyped
<1>0. Aside \/ SubmissionStep
  BY EffectAside
<1>1. CASE Aside
  <2>1. /\ Raised' = Raised /\ server'.tickets = server.tickets
    BY <1>1 DEF Aside, Raised
  <2>2. \A u \in Slots : calls'[u].kind \in {"raise", "link"}
                           => calls'[u] = calls[u] /\ calls[u].kind \in {"raise", "link"}
    BY <1>1 DEF Aside, SameSubmissions
  <2>3. CASE state'.chat.question = used.texts + 1
    BY <2>1, <2>2, <2>3 DEF QuestionNew, TextsSoFar, UnderWay
  <2>4. CASE /\ state'.chat.question \in {0, state.chat.question}
             /\ state'.view = "ask" /\ state'.chat.question # 0 => state.view = "ask"
    BY <2>1, <2>2, <2>4 DEF QuestionNew, UnderWay
  <2> QED
    BY <1>1, <2>3, <2>4 DEF Aside, Chats
<1>2. CASE Escalates
  BY <1>2 DEF Escalates, Becomes, QuestionNew
<1>3. CASE Types
  BY <1>3 DEF Types, QuestionNew, Raised, UnderWay
<1>4. ASSUME NEW s \in Slots, Submits(s, Call("raise", 0, draft, state.conversationId, {}))
      PROVE  QuestionNew'
  <2>1. state'.view = "create"
    BY <1>4 DEF Submits, SameShown, Becomes, Call
  <2> QED
    BY <2>1 DEF QuestionNew
<1>5. ASSUME NEW s \in Slots, GoesOnToLink(s)
      PROVE  QuestionNew'
  <2>1. PICK n \in Nat :
          /\ Raised' = Raised \cup {n} /\ server'.tickets[n].text = calls[s].text
          /\ \A i \in Raised : server'.tickets[i] = server.tickets[i]
    BY <1>5, TicketAdded DEF GoesOnToLink, Serves
  <2>2. /\ calls'[s].text = calls[s].text /\ s \in UnderWay({"raise", "link"})
        /\ \A u \in Slots \ {s} : calls'[u] = calls[u]
    BY <1>5 DEF GoesOnToLink, Call, PanelTypeOK, CallsTyped, UnderWay
  <2>3. state' = state
    BY <1>5 DEF GoesOnToLink
  <2> QED
    BY <2>1, <2>2, <2>3 DEF QuestionNew, UnderWay
<1>6. ASSUME NEW s \in Slots, Settles(s)
      PROVE  QuestionNew'
  <2>1. UnderWay({"raise", "link"})' = {} /\ s \in UnderWay({"raise", "link"})
    BY <1>6, SettlesQuiet DEF Quiet, UnderWay
  <2>2. state'.view = "ask" => state.view = "ask"
    BY <1>6, SettlesForm
  <2>3. state'.chat.question = state.chat.question
    BY <1>6, SettlesForm
  <2>4. CASE server'.tickets = server.tickets
    BY <2>1, <2>2, <2>3, <2>4 DEF QuestionNew, Raised
  <2>5. CASE server'.tickets = WithTicket(calls[s])
    <3>1. PICK n \in Nat :
            /\ Raised' = Raised \cup {n} /\ server'.tickets[n].text = calls[s].text
            /\ \A i \in Raised : server'.tickets[i] = server.tickets[i]
      BY <2>5, TicketAdded
    <3> QED
      BY <2>1, <2>2, <2>3, <3>1 DEF QuestionNew
  <2> QED
    BY <1>6, <2>4, <2>5, SettlesQuiet
<1>7. CASE Leaves
  BY <1>7 DEF Leaves, Becomes, QuestionNew
<1> QED
  BY <1>0, <1>1, <1>2, <1>3, <1>4, <1>5, <1>6, <1>7 DEF SubmissionStep

-----------------------------------------------------------------------------
LEMMA LinksOKStep ==
  ASSUME PanelTypeOK, OnePress, LinksOK, Effect
  PROVE  LinksOK'
<1> USE Typed, CallTyped, RaisedTyped
<1>0. Aside \/ SubmissionStep
  BY EffectAside
<1>1. CASE Aside
  <2>1. /\ Raised' = Raised /\ server'.tickets = server.tickets
        /\ seen.dropped \subseteq seen'.dropped
    BY <1>1 DEF Aside, Raised, Attaches
  <2>2. ASSUME NEW u \in UnderWay({"link"})'
        PROVE  /\ calls'[u] = calls[u] /\ u \in UnderWay({"link"})
               /\ state'.pendingAttachments \subseteq state.pendingAttachments \cup seen'.dropped
    <3>1. calls'[u] = calls[u] /\ u \in UnderWay({"link"})
      BY <1>1 DEF Aside, SameSubmissions, UnderWay
    <3> QED
      BY <1>1, <3>1 DEF Aside, Attaches
  <2> QED
    BY <2>1, <2>2 DEF LinksOK
<1>2. CASE Escalates
  BY <1>2 DEF Escalates, SameHeld, Holds, SameWatched, Watches, LinksOK, Raised, UnderWay
<1>3. CASE Types
  BY <1>3 DEF Types, SameWatched, Watches, LinksOK, Raised, UnderWay
<1>4. ASSUME NEW s \in Slots, Submits(s, Call("raise", 0, draft, state.conversationId, {}))
      PROVE  LinksOK'
  <2>1. UnderWay({"link"})' = {}
    BY <1>4, Unpressed DEF Submits, Begins, Call, PanelTypeOK, CallsTyped, UnderWay, Pressing
  <2> QED
    BY <2>1 DEF LinksOK
<1>5. ASSUME NEW s \in Slots, GoesOnToLink(s)
      PROVE  LinksOK'
  <2>1. PICK n \in Nat :
          /\ n = Len(server.tickets) + 1 /\ Raised' = Raised \cup {n}
          /\ server'.tickets[n].text = calls[s].text /\ server'.tickets[n].conv = calls[s].conv
    BY <1>5, TicketAdded DEF GoesOnToLink, Serves
  <2>2. /\ calls'[s].about = n /\ calls'[s].text = calls[s].text /\ calls'[s].conv = calls[s].conv
        /\ calls'[s].files = state.pendingAttachments
    BY <1>5, <2>1 DEF GoesOnToLink, Call, PanelTypeOK, CallsTyped
  <2>3. UnderWay({"link"})' \subseteq {s}
    BY <1>5 DEF GoesOnToLink, OnePress, UnderWay, Pressing, PanelTypeOK, CallsTyped
  <2>4. state' = state
    BY <1>5 DEF GoesOnToLink
  <2> QED
    BY <2>1, <2>2, <2>3, <2>4 DEF LinksOK
<1>6. ASSUME NEW s \in Slots, Settles(s)
      PROVE  LinksOK'
  <2>1. UnderWay({"link"})' = {}
    BY <1>6, SettlesQuiet DEF Quiet, UnderWay
  <2> QED
    BY <2>1 DEF LinksOK
<1>7. CASE Leaves
  <2>1. UnderWay({"link"})' = {}
    BY <1>7, LeavesQuiet DEF Quiet, UnderWay
  <2> QED
    BY <2>1 DEF LinksOK
<1> QED
  BY <1>0, <1>1, <1>2, <1>3, <1>4, <1>5, <1>6, <1>7 DEF SubmissionStep

-----------------------------------------------------------------------------
(* What was typed last.                                                     *)
LEMMA TypedKeptStep ==
  ASSUME PanelTypeOK, OnePress, LinksOK, TypedKept, Effect
  PROVE  TypedKept'
<1> USE Typed, CallTyped, RaisedTyped
<1>0. Aside \/ SubmissionStep
  BY EffectAside
<1>1. CASE Aside
  <2>1. /\ Raised' = Raised /\ server'.tickets = server.tickets /\ draft' = draft
        /\ seen'.typed = seen.typed /\ seen'.spoilt = seen.spoilt
    BY <1>1 DEF Aside, Raised, SameExcuses, Excuses
  <2>2. \A u \in Slots : calls'[u].kind \in {"raise", "link"}
                           => calls'[u] = calls[u] /\ calls[u].kind \in {"raise", "link"}
    BY <1>1 DEF Aside, SameSubmissions
  <2> QED
    BY <2>1, <2>2 DEF TypedKept, Ticketed, UnderWay
<1>2. CASE Escalates
  BY <1>2 DEF Escalates, Excuses, TypedKept, Ticketed, Raised, UnderWay
<1>3. CASE Types
  BY <1>3 DEF Types, Excuses, TypedKept, UnderWay
<1>4. ASSUME NEW s \in Slots, Submits(s, Call("raise", 0, draft, state.conversationId, {}))
      PROVE  TypedKept'
  <2>1. /\ Raised' = Raised /\ server' = server /\ draft' = draft /\ seen' = seen
    BY <1>4 DEF Submits, Raised
  <2>2. calls'[s].text = draft /\ \A u \in Slots \ {s} : calls'[u] = calls[u]
    BY <1>4 DEF Submits, Begins, Call, PanelTypeOK, CallsTyped
  <2> QED
    BY <2>1, <2>2 DEF TypedKept, Ticketed, UnderWay
<1>5. ASSUME NEW s \in Slots, GoesOnToLink(s)
      PROVE  TypedKept'
  <2>1. PICK n \in Nat :
          /\ Raised' = Raised \cup {n}
          /\ \A i \in Raised : server'.tickets[i] = server.tickets[i]
    BY <1>5, TicketAdded DEF GoesOnToLink, Serves
  <2>2. /\ calls'[s].text = calls[s].text /\ s \in UnderWay({"raise", "link"})
        /\ \A u \in Slots \ {s} : calls'[u] = calls[u]
    BY <1>5 DEF GoesOnToLink, Call, PanelTypeOK, CallsTyped, UnderWay
  <2>3. draft' = draft /\ seen' = seen
    BY <1>5 DEF GoesOnToLink
  <2> QED
    BY <2>1, <2>2, <2>3 DEF TypedKept, Ticketed, UnderWay
<1>6. ASSUME NEW s \in Slots, Settles(s)
      PROVE  TypedKept'
  <2>1. UnderWay({"raise", "link"})' = {} /\ s \in UnderWay({"raise", "link"})
    BY <1>6, SettlesQuiet DEF Quiet, UnderWay
  <2>2. seen'.typed = seen.typed /\ seen'.spoilt = seen.spoilt
    BY <1>6, SettlesForm
  <2>3. Ticketed => Ticketed'
    <3>1. CASE server'.tickets = server.tickets
      BY <2>2, <3>1 DEF Ticketed, Raised
    <3>2. CASE server'.tickets = WithTicket(calls[s])
      BY <2>2, <3>2, TicketAdded DEF Ticketed
    <3> QED
      BY <1>6, <3>1, <3>2, SettlesQuiet
  <2>4. draft' = calls[s].text \/ (\E i \in Raised' : server'.tickets[i].text = calls[s].text)
    <3>1. CASE server'.tickets = WithTicket(calls[s])
      BY <3>1, TicketAdded
    <3>2. CASE calls[s].kind = "link" /\ server'.tickets = server.tickets
      BY <3>2 DEF LinksOK, UnderWay, Raised
    <3> QED
      BY <1>6, <3>1, <3>2, SettlesForm
  <2> QED
    BY <2>1, <2>2, <2>3, <2>4 DEF TypedKept, Ticketed
<1>7. CASE Leaves
  <2>1. UnderWay({"raise", "link"})' = {}
    BY <1>7, LeavesQuiet DEF Quiet, UnderWay
  <2>2. seen'.typed = seen.typed /\ seen'.spoilt = seen.spoilt /\ draft' = draft
    BY <1>7 DEF Leaves, Excuses
  <2>3. Ticketed => Ticketed'
    <3>1. CASE server'.tickets = server.tickets
      BY <2>2, <3>1 DEF Ticketed, Raised
    <3>2. ASSUME NEW s \in Slots, server'.tickets = WithTicket(calls[s])
          PROVE  Ticketed => Ticketed'
      BY <2>2, <3>2, TicketAdded DEF Ticketed
    <3> QED
      BY <1>7, <3>1, <3>2, LeavesQuiet DEF UnderWay
  <2> QED
    BY <2>1, <2>2, <2>3 DEF TypedKept
<1> QED
  BY <1>0, <1>1, <1>2, <1>3, <1>4, <1>5, <1>6, <1>7 DEF SubmissionStep

-----------------------------------------------------------------------------
(* A file that a link call links is linked, by that call or earlier.        *)
LEMMA AttachedLinks ==
  ASSUME PanelTypeOK, NEW s \in Slots, calls[s].kind = "link", calls[s].about # 0,
         server'.linked = Attached(calls[s])
  PROVE  \A f \in Files : f \in calls[s].files \/ server.linked[f] # 0 => server'.linked[f] # 0
BY DEF Attached

LEMMA FilesKeptStep ==
  ASSUME PanelTypeOK, OnePress, LinksOK, FilesKept, Effect
  PROVE  FilesKept'
<1> USE Typed, CallTyped, RaisedTyped
<1>0. Aside \/ SubmissionStep
  BY EffectAside
<1>1. CASE Aside
  BY <1>1 DEF Aside, Attaches, FilesKept
<1>2. CASE Escalates
  BY <1>2 DEF Escalates, SameHeld, Holds, SameWatched, Watches, FilesKept
<1>3. CASE Types
  BY <1>3 DEF Types, SameWatched, Watches, FilesKept
<1>4. ASSUME NEW s \in Slots, Submits(s, Call("raise", 0, draft, state.conversationId, {}))
      PROVE  FilesKept'
  BY <1>4 DEF Submits, Holds, FilesKept
<1>5. ASSUME NEW s \in Slots, GoesOnToLink(s)
      PROVE  FilesKept'
  BY <1>5 DEF GoesOnToLink, Serves, FilesKept
<1>6. ASSUME NEW s \in Slots, Settles(s)
      PROVE  FilesKept'
  <2>1. seen'.taken = seen.taken /\ seen'.dropped = seen.dropped /\ seen.taken \subseteq Files
    BY <1>6, SettlesForm DEF SameWatched, Watches, SeenRow
  <2>2. calls[s].kind = "link" => calls[s].about # 0
    BY DEF LinksOK, UnderWay
  <2>3. \A f \in Files : server.linked[f] # 0 => server'.linked[f] # 0
    BY <1>6, <2>2, SettlesQuiet, AttachedLinks
  <2>4. \/ state'.pendingAttachments = state.pendingAttachments
        \/ state.pendingAttachments = {}
        \/ /\ calls[s].kind = "link" /\ server'.linked = Attached(calls[s])
    BY <1>6, SettlesForm
  <2>5. CASE calls[s].kind = "link" /\ server'.linked = Attached(calls[s])
    <3>1. state.pendingAttachments \subseteq calls[s].files \cup seen.dropped
      BY <2>5 DEF LinksOK, UnderWay
    <3>2. \A f \in Files : f \in calls[s].files => server'.linked[f] # 0
      BY <2>2, <2>5, AttachedLinks
    <3> QED
      BY <2>1, <2>3, <3>1, <3>2 DEF FilesKept
  <2> QED
    BY <2>1, <2>3, <2>4, <2>5 DEF FilesKept
<1>7. CASE Leaves
  <2>1. /\ seen'.taken = seen.taken /\ seen.taken \subseteq Files
        /\ seen'.dropped = seen.dropped \cup state.pendingAttachments
    BY <1>7 DEF Leaves, Watches, SeenRow
  <2>2. \A s \in UnderWay({"link"}) : calls[s].about # 0
    BY DEF LinksOK
  <2>3. \A f \in Files : server.linked[f] # 0 => server'.linked[f] # 0
    BY <1>7, <2>2, LeavesQuiet, AttachedLinks DEF UnderWay
  <2> QED
    BY <2>1, <2>3 DEF FilesKept
<1> QED
  BY <1>0, <1>1, <1>2, <1>3, <1>4, <1>5, <1>6, <1>7 DEF SubmissionStep

-----------------------------------------------------------------------------
(* Conversations.                                                           *)

LEMMA WithConvs ==
  ASSUME PanelTypeOK, ConvsSoFar, NEW s \in Slots, server'.tickets = WithTicket(calls[s])
  PROVE  \A i \in Raised' : server'.tickets[i].conv <= server.convs
<1>1. PICK n \in Nat :
        /\ Raised' = Raised \cup {n}
        /\ server'.tickets[n].conv = calls[s].conv
        /\ \A i \in Raised : server'.tickets[i] = server.tickets[i]
  BY CallTyped, TicketAdded
<1> QED
  BY <1>1 DEF ConvsSoFar

LEMMA ConvsSoFarStep ==
  ASSUME PanelTypeOK, OnePress, ConvsSoFar, Effect
  PROVE  ConvsSoFar'
<1> USE Typed, CallTyped, RaisedTyped
<1>0. Aside \/ SubmissionStep
  BY EffectAside
<1>1. CASE Aside
  <2>1. /\ Raised' = Raised /\ server'.tickets = server.tickets
        /\ server'.convs \in Nat /\ server.convs <= server'.convs
    BY <1>1 DEF Aside, Raised, Converses
  <2>2. state'.conversationId <= server'.convs
    BY <1>1, <2>1 DEF Aside, Converses, ConvsSoFar, UnderWay
  <2>3. \A u \in Slots : calls'[u].conv <= server'.convs
    BY <1>1, <2>1 DEF Aside, SameSubmissions, ConvsSoFar
  <2> QED
    BY <2>1, <2>2, <2>3 DEF ConvsSoFar
<1>2. CASE Escalates
  BY <1>2 DEF Escalates, Becomes, ConvsSoFar, Raised
<1>3. CASE Types
  BY <1>3 DEF Types, ConvsSoFar, Raised
<1>4. ASSUME NEW s \in Slots, Submits(s, Call("raise", 0, draft, state.conversationId, {}))
      PROVE  ConvsSoFar'
  <2>1. \A u \in Slots : calls'[u].conv \in {calls[u].conv, state.conversationId}
    BY <1>4 DEF Submits, Begins, Call, PanelTypeOK, CallsTyped
  <2> QED
    BY <1>4, <2>1 DEF Submits, SameShown, Becomes, ConvsSoFar, Raised
<1>5. ASSUME NEW s \in Slots, GoesOnToLink(s)
      PROVE  ConvsSoFar'
  <2>1. \A u \in Slots : calls'[u].conv = calls[u].conv
    BY <1>5 DEF GoesOnToLink, Call, PanelTypeOK, CallsTyped
  <2>2. \A i \in Raised' : server'.tickets[i].conv <= server.convs
    BY <1>5, WithConvs DEF GoesOnToLink, Serves
  <2> QED
    BY <1>5, <2>1, <2>2 DEF GoesOnToLink, Serves, ConvsSoFar
<1>6. ASSUME NEW s \in Slots, Settles(s)
      PROVE  ConvsSoFar'
  <2>1. \A u \in Slots : calls'[u].conv <= server.convs
    BY <1>6, SettlesQuiet DEF Quiet, ConvsSoFar
  <2>2. \A i \in Raised' : server'.tickets[i].conv <= server.convs
    BY <1>6, SettlesQuiet, WithConvs DEF ConvsSoFar, Raised
  <2>3. server'.convs = server.convs
    BY <1>6, SettlesQuiet
  <2>4. state'.conversationId \in {0, state.conversationId}
    BY <1>6, SettlesForm
  <2> QED
    BY <2>1, <2>2, <2>3, <2>4 DEF ConvsSoFar
<1>7. CASE Leaves
  <2>1. \A u \in Slots : calls'[u].conv <= server.convs
    BY <1>7, LeavesQuiet DEF Quiet, ConvsSoFar
  <2>2. \A i \in Raised' : server'.tickets[i].conv <= server.convs
    BY <1>7, LeavesQuiet, WithConvs DEF ConvsSoFar, Raised, UnderWay
  <2>3. server'.convs = server.convs
    BY <1>7, LeavesQuiet
  <2>4. state'.conversationId = 0
    BY <1>7 DEF Leaves, Becomes
  <2> QED
    BY <2>1, <2>2, <2>3, <2>4 DEF ConvsSoFar
<1> QED
  BY <1>0, <1>1, <1>2, <1>3, <1>4, <1>5, <1>6, <1>7 DEF SubmissionStep

(* One conversation makes two tickets for cause only.                       *)
ConversationsOnce ==
  \A i, j \in Raised :
    i # j /\ server.tickets[i].conv = server.tickets[j].conv /\ server.tickets[i].conv # 0
      => server.tickets[i].conv \in seen.revived

LEMMA OneMoreConversation ==
  ASSUME PanelTypeOK, ConvOnce, seen.revived \subseteq seen'.revived,
         \/ server'.tickets = server.tickets
         \/ \E s \in Slots : calls[s].kind = "raise" /\ server'.tickets = WithTicket(calls[s])
  PROVE  ConversationsOnce'
<1>1. CASE server'.tickets = server.tickets
  BY <1>1 DEF ConvOnce, ConversationsOnce, Raised
<1>2. ASSUME NEW s \in Slots, calls[s].kind = "raise", server'.tickets = WithTicket(calls[s])
      PROVE  ConversationsOnce'
  <2>1. PICK n \in Nat :
          /\ Raised' = Raised \cup {n} /\ n \notin Raised
          /\ server'.tickets[n].conv = calls[s].conv
          /\ \A i \in Raised : server'.tickets[i] = server.tickets[i]
    BY <1>2, CallTyped, TicketAdded
  <2>2. \A i \in Raised : server.tickets[i].conv = calls[s].conv /\ calls[s].conv # 0
                            => calls[s].conv \in seen.revived
    BY <1>2 DEF ConvOnce, UnderWay
  <2> QED
    BY <2>1, <2>2 DEF ConvOnce, ConversationsOnce
<1> QED
  BY <1>1, <1>2

LEMMA AsksStay ==
  ASSUME PanelTypeOK, OnePress, NEW s \in Slots, Settles(s)
  PROVE  \A u \in Slots : calls'[u].kind = "ask" => u # s
<1>1. calls' = [calls EXCEPT ![s] = NoCall]
  BY DEF Settles, RaiseEnds, LinkEnds, SubmissionFails, Tells, Ends
<1> QED
  BY <1>1, NoCallTyped DEF PanelTypeOK, CallsTyped

LEMMA ConvOnceStep ==
  ASSUME PanelTypeOK, OnePress, ConvsSoFar, LinksOK, ConvOnce, Effect
  PROVE  ConvOnce'
<1> USE Typed, CallTyped, RaisedTyped
<1>0. Aside \/ SubmissionStep
  BY EffectAside
<1>1. CASE Aside
  <2>1. /\ Raised' = Raised /\ server'.tickets = server.tickets /\ seen'.revived = seen.revived
    BY <1>1 DEF Aside, Raised, SameExcuses, Excuses
  <2>2. \A u \in Slots : calls[u].kind \in {"raise", "link"} \/ calls'[u].kind \in {"raise", "link"}
                           => calls'[u] = calls[u]
    BY <1>1 DEF Aside, SameSubmissions
  <2>3. UnderWay({"raise"})' = UnderWay({"raise"}) /\ UnderWay({"link"})' = UnderWay({"link"})
    BY <2>2 DEF UnderWay
  <2>4. \A i \in Raised : Linking(i)' = Linking(i)
    BY <2>2, <2>3 DEF Linking, UnderWay
  <2>5. ASSUME NEW c \in Nat, Free(c)
        PROVE  \A i \in Raised' :
                 c # 0 /\ server'.tickets[i].conv = c => c \in seen'.revived \/ Linking(i)'
    BY <2>1, <2>4, <2>5 DEF Free
  <2>6. Free(0) /\ Free(state.conversationId) /\ Free(server.convs + 1)
    BY DEF Free, ConvOnce, ConvsSoFar
  <2>7. Free(state'.conversationId)
    BY <1>1, <2>6 DEF Aside, Converses, ConvOnce
  <2>8. \A u \in UnderWay({"ask"})' : Free(calls'[u].conv)
    BY <1>1, <2>6 DEF Aside, SameSubmissions, ConvOnce, UnderWay
  <2>9. state'.conversationId \in Nat /\ \A u \in Slots : calls'[u].conv \in Nat
    BY <1>1 DEF Aside, Converses, SameSubmissions, UnderWay
  <2>10. Free(state.conversationId)'
    BY <2>5, <2>7, <2>9 DEF Free
  <2>11. (\A u \in UnderWay({"ask"}) : Free(calls[u].conv))'
    BY <2>5, <2>8, <2>9 DEF Free, UnderWay
  <2> QED
    BY <2>1, <2>2, <2>3, <2>10, <2>11 DEF ConvOnce, UnderWay
<1>2. CASE Escalates
  BY <1>2 DEF Escalates, Becomes, Excuses, ConvOnce, Raised, Free, Linking, UnderWay
<1>3. CASE Types
  BY <1>3 DEF Types, Excuses, ConvOnce, Raised, Free, Linking, UnderWay
<1>4. ASSUME NEW s \in Slots, Submits(s, Call("raise", 0, draft, state.conversationId, {}))
      PROVE  ConvOnce'
  <2>1. /\ Raised' = Raised /\ server' = server /\ seen' = seen
        /\ state'.conversationId = state.conversationId
    BY <1>4 DEF Submits, SameShown, Becomes, Raised
  <2>2. /\ calls'[s].kind = "raise" /\ calls'[s].conv = state.conversationId
        /\ \A u \in Slots \ {s} : calls'[u] = calls[u]
    BY <1>4 DEF Submits, Begins, Call, PanelTypeOK, CallsTyped
  <2>3. \A u \in Slots : calls[u].kind \notin {"raise", "link"}
    BY <1>4, Unpressed DEF Submits, Pressing
  <2>4. \A c \in Nat, i \in Raised :
          Free(c) /\ c # 0 /\ server.tickets[i].conv = c => c \in seen.revived
    BY <2>3 DEF Free, Linking, UnderWay
  <2>5. UnderWay({"raise"})' \subseteq {s} /\ UnderWay({"ask"})' \subseteq UnderWay({"ask"})
    BY <2>2, <2>3 DEF UnderWay
  <2>6. \A i \in Raised : server.tickets[i].conv = state.conversationId /\ state.conversationId # 0
                            => state.conversationId \in seen.revived
    BY <2>4 DEF ConvOnce
  <2>7. (\A u \in UnderWay({"raise"}), i \in Raised :
           server.tickets[i].conv = calls[u].conv /\ calls[u].conv # 0
             => calls[u].conv \in seen.revived)'
    BY <2>1, <2>2, <2>5, <2>6
  <2>8. Free(state.conversationId)'
    BY <2>1, <2>6 DEF Free
  <2>9. (\A u \in UnderWay({"ask"}) : Free(calls[u].conv))'
    BY <2>1, <2>2, <2>4, <2>5 DEF ConvOnce, Free, UnderWay
  <2> QED
    BY <2>1, <2>7, <2>8, <2>9 DEF ConvOnce
<1>5. ASSUME NEW s \in Slots, GoesOnToLink(s)
      PROVE  ConvOnce'
  <2>1. PICK n \in Nat :
          /\ n = Len(server.tickets) + 1 /\ Raised' = Raised \cup {n} /\ n \notin Raised
          /\ \A i \in Raised : server'.tickets[i] = server.tickets[i]
    BY <1>5, TicketAdded DEF GoesOnToLink, Serves
  <2>2. /\ calls'[s].kind = "link" /\ calls'[s].about = n
        /\ \A u \in Slots \ {s} : calls'[u] = calls[u]
    BY <1>5, <2>1 DEF GoesOnToLink, Call, PanelTypeOK, CallsTyped
  <2>3. s \in UnderWay({"raise"}) /\ \A u \in Slots \ {s} : calls[u].kind \notin {"raise", "link"}
    BY <1>5 DEF GoesOnToLink, OnePress, UnderWay, Pressing
  <2>4. /\ UnderWay({"raise"})' = {} /\ UnderWay({"link"})' = {s} /\ UnderWay({"link"}) = {}
        /\ UnderWay({"ask"})' \subseteq UnderWay({"ask"}) \ {s}
    BY <1>5, <2>2, <2>3 DEF UnderWay, GoesOnToLink
  <2>5. state' = state /\ seen' = seen
    BY <1>5 DEF GoesOnToLink
  <2>6. ConversationsOnce'
    BY <1>5, <2>5, OneMoreConversation DEF GoesOnToLink, Serves
  <2>7. Linking(n)' /\ \A i \in Raised : ~Linking(i)
    BY <2>2, <2>4 DEF Linking
  <2>8. ASSUME NEW c \in Nat, Free(c)
        PROVE  \A i \in Raised' :
                 c # 0 /\ server'.tickets[i].conv = c => c \in seen'.revived \/ Linking(i)'
    BY <2>1, <2>5, <2>7, <2>8 DEF Free
  <2>9. Free(state.conversationId)'
    BY <2>5, <2>8 DEF Free, ConvOnce
  <2>10. (\A u \in UnderWay({"ask"}) : Free(calls[u].conv))'
    BY <2>2, <2>4, <2>8 DEF Free, ConvOnce, UnderWay
  <2> QED
    BY <2>4, <2>6, <2>9, <2>10 DEF ConvOnce, ConversationsOnce
<1>6. ASSUME NEW s \in Slots, Settles(s)
      PROVE  ConvOnce'
  <2>1. /\ UnderWay({"raise"})' = {}
        /\ \A u \in UnderWay({"ask"})' : calls'[u] = calls[u] /\ u \in UnderWay({"ask"})
    BY <1>6, SettlesQuiet, AsksStay DEF Quiet, UnderWay
  <2>2. seen.revived \subseteq seen'.revived
    BY <1>6, SettlesForm
  <2>3. \/ server'.tickets = server.tickets
        \/ calls[s].kind = "raise" /\ server'.tickets = WithTicket(calls[s])
    BY <1>6, SettlesQuiet
  <2>4. ConversationsOnce'
    BY <2>2, <2>3, OneMoreConversation
  (* The tickets of a conversation that was free are of this submission.      *)
  <2>5. ASSUME NEW c \in Nat, Free(c)
        PROVE  \A i \in Raised' : c # 0 /\ server'.tickets[i].conv = c
                                    => c \in seen'.revived \/ c = calls[s].conv
    <3>1. \A i \in Raised : c # 0 /\ server.tickets[i].conv = c
                              => c \in seen.revived \/ c = calls[s].conv
      <4>1. \A i \in Raised : Linking(i) => server.tickets[i].conv = calls[s].conv
        BY <1>6, SettlesQuiet DEF Linking, LinksOK, UnderWay
      <4> QED
        BY <2>5, <4>1 DEF Free
    <3>2. CASE server'.tickets = server.tickets
      BY <2>2, <3>1, <3>2 DEF Raised
    <3>3. CASE server'.tickets = WithTicket(calls[s])
      <4>1. PICK n \in Nat :
              /\ Raised' = Raised \cup {n} /\ server'.tickets[n].conv = calls[s].conv
              /\ \A i \in Raised : server'.tickets[i] = server.tickets[i]
        BY <3>3, TicketAdded
      <4> QED
        BY <2>2, <3>1, <4>1
    <3> QED
      BY <2>3, <3>2, <3>3
  <2>6. CASE calls[s].conv \in seen'.revived /\ state'.conversationId = state.conversationId
    <3>1. Free(state.conversationId)'
      BY <2>5, <2>6 DEF Free, ConvOnce
    <3>2. (\A u \in UnderWay({"ask"}) : Free(calls[u].conv))'
      BY <2>1, <2>5, <2>6 DEF Free, ConvOnce, UnderWay
    <3> QED
      BY <2>1, <2>4, <3>1, <3>2 DEF ConvOnce, ConversationsOnce
  <2>7. CASE Revived(calls[s].conv) \subseteq seen'.revived /\ state'.conversationId = 0
    <3>1. Free(state.conversationId)'
      BY <2>7 DEF Free
    <3>2. \A u \in UnderWay({"ask"}) :
            calls[u].conv = calls[s].conv => calls[s].conv \in seen'.revived
      BY <2>7 DEF Revived
    <3>3. (\A u \in UnderWay({"ask"}) : Free(calls[u].conv))'
      BY <2>1, <2>5, <3>2 DEF Free, ConvOnce, UnderWay
    <3> QED
      BY <2>1, <2>4, <3>1, <3>3 DEF ConvOnce, ConversationsOnce
  <2> QED
    BY <1>6, <2>6, <2>7, SettlesForm
<1>7. CASE Leaves
  <2>1. UnderWay({"raise"})' = {} /\ UnderWay({"ask"})' = {}
    BY <1>7, NoCallTyped DEF Leaves, UnderWay
  <2>2. seen.revived \subseteq seen'.revived /\ state'.conversationId = 0
    BY <1>7 DEF Leaves, Excuses, Becomes
  <2>3. \/ server'.tickets = server.tickets
        \/ \E s \in Slots : calls[s].kind = "raise" /\ server'.tickets = WithTicket(calls[s])
    BY <1>7, LeavesQuiet DEF UnderWay
  <2>4. ConversationsOnce'
    BY <2>2, <2>3, OneMoreConversation
  <2> QED
    BY <2>1, <2>2, <2>4 DEF ConvOnce, ConversationsOnce, Free
<1> QED
  BY <1>0, <1>1, <1>2, <1>3, <1>4, <1>5, <1>6, <1>7 DEF SubmissionStep

-----------------------------------------------------------------------------
(* Presses of a submit button.                                              *)

LEMMA PressKept ==
  ASSUME PanelTypeOK, OnePress, ButtonDrawn, state'.submitting = state.submitting,
         \A u \in Slots : calls'[u].kind \in Pressing => calls[u].kind \in Pressing
  PROVE  OnePress'
BY Typed DEF OnePress, UnderWay, ButtonDrawn, PanelTypeOK

LEMMA PressOver ==
  ASSUME \A u \in Slots : calls'[u].kind \notin Pressing
  PROVE  OnePress'
BY DEF OnePress, UnderWay

LEMMA PressEnds ==
  ASSUME PanelTypeOK, OnePress, NEW s \in Slots, calls[s].kind \in Pressing, Ends(s)
  PROVE  OnePress'
<1>1. \A u \in Slots : calls'[u].kind \notin Pressing
  BY NoCallTyped DEF OnePress, UnderWay, Ends, PanelTypeOK, CallsTyped, Pressing
<1> QED
  BY <1>1, PressOver

(* A call that is no press begins, or one ends.                             *)
LEMMA PressElsewhere ==
  ASSUME PanelTypeOK, OnePress, ButtonDrawn, state'.submitting = state.submitting,
         NEW s \in Slots, NEW call, calls' = [calls EXCEPT ![s] = call], call.kind \notin Pressing
  PROVE  OnePress'
<1>1. \A u \in Slots : calls'[u].kind \in Pressing => calls[u].kind \in Pressing
  BY DEF PanelTypeOK, CallsTyped
<1> QED
  BY <1>1, PressKept

LEMMA OtherCallEnds ==
  ASSUME PanelTypeOK, OnePress, ButtonDrawn, state'.submitting = state.submitting,
         NEW s \in Slots, Ends(s)
  PROVE  OnePress'
<1>1. NoCall.kind \notin Pressing
  BY NoCallTyped DEF Pressing
<1> QED
  BY <1>1, PressElsewhere DEF Ends

LEMMA OnePressStep == ASSUME PanelTypeOK, OnePress, Effect PROVE OnePress'
<1>1. CASE Turns
  BY <1>1, PressKept DEF Turns, SameHeld, Holds
<1>2. CASE Escalates
  BY <1>2, PressKept DEF Escalates, SameHeld, Holds
<1>3. CASE Types
  BY <1>3 DEF Types, OnePress, UnderWay
<1>4. CASE Leaves
  BY <1>4, PressOver, NoCallTyped DEF Leaves, Pressing
<1>5. ASSUME NEW f \in Files, DropsFile(f)
      PROVE  OnePress'
  BY <1>5, PressKept DEF DropsFile, Holds
<1>6. ASSUME NEW s \in Slots, NEW kind \in Loading, StartsLoading(s, kind)
      PROVE  OnePress'
  <2>1. Simple(kind).kind \notin Pressing
    BY DEF Simple, Call, Loading, Lists, Pressing
  <2> QED
    BY <1>6, <2>1, PressElsewhere DEF StartsLoading, Begins, Holds
<1>7. ASSUME NEW s \in Slots, NEW call \in CallRow, StartsQuietly(s, call)
      PROVE  OnePress'
  <2>1. call.kind \notin Pressing
    BY <1>7 DEF StartsQuietly, Pressing
  <2> QED
    BY <1>7, <2>1, PressElsewhere DEF StartsQuietly, Begins, SameHeld, Holds
<1>8. ASSUME NEW s \in Slots, NEW call \in CallRow, Submits(s, call)
      PROVE  OnePress'
  <2>1. \A u \in Slots : calls[u].kind \notin Pressing
    BY <1>8, Unpressed DEF Submits
  <2>2. \A u \in Slots : calls'[u].kind \in Pressing => u = s
    BY <1>8, <2>1 DEF Submits, Begins, PanelTypeOK, CallsTyped
  <2> QED
    BY <1>8, <2>2 DEF Submits, Holds, OnePress, UnderWay
<1>9. ASSUME NEW s \in Slots, NEW t \in Nat, Opens(s, "ticket", t)
      PROVE  OnePress'
  <2> DEFINE call == Call("ticket", t, 0, 0, {})
  <2>1. call.kind \notin Pressing
    BY DEF Call, Pressing
  <2> QED
    BY <1>9, <2>1, PressElsewhere DEF Opens, SameHeld, Holds
<1>10. ASSUME NEW s \in Slots, NEW t \in Nat, Opens(s, "refresh", t)
       PROVE  OnePress'
  <2>1. calls[s].kind = "reply"
    BY <1>10, NoCallTyped DEF Opens
  <2>2. \A u \in Slots : calls'[u].kind \in Pressing => calls[u].kind \in Pressing
    BY <1>10, <2>1 DEF Opens, Pressing, PanelTypeOK, CallsTyped
  <2> QED
    BY <1>10, <2>2, PressKept DEF Opens, SameHeld, Holds
<1>11. ASSUME NEW s \in Slots, Asks(s)
       PROVE  OnePress'
  <2> DEFINE call == Call("ask", 0, 0, state.conversationId, {})
  <2>1. call.kind \notin Pressing
    BY DEF Call, Pressing
  <2> QED
    BY <1>11, <2>1, PressElsewhere DEF Asks, Begins, SameHeld, Holds
<1>12. ASSUME NEW s \in Slots,
              LoadingEnds(s) \/ AskEnds(s) \/ QuietEnds(s) \/ UploadEnds(s)
       PROVE  OnePress'
  <2>1. Ends(s) /\ ButtonDrawn /\ state'.submitting = state.submitting
    BY <1>12 DEF LoadingEnds, AskEnds, QuietEnds, UploadEnds, SameHeld, Holds
  <2> QED
    BY <2>1, OtherCallEnds
<1>13. ASSUME NEW s \in Slots, OpeningEnds(s)
       PROVE  OnePress'
  <2>1. CASE calls[s].kind = "ticket"
    BY <1>13, <2>1, OtherCallEnds DEF OpeningEnds, Holds
  <2>2. CASE calls[s].kind \in {"refresh", "reply"}
    BY <1>13, <2>2, PressEnds DEF OpeningEnds, Pressing
  <2> QED
    BY <1>13, <2>1, <2>2 DEF OpeningEnds, Opening
<1>14. ASSUME NEW s \in Slots, GoesOnToLink(s)
       PROVE  OnePress'
  <2>1. \A u \in Slots : calls'[u].kind \in Pressing => calls[u].kind \in Pressing
    BY <1>14 DEF GoesOnToLink, Pressing, PanelTypeOK, CallsTyped
  <2> QED
    BY <1>14, <2>1, PressKept DEF GoesOnToLink
<1>15. ASSUME NEW s \in Slots, RaiseEnds(s) \/ LinkEnds(s) \/ SubmissionFails(s)
       PROVE  OnePress'
  <2>1. Ends(s) /\ calls[s].kind \in Pressing
    BY <1>15 DEF RaiseEnds, LinkEnds, SubmissionFails, Tells, Pressing
  <2> QED
    BY <2>1, PressEnds
<1> QED
  BY <1>1, <1>2, <1>3, <1>4, <1>5, <1>6, <1>7, <1>8, <1>9, <1>10, <1>11, <1>12, <1>13, <1>14,
     <1>15 DEF Effect, Opening

-----------------------------------------------------------------------------
(* The list that is waited for, and the ticket that was opened.             *)

(* Neither is concerned.                                                    *)
Elsewhere ==
  /\ state'.loading = state.loading /\ seen'.listing = seen.listing
  /\ state'.ticket = state.ticket
  /\ seen'.opened = seen.opened /\ seen'.muddled = seen.muddled
  /\ \A u \in Slots :
       calls[u].kind \in Loading \cup Opening \/ calls'[u].kind \in Loading \cup Opening
         => calls'[u] = calls[u]

LEMMA WatchKept ==
  ASSUME ListOK, OpeningOK, Elsewhere
  PROVE  ListOK' /\ OpeningOK'
<1>1. UnderWay(Loading)' = UnderWay(Loading) /\ UnderWay(Opening)' = UnderWay(Opening)
  BY DEF Elsewhere, UnderWay
<1>2. \A u \in UnderWay(Loading) \cup UnderWay(Opening) : calls'[u] = calls[u]
  BY DEF Elsewhere, UnderWay
<1> QED
  BY <1>1, <1>2 DEF ListOK, OpeningOK, Elsewhere

LEMMA CallElsewhere ==
  ASSUME PanelTypeOK, NEW s \in Slots, NEW call, calls' = [calls EXCEPT ![s] = call],
         calls[s].kind \notin Loading \cup Opening, call.kind \notin Loading \cup Opening
  PROVE  \A u \in Slots :
           calls[u].kind \in Loading \cup Opening \/ calls'[u].kind \in Loading \cup Opening
             => calls'[u] = calls[u]
BY DEF PanelTypeOK, CallsTyped

LEMMA EndElsewhere ==
  ASSUME PanelTypeOK, NEW s \in Slots, Ends(s), calls[s].kind \notin Loading \cup Opening
  PROVE  \A u \in Slots :
           calls[u].kind \in Loading \cup Opening \/ calls'[u].kind \in Loading \cup Opening
             => calls'[u] = calls[u]
<1>1. NoCall.kind \notin Loading \cup Opening
  BY NoCallTyped DEF Loading, Lists, Opening
<1> QED
  BY <1>1, CallElsewhere DEF Ends

LEMMA BeginElsewhere ==
  ASSUME PanelTypeOK, NEW s \in Slots, NEW call, Begins(s, call),
         call.kind \notin Loading \cup Opening
  PROVE  \A u \in Slots :
           calls[u].kind \in Loading \cup Opening \/ calls'[u].kind \in Loading \cup Opening
             => calls'[u] = calls[u]
<1>1. calls[s].kind \notin Loading \cup Opening
  BY NoCallTyped DEF Begins, Loading, Lists, Opening
<1> QED
  BY <1>1, CallElsewhere DEF Begins

LEMMA WatchedStep ==
  ASSUME PanelTypeOK, ListOK, OpeningOK, Effect
  PROVE  ListOK' /\ OpeningOK'
<1> USE WatchKept, SameSeen DEF SameShown, Becomes, SameHeld, Holds, SameWatched, Watches
<1>1. CASE Turns
  BY <1>1 DEF Turns, Elsewhere
<1>2. CASE Escalates
  BY <1>2 DEF Escalates, Elsewhere
<1>3. CASE Types
  BY <1>3 DEF Types, Elsewhere
<1>4. CASE Leaves
  <2>1. seen'.listing = "never" /\ state'.ticket = 0 /\ UnderWay(Opening)' = {}
    BY <1>4, NoCallTyped DEF Leaves, UnderWay, Opening
  <2> QED
    BY <2>1 DEF ListOK, OpeningOK
<1>5. ASSUME NEW f \in Files, DropsFile(f)
      PROVE  ListOK' /\ OpeningOK'
  BY <1>5 DEF DropsFile, Elsewhere
<1>6. ASSUME NEW s \in Slots, NEW kind \in Loading, StartsLoading(s, kind)
      PROVE  ListOK' /\ OpeningOK'
  <2>1. calls'[s].kind = kind /\ calls[s] = NoCall /\ \A u \in Slots \ {s} : calls'[u] = calls[u]
    BY <1>6 DEF StartsLoading, Begins, Simple, Call, PanelTypeOK, CallsTyped
  <2>2. ListOK'
    <3>1. s \in UnderWay(Loading)' /\ state'.loading /\ seen'.listing = Muddled(kind)
      BY <1>6, <2>1 DEF StartsLoading, UnderWay
    <3>2. CASE UnderWay(Loading) # {}
      BY <3>1, <3>2 DEF Muddled, ListOK
    <3>3. CASE UnderWay(Loading) = {}
      <4>1. UnderWay(Loading)' = {s}
        BY <2>1, <3>1, <3>3 DEF UnderWay
      <4>2. seen'.listing = "waiting" => kind = "tickets"
        BY <3>1, <3>3 DEF Muddled, ListOK
      <4> QED
        BY <2>1, <3>1, <4>1, <4>2 DEF ListOK
    <3> QED
      BY <3>2, <3>3
  <2>3. OpeningOK'
    <3>1. UnderWay(Opening)' = UnderWay(Opening) /\ s \notin UnderWay(Opening)
      BY <2>1, NoCallTyped DEF UnderWay, Opening, Loading, Lists
    <3> QED
      BY <1>6, <2>1, <3>1 DEF StartsLoading, OpeningOK, UnderWay
  <2> QED
    BY <2>2, <2>3
<1>7. ASSUME NEW s \in Slots, NEW call \in CallRow, StartsQuietly(s, call)
      PROVE  ListOK' /\ OpeningOK'
  <2>1. call.kind \notin Loading \cup Opening
    BY <1>7 DEF StartsQuietly, Loading, Lists, Opening
  <2> QED
    BY <1>7, <2>1, BeginElsewhere DEF StartsQuietly, Elsewhere
<1>8. ASSUME NEW s \in Slots, NEW call \in CallRow, Submits(s, call)
      PROVE  ListOK' /\ OpeningOK'
  <2>1. call.kind \notin Loading \cup Opening
    BY <1>8 DEF Submits, Call, Loading, Lists, Opening
  <2> QED
    BY <1>8, <2>1, BeginElsewhere DEF Submits, Elsewhere
<1>9. ASSUME NEW s \in Slots, NEW kind \in Opening, NEW t \in Nat, Opens(s, kind, t)
      PROVE  ListOK' /\ OpeningOK'
  <2>1. calls'[s].kind = kind /\ calls'[s].about = t /\ \A u \in Slots \ {s} : calls'[u] = calls[u]
    BY <1>9 DEF Opens, Call, PanelTypeOK, CallsTyped
  <2>2. calls[s].kind \notin Loading \cup Opening
    BY <1>9, NoCallTyped DEF Opens, Loading, Lists, Opening
  <2>3. ListOK'
    <3>1. UnderWay(Loading)' = UnderWay(Loading) /\ s \notin UnderWay(Loading)
      BY <2>1, <2>2 DEF UnderWay, Opening, Loading, Lists
    <3> QED
      BY <1>9, <2>1, <3>1 DEF Opens, ListOK, UnderWay
  <2>4. OpeningOK'
    <3>1. seen'.muddled = (UnderWay(Opening) # {}) /\ seen'.opened = t /\ state'.ticket = 0
      BY <1>9 DEF Opens
    <3>2. UnderWay(Opening) = {} => UnderWay(Opening)' = {s}
      BY <2>1 DEF UnderWay
    <3> QED
      BY <2>1, <3>1, <3>2 DEF OpeningOK
  <2> QED
    BY <2>3, <2>4
<1>10. ASSUME NEW s \in Slots, Asks(s)
       PROVE  ListOK' /\ OpeningOK'
  <2> DEFINE call == Call("ask", 0, 0, state.conversationId, {})
  <2>1. call.kind \notin Loading \cup Opening
    BY DEF Call, Loading, Lists, Opening
  <2> QED
    BY <1>10, <2>1, BeginElsewhere DEF Asks, Elsewhere
<1>11. ASSUME NEW s \in Slots, LoadingEnds(s)
       PROVE  ListOK' /\ OpeningOK'
  <2>1. calls'[s] = NoCall /\ \A u \in Slots \ {s} : calls'[u] = calls[u]
    BY <1>11 DEF LoadingEnds, Ends, PanelTypeOK, CallsTyped
  <2>2. seen'.listing # "waiting"
    BY <1>11 DEF LoadingEnds, ListOK, UnderWay
  <2>3. UnderWay(Opening)' = UnderWay(Opening) /\ s \notin UnderWay(Opening)
    BY <1>11, <2>1, NoCallTyped DEF LoadingEnds, UnderWay, Opening, Loading, Lists
  <2>4. OpeningOK'
    BY <1>11, <2>1, <2>3 DEF LoadingEnds, OpeningOK, UnderWay
  <2> QED
    BY <2>2, <2>4 DEF ListOK
<1>12. ASSUME NEW s \in Slots, AskEnds(s) \/ QuietEnds(s) \/ UploadEnds(s)
       PROVE  ListOK' /\ OpeningOK'
  <2>1. Ends(s) /\ calls[s].kind \notin Loading \cup Opening
    BY <1>12 DEF AskEnds, QuietEnds, UploadEnds, Loading, Lists, Opening
  <2> QED
    BY <1>12, <2>1, EndElsewhere DEF AskEnds, QuietEnds, UploadEnds, Elsewhere
<1>13. ASSUME NEW s \in Slots, OpeningEnds(s)
       PROVE  ListOK' /\ OpeningOK'
  <2>1. calls'[s] = NoCall /\ \A u \in Slots \ {s} : calls'[u] = calls[u]
    BY <1>13 DEF OpeningEnds, Ends, PanelTypeOK, CallsTyped
  <2>2. UnderWay(Loading)' = UnderWay(Loading) /\ s \notin UnderWay(Loading)
    BY <1>13, <2>1, NoCallTyped DEF OpeningEnds, UnderWay, Opening, Loading, Lists
  <2>3. ListOK'
    BY <1>13, <2>1, <2>2 DEF OpeningEnds, ListOK, UnderWay
  <2>4. UnderWay(Opening)' \subseteq UnderWay(Opening) \ {s}
    BY <2>1, NoCallTyped DEF UnderWay, Opening
  <2>5. state'.ticket \in {state.ticket} \cup {calls[u].about : u \in UnderWay(Opening)}
    BY <1>13 DEF OpeningEnds
  <2>6. OpeningOK'
    BY <1>13, <2>1, <2>4, <2>5 DEF OpeningEnds, OpeningOK, UnderWay
  <2> QED
    BY <2>3, <2>6
<1>14. ASSUME NEW s \in Slots, GoesOnToLink(s)
       PROVE  ListOK' /\ OpeningOK'
  <2> DEFINE call == Call("link", Len(server.tickets) + 1, calls[s].text, calls[s].conv,
                          state.pendingAttachments)
  <2>1. call.kind \notin Loading \cup Opening /\ calls[s].kind \notin Loading \cup Opening
    BY <1>14 DEF GoesOnToLink, Call, Loading, Lists, Opening
  <2> QED
    BY <1>14, <2>1, CallElsewhere DEF GoesOnToLink, Elsewhere
<1>15. ASSUME NEW s \in Slots, RaiseEnds(s) \/ LinkEnds(s) \/ SubmissionFails(s)
       PROVE  ListOK' /\ OpeningOK'
  <2>1. Ends(s) /\ calls[s].kind \notin Loading \cup Opening
    BY <1>15 DEF RaiseEnds, LinkEnds, SubmissionFails, Tells, Loading, Lists, Opening
  <2> QED
    BY <1>15, <2>1, EndElsewhere DEF RaiseEnds, LinkEnds, SubmissionFails, Tells, Elsewhere
<1> QED
  BY <1>1, <1>2, <1>3, <1>4, <1>5, <1>6, <1>7, <1>8, <1>9, <1>10, <1>11, <1>12, <1>13, <1>14,
     <1>15 DEF Effect

-----------------------------------------------------------------------------
LEMMA PanelInvInit == Init => PanelInv
<1> SUFFICES ASSUME Init PROVE PanelInv
  OBVIOUS
<1> USE NoCallTyped
<1>1. PICK link \in Links : state = Fresh(link)
  BY DEF Init
<1>2. /\ state \in PanelState /\ state.view = "home" /\ state.chat.question = 0
      /\ state.conversationId = 0 /\ state.ticket = 0 /\ state.pendingAttachments = {}
  BY <1>1 DEF Fresh, NoChat, PanelState, Views
<1>3. \A s \in Slots : calls[s] \in {NoCall, FirstBoot}
  BY DEF Init
<1>4. CallsTyped
  BY <1>3 DEF Init, CallsTyped
<1>5. PICK n \in Nat :
        server = [tickets |-> [i \in 1..n |-> [text |-> 0, conv |-> 0]],
                  linked |-> [f \in Files |-> 0], convs |-> 0]
  BY PanelAssumption DEF Init
<1>6. /\ server \in Server /\ server.convs = 0
      /\ \A i \in Raised : server.tickets[i].text = 0 /\ server.tickets[i].conv = 0
  <2> DEFINE ticket == [text |-> 0, conv |-> 0]
             tickets == [i \in 1..n |-> ticket]
  <2>1. ticket \in [text : Nat, conv : Nat] /\ ticket.text = 0 /\ ticket.conv = 0
    OBVIOUS
  <2> HIDE DEF ticket
  <2>2. tickets \in Seq([text : Nat, conv : Nat]) /\ \A i \in DOMAIN tickets : tickets[i] = ticket
    BY <2>1
  <2>3. server.tickets = tickets /\ server.convs = 0
    BY <1>5 DEF ticket
  <2> HIDE DEF tickets
  <2>4. server = [tickets |-> tickets, linked |-> [f \in Files |-> 0], convs |-> 0]
    BY <1>5 DEF tickets, ticket
  <2>5. server \in Server
    BY <2>2, <2>4 DEF Server
  <2> QED
    BY <2>1, <2>2, <2>3, <2>5 DEF Raised
<1>7. /\ seen \in SeenRow /\ seen.typed = 0 /\ seen.taken = {} /\ seen.listing = "never"
  BY DEF Init, SeenRow
<1>8. used \in Used /\ used.texts = 0 /\ draft = 0 /\ button = TRUE
  BY DEF Init, Used
<1>9. PanelTypeOK
  BY <1>2, <1>4, <1>6, <1>7, <1>8 DEF PanelTypeOK
<1>10. OnePress /\ LinksOK /\ OpeningOK
  BY <1>2, <1>3 DEF OnePress, LinksOK, OpeningOK, UnderWay, Pressing, Opening
<1>11. TextsSoFar /\ TextOnce /\ QuestionNew
  BY <1>2, <1>3, <1>6, <1>8 DEF TextsSoFar, TextOnce, QuestionNew, UnderWay
<1>12. ConvsSoFar /\ ConvOnce
  BY <1>2, <1>3, <1>6 DEF ConvsSoFar, ConvOnce, Free, UnderWay
<1>13. TypedKept /\ FilesKept /\ ListOK
  BY <1>7 DEF TypedKept, FilesKept, ListOK
<1> QED
  BY <1>9, <1>10, <1>11, <1>12, <1>13 DEF PanelInv

LEMMA PanelInvNext == PanelInv /\ [Next]_vars => PanelInv'
<1> SUFFICES ASSUME PanelInv, [Next]_vars PROVE PanelInv'
  OBVIOUS
<1>1. CASE Effect
  <2>1. PanelTypeOK
    BY DEF PanelInv
  <2> QED
    BY <1>1, <2>1, EffectTyped, OnePressStep, TextsSoFarStep, TextOnceStep, QuestionNewStep,
       LinksOKStep, ConvsSoFarStep, ConvOnceStep, TypedKeptStep, FilesKeptStep, WatchedStep DEF PanelInv
<1>2. CASE Stays
  <2>1. /\ state' = state /\ draft' = draft /\ button' = button /\ calls' = calls
        /\ server' = server /\ seen' = seen /\ used' = used
    BY <1>2 DEF Stays
  <2>2. PanelTypeOK'
    BY <2>1 DEF PanelInv, PanelTypeOK, CallsTyped, PanelState, Server, SeenRow, Used
  <2>3. Raised' = Raised /\ \A kinds : UnderWay(kinds)' = UnderWay(kinds)
    BY <2>1 DEF Raised, UnderWay
  <2>4. OnePress' /\ LinksOK' /\ ListOK' /\ OpeningOK'
    BY <2>1, <2>3 DEF PanelInv, OnePress, LinksOK, ListOK, OpeningOK
  <2>5. TextsSoFar' /\ TextOnce' /\ QuestionNew' /\ TypedKept' /\ FilesKept'
    BY <2>1, <2>3 DEF PanelInv, TextsSoFar, TextOnce, QuestionNew, Linking, TypedKept, Ticketed,
       FilesKept
  <2>6. ConvsSoFar' /\ ConvOnce'
    BY <2>1, <2>3 DEF PanelInv, ConvsSoFar, ConvOnce, Free, Linking
  <2> QED
    BY <2>2, <2>4, <2>5, <2>6 DEF PanelInv
<1>3. CASE UNCHANGED vars
  BY <1>2, <1>3 DEF vars, Stays
<1> QED
  BY <1>1, <1>2, <1>3, NextEffect DEF PanelInv

(* The other fields of the forms.                                           *)

FieldRow == [subject : Nat, choice : Nat, reply : Nat, saved : Nat]

EnteredRow == [last : [Fields -> Nat], count : Nat, excused : SUBSET Nat]

FieldsTyped ==
  /\ fields \in FieldRow
  /\ carried \in [Slots -> [Fields -> Nat]]
  /\ arrived \subseteq Nat
  /\ entered \in EnteredRow

(* Entries are numbered in the order they are made.                         *)
EntriesSoFar ==
  /\ fields.saved <= entered.count
  /\ \A field \in Fields : fields[field] <= entered.count
  /\ \A s \in Slots, field \in Fields : carried[s][field] <= entered.count

(* What is not saved is only where it is typed.                             *)
OnScreen ==
  /\ fields.reply # 0 => state.view = "ticket"
  /\ fields.choice # 0 \/ fields.subject # fields.saved => state.view = "create"

(* The calls that carry entries.                                            *)
Bearing == {"raise", "link", "reply"}

Bears ==
  \A s \in Slots :
    /\ calls[s].kind \notin Bearing => carried[s] = NoEntry
    /\ calls[s].kind = "reply" => carried[s].subject = 0 /\ carried[s].choice = 0
    /\ calls[s].kind \in {"raise", "link"} => carried[s].reply = 0
    /\ calls[s].kind = "link" => \A field \in Fields : carried[s][field] \in arrived

(* The last subject, when it is saved, is shown, and no submission that     *)
(* carries another can end without giving a reason.                         *)
SavedOK ==
  LET last == entered.last["subject"] IN
  last # 0 /\ fields.saved = last =>
    /\ fields.subject = last
    /\ \A s \in UnderWay({"raise", "link"}) :
         carried[s].subject = last \/ last \in arrived \cup entered.excused

FieldInv ==
  /\ FieldsTyped /\ EntriesSoFar
  /\ OnScreen /\ Bears /\ SavedOK
  /\ FieldsKept

-----------------------------------------------------------------------------
(* The steps as the fields see them.                                        *)

Others(s) ==
  /\ \A u \in Slots \ {s} : calls'[u] = calls[u]
  /\ carried' = [carried EXCEPT ![s] = carried'[s]]

(* No call that carries an entry begins or ends.                            *)
SameBearers ==
  /\ UNCHANGED <<carried, arrived>>
  /\ \A s \in Slots :
       \/ calls'[s] = calls[s]
       \/ calls[s].kind \notin Bearing /\ calls'[s].kind \notin Bearing

Redrawn == Redraw /\ SameBearers

Emptied == Redraws(0, Unsaved \cup {fields.saved}) /\ SameBearers

LeftAlone == UNCHANGED <<fields, entered>> /\ state'.view = state.view /\ SameBearers

Saves ==
  /\ state'.view = state.view /\ SameBearers /\ UNCHANGED calls
  /\ fields' = [fields EXCEPT !.saved = fields.subject]
  /\ entered' = IF UnderWay({"raise", "link"}) = {} THEN entered
                ELSE [entered EXCEPT !.excused = entered.excused \cup {fields.subject}]

Enters(field) ==
  /\ state'.view = state.view /\ SameBearers /\ UNCHANGED calls
  /\ state.view = IF field = "reply" THEN "ticket" ELSE "create"
  /\ fields' = [fields EXCEPT ![field] = entered.count + 1]
  /\ entered' = [entered EXCEPT !.last[field] = entered.count + 1, !.count = entered.count + 1]

Presses(s) ==
  /\ Redraws(fields.saved, {})
  /\ calls[s] = NoCall /\ Others(s)
  /\ arrived' = arrived
  /\ \/ /\ state.view = "create" /\ calls'[s].kind = "raise"
        /\ carried'[s] = [NoEntry EXCEPT !.subject = fields.subject, !.choice = fields.choice]
     \/ /\ state.view = "ticket" /\ calls'[s].kind = "reply"
        /\ carried'[s] = [NoEntry EXCEPT !.reply = fields.reply]

(* What call s carries is at the server, or not.                            *)
MayArrive(s) == Arrives(s) \/ UNCHANGED arrived

Replied(s) ==
  /\ calls[s].kind = "reply" /\ calls'[s].kind \notin Bearing
  /\ Others(s) /\ carried'[s] = NoEntry
  /\ MayArrive(s)
  /\ \/ Arrives(s) /\ Redraws(fields.saved, Unsaved)
     \/ Redraws(fields.saved, Unsaved \cup {carried[s].reply})

GoesOn(s) ==
  /\ calls[s].kind = "raise" /\ calls'[s].kind = "link"
  /\ Others(s) /\ carried'[s] = carried[s]
  /\ Arrives(s)
  /\ state'.view = state.view /\ UNCHANGED <<fields, entered>>

Ended(s) ==
  /\ calls[s].kind \in {"raise", "link"} /\ calls'[s].kind \notin Bearing
  /\ Others(s) /\ carried'[s] = NoEntry
  /\ MayArrive(s)

Told(s) ==
  /\ Ended(s)
  /\ Arrives(s) \/ calls[s].kind = "link"
  /\ Redraws(0, Unsaved)

GivenBack(s) ==
  /\ Ended(s)
  /\ Redraws(carried[s].subject, Unsaved \cup {carried[s].choice})

Left ==
  /\ Redraws(fields.saved, Unsaved \cup CarriedBy(Bearing))
  /\ \A s \in Slots : calls'[s].kind \notin Bearing
  /\ carried' = [s \in Slots |-> NoEntry]
  /\ arrived \subseteq arrived' /\ arrived' \subseteq Nat

FieldStep ==
  \/ Redrawn \/ Emptied \/ LeftAlone \/ Saves \/ Left
  \/ \E field \in Fields : Enters(field)
  \/ \E s \in Slots : Presses(s) \/ Replied(s) \/ GoesOn(s) \/ Told(s) \/ GivenBack(s)

-----------------------------------------------------------------------------
LEMMA CallStartsQuietly ==
  ASSUME NEW call, call.kind \notin Bearing, UNCHANGED <<carried, arrived>>, PanelTypeOK,
         \E s \in Slots : calls[s] = NoCall /\ calls' = [calls EXCEPT ![s] = call]
  PROVE  SameBearers
<1>1. PICK s \in Slots : calls[s] = NoCall /\ calls' = [calls EXCEPT ![s] = call]
  OBVIOUS
<1>2. calls'[s] = call /\ \A u \in Slots \ {s} : calls'[u] = calls[u]
  BY <1>1 DEF PanelTypeOK, CallsTyped
<1>3. calls[s].kind \notin Bearing /\ calls'[s].kind \notin Bearing
  BY <1>1, <1>2, NoCallTyped DEF Bearing
<1> QED
  BY <1>2, <1>3 DEF SameBearers

LEMMA CallEndsQuietly ==
  ASSUME NEW s \in Slots, calls[s].kind \notin Bearing, UNCHANGED <<carried, arrived>>,
         PanelTypeOK, Ends(s)
  PROVE  SameBearers
<1>1. calls'[s] = NoCall /\ \A u \in Slots \ {s} : calls'[u] = calls[u]
  BY DEF Ends, PanelTypeOK, CallsTyped
<1>2. calls'[s].kind \notin Bearing
  BY <1>1, NoCallTyped DEF Bearing
<1> QED
  BY <1>1, <1>2 DEF SameBearers

LEMMA NoCallsBut ==
  ASSUME UNCHANGED <<calls, carried, arrived>>
  PROVE  SameBearers
BY DEF SameBearers

LEMMA SimpleKind ==
  /\ \A kind : Simple(kind).kind = kind
  /\ \A kind, about, text, conv, files : Call(kind, about, text, conv, files).kind = kind
BY DEF Simple, Call

(* What calls carry where one of them starts, goes on or ends.              *)
LEMMA CarriesOne ==
  ASSUME PanelTypeOK, FieldsTyped, NEW s \in Slots, NEW call, NEW what,
         call.kind # calls[s].kind, calls' = [calls EXCEPT ![s] = call], Carries(what)
  PROVE  Others(s) /\ carried'[s] = what /\ calls'[s] = call
<1>1. calls'[s] = call /\ \A u \in Slots \ {s} : calls'[u] = calls[u]
  BY DEF PanelTypeOK, CallsTyped
<1>2. call # calls[s]
  OBVIOUS
<1>3. \A u \in Slots : carried'[u] = IF calls'[u] # calls[u] THEN what ELSE carried[u]
  BY DEF Carries
<1>4. carried' = [carried EXCEPT ![s] = what] /\ carried'[s] = what
  BY <1>1, <1>2, <1>3 DEF Carries, FieldsTyped
<1> QED
  BY <1>1, <1>4 DEF Others

LEMMA CarriesEnds ==
  ASSUME PanelTypeOK, FieldsTyped, NEW s \in Slots, NEW what,
         "none" # calls[s].kind, Ends(s), Carries(what)
  PROVE  Others(s) /\ carried'[s] = what /\ calls'[s].kind = "none"
BY CarriesOne, NoCallTyped DEF Ends

LEMMA UserRedraws ==
  ASSUME PanelTypeOK, FieldsTyped,
         Boot \/ Tile \/ DeepLink \/ SearchDocs \/ Back \/ Restart \/ DoAsk \/ OpenTicket
         \/ OpenArticle \/ \E f \in Files : RemoveFile(f)
  PROVE  Redrawn
<1> USE SimpleKind
<1>1. ASSUME NEW list \in Lists, LoadList(list) PROVE Redrawn
  <2>1. Redraw /\ Starts(Simple(list)) /\ Simple(list).kind \notin Bearing
    BY <1>1 DEF LoadList, Render, Bearing, Lists
  <2> QED
    BY <2>1, CallStartsQuietly DEF Redrawn, Redraw, Starts
<1>2. ASSUME NEW view, Shows(view) PROVE Redrawn
  BY <1>2, NoCallsBut DEF Shows, Render, Redraw, Redrawn
<1>3. CASE Boot
  <2>1. Redraw /\ Starts(Simple("config")) /\ Simple("config").kind \notin Bearing
    BY <1>3 DEF Boot, Render, Bearing
  <2> QED
    BY <2>1, CallStartsQuietly DEF Redrawn, Redraw, Starts
<1>4. CASE DeepLink
  <2>1. CASE /\ state.link \in Lists
             /\ \E s \in Slots :
                  calls[s] = NoCall /\ calls' = [calls EXCEPT ![s] = Simple(state.link)]
             /\ Render
    <3>1. Simple(state.link).kind \notin Bearing
      BY <2>1 DEF Bearing, Lists
    <3> QED
      BY <2>1, <3>1, CallStartsQuietly DEF Redrawn, Redraw, Render
  <2> QED
    BY <1>2, <1>4, <2>1 DEF DeepLink
<1>5. CASE DoAsk
  <2> DEFINE call == Call("ask", 0, 0, state.conversationId, {})
  <2>1. \E s \in Slots : calls[s] = NoCall /\ calls' = [calls EXCEPT ![s] = call]
    BY <1>5 DEF DoAsk
  <2>2. Redraw
    BY <1>5 DEF DoAsk, Render
  <2>3. call.kind \notin Bearing
    BY DEF Bearing
  <2> HIDE DEF call
  <2> QED
    BY <2>1, <2>2, <2>3, CallStartsQuietly DEF Redrawn, Redraw
<1>6. CASE OpenTicket
  <2>1. PICK t \in Raised : Starts(Call("ticket", t, 0, 0, {}))
    BY <1>6 DEF OpenTicket
  <2> DEFINE call == Call("ticket", t, 0, 0, {})
  <2>2. Redraw /\ Starts(call) /\ call.kind \notin Bearing
    BY <1>6, <2>1 DEF OpenTicket, Render, Bearing
  <2> HIDE DEF call
  <2> QED
    BY <2>2, CallStartsQuietly DEF Redrawn, Redraw, Starts
<1>7. CASE OpenArticle
  <2>1. Redraw /\ Starts(Simple("article")) /\ Simple("article").kind \notin Bearing
    BY <1>7 DEF OpenArticle, Render, Bearing
  <2> QED
    BY <2>1, CallStartsQuietly DEF Redrawn, Redraw, Starts
<1>8. CASE Restart \/ \E f \in Files : RemoveFile(f)
  BY <1>8, NoCallsBut DEF Restart, RemoveFile, Render, Redraw, Redrawn
<1> QED
  BY <1>1, <1>2, <1>3, <1>4, <1>5, <1>6, <1>7, <1>8 DEF Tile, SearchDocs, Back, Lists

LEMMA AnswerRedraws ==
  ASSUME PanelTypeOK, NEW s \in Slots,
         ConfigAnswered(s) \/ ListAnswered(s) \/ AskAnswered(s) \/ ArticleAnswered(s)
         \/ TicketAnswered(s) \/ UploadAnswered(s)
  PROVE  Redrawn
<1>1. calls[s].kind \notin Bearing /\ Ends(s) /\ Redraw
  BY DEF ConfigAnswered, ListAnswered, AskAnswered, ArticleAnswered, TicketAnswered,
         UploadAnswered, Render, Bearing, Lists, Opening
<1> QED
  BY <1>1, CallEndsQuietly DEF Redrawn, Redraw

LEMMA SubmitPresses ==
  ASSUME PanelTypeOK, FieldsTyped, SubmitTicket \/ SubmitReply
  PROVE  \E s \in Slots : Presses(s)
<1>1. CASE SubmitTicket
  <2> DEFINE call == Call("raise", 0, draft, state.conversationId, {})
             what == [NoEntry EXCEPT !.subject = fields.subject, !.choice = fields.choice]
  <2>1. Starts(call) /\ call.kind = "raise" /\ Carries(what)
    BY <1>1, SimpleKind DEF SubmitTicket
  <2> HIDE DEF call, what
  <2>2. PICK s \in Slots : calls[s] = NoCall /\ calls' = [calls EXCEPT ![s] = call]
    BY <2>1 DEF Starts
  <2>3. Others(s) /\ carried'[s] = what /\ calls'[s] = call
    BY <2>1, <2>2, CarriesOne, NoCallTyped
  <2> QED
    BY <1>1, <2>1, <2>2, <2>3 DEF SubmitTicket, CreateView, At, Presses, what
<1>2. CASE SubmitReply
  <2> DEFINE call == Call("reply", state.ticket, 0, 0, {})
             what == [NoEntry EXCEPT !.reply = fields.reply]
  <2>1. Starts(call) /\ call.kind = "reply" /\ Carries(what)
    BY <1>2, SimpleKind DEF SubmitReply
  <2> HIDE DEF call, what
  <2>2. PICK s \in Slots : calls[s] = NoCall /\ calls' = [calls EXCEPT ![s] = call]
    BY <2>1 DEF Starts
  <2>3. Others(s) /\ carried'[s] = what /\ calls'[s] = call
    BY <2>1, <2>2, CarriesOne, NoCallTyped
  <2> QED
    BY <1>2, <2>1, <2>2, <2>3 DEF SubmitReply, TicketView, At, Presses, what
<1> QED
  BY <1>1, <1>2

LEMMA ReplyReplied ==
  ASSUME PanelTypeOK, FieldsTyped, NEW s \in Slots, ReplyAnswered(s)
  PROVE  Replied(s)
<1>1. calls[s].kind = "reply" /\ Carries(NoEntry)
  BY DEF ReplyAnswered
<1>2. Others(s) /\ carried'[s] = NoEntry /\ calls'[s].kind \notin Bearing
  <2>1. CASE Ends(s)
    BY <1>1, <2>1, CarriesEnds DEF Bearing
  <2>2. CASE ~Ends(s)
    <3> DEFINE call == Call("refresh", state.ticket, 0, 0, {})
    <3>1. calls' = [calls EXCEPT ![s] = call] /\ call.kind = "refresh"
      BY <2>2, SimpleKind DEF ReplyAnswered
    <3> HIDE DEF call
    <3> QED
      BY <1>1, <3>1, CarriesOne DEF Bearing
  <2> QED
    BY <2>1, <2>2
<1>3. \/ Arrives(s) /\ Redraws(fields.saved, Unsaved)
      \/ MayArrive(s) /\ Redraws(fields.saved, Unsaved \cup {carried[s].reply})
  BY DEF ReplyAnswered, MayArrive
<1> QED
  BY <1>1, <1>2, <1>3 DEF Replied, MayArrive

LEMMA SubmissionEnded ==
  ASSUME PanelTypeOK, FieldsTyped, NEW s \in Slots, calls[s].kind \in {"raise", "link"},
         MayArrive(s)
  PROVE  /\ \A t : Succeeds(s, t) /\ (Arrives(s) \/ calls[s].kind = "link") => Told(s)
         /\ Fails(s) => GivenBack(s)
<1>1. Ends(s) /\ Carries(NoEntry) => Ended(s)
  BY CarriesEnds DEF Ended, Bearing
<1> QED
  BY <1>1 DEF Succeeds, Fails, GivesBack, Told, GivenBack

LEMMA RaiseFields ==
  ASSUME PanelTypeOK, FieldsTyped, NEW s \in Slots, RaiseAnswered(s)
  PROVE  GoesOn(s) \/ Told(s) \/ GivenBack(s)
<1>1. calls[s].kind = "raise" /\ MayArrive(s)
  BY DEF RaiseAnswered, MayArrive
<1>2. CASE \E t : Succeeds(s, t) /\ Arrives(s)
  BY <1>1, <1>2, SubmissionEnded
<1>3. CASE Fails(s)
  BY <1>1, <1>3, SubmissionEnded
<1>4. CASE /\ Arrives(s) /\ UNCHANGED <<state, fields, carried, entered>>
           /\ \E t, text, conv, files :
                calls' = [calls EXCEPT ![s] = Call("link", t, text, conv, files)]
  <2>0. PICK t, text, conv, files :
             calls' = [calls EXCEPT ![s] = Call("link", t, text, conv, files)]
    BY <1>4
  <2> DEFINE call == Call("link", t, text, conv, files)
  <2>1. calls' = [calls EXCEPT ![s] = call] /\ call.kind = "link"
    BY <2>0, SimpleKind
  <2> HIDE DEF call
  <2>2. calls'[s] = call /\ \A u \in Slots \ {s} : calls'[u] = calls[u]
    BY <2>1 DEF PanelTypeOK, CallsTyped
  <2>3. carried' = [carried EXCEPT ![s] = carried[s]]
    BY <1>4 DEF FieldsTyped
  <2> QED
    BY <1>1, <1>4, <2>1, <2>2, <2>3 DEF GoesOn, Others
<1> QED
  BY <1>2, <1>3, <1>4 DEF RaiseAnswered

LEMMA LinkFields ==
  ASSUME PanelTypeOK, FieldsTyped, NEW s \in Slots, LinkAnswered(s)
  PROVE  Told(s) \/ GivenBack(s)
<1>1. /\ calls[s].kind = "link" /\ MayArrive(s)
      /\ Fails(s) \/ \E t : Succeeds(s, t)
  BY DEF LinkAnswered, MayArrive
<1> QED
  BY <1>1, SubmissionEnded

LEMMA CarriedTyped ==
  ASSUME FieldsTyped
  PROVE  /\ \A s \in Slots : /\ carried[s] \in [Fields -> Nat]
                             /\ {carried[s][field] : field \in Fields} \subseteq Nat
                             /\ carried[s].subject \in Nat /\ carried[s].choice \in Nat
                             /\ carried[s].reply \in Nat
         /\ \A kinds : CarriedBy(kinds) \subseteq Nat
         /\ NoEntry \in [Fields -> Nat] /\ \A field \in Fields : NoEntry[field] = 0
         /\ \A field \in Fields : fields[field] \in Nat
         /\ fields.subject \in Nat /\ fields.choice \in Nat /\ fields.reply \in Nat
         /\ fields.saved \in Nat /\ Unsaved \subseteq Nat
         /\ entered.last \in [Fields -> Nat] /\ entered.count \in Nat
         /\ entered.excused \subseteq Nat
<1>1. \A s \in Slots : /\ carried[s] \in [Fields -> Nat]
                       /\ {carried[s][field] : field \in Fields} \subseteq Nat
                       /\ carried[s].subject \in Nat /\ carried[s].choice \in Nat
                       /\ carried[s].reply \in Nat
  BY DEF FieldsTyped, Fields
<1>2. \A kinds : CarriedBy(kinds) \subseteq Nat
  BY <1>1 DEF CarriedBy, UnderWay
<1>3. NoEntry \in [Fields -> Nat] /\ \A field \in Fields : NoEntry[field] = 0
  BY DEF NoEntry
<1>4. /\ \A field \in Fields : fields[field] \in Nat
      /\ fields.subject \in Nat /\ fields.choice \in Nat /\ fields.reply \in Nat
      /\ fields.saved \in Nat
  BY DEF FieldsTyped, FieldRow, Fields
<1>5. /\ entered.last \in [Fields -> Nat] /\ entered.count \in Nat
      /\ entered.excused \subseteq Nat
  BY DEF FieldsTyped, EnteredRow
<1> QED
  BY <1>1, <1>2, <1>3, <1>4, <1>5 DEF Unsaved

LEMMA LeaveFields == ASSUME PanelTypeOK, FieldsTyped, LeavePage PROVE Left
<1>1. /\ Redraws(fields.saved, Unsaved \cup CarriedBy(Bearing))
      /\ carried' = [s \in Slots |-> NoEntry]
      /\ \A s \in Slots : calls'[s] \in {NoCall, FirstBoot}
  BY DEF LeavePage, Bearing
<1>2. arrived \subseteq arrived' /\ arrived' \subseteq Nat
  <2>1. \E made \in {{}, CarriedBy({"raise"})} :
          arrived' \in {arrived \cup made, arrived \cup made \cup CarriedBy({"reply"})}
    BY DEF LeavePage
  <2> QED
    BY <2>1, CarriedTyped DEF FieldsTyped
<1> QED
  BY <1>1, <1>2, NoCallTyped DEF Left, Bearing

LEMMA FieldEffect == ASSUME PanelTypeOK, FieldsTyped, Next PROVE FieldStep
<1>1. CASE DeepLink \/ Boot \/ Tile \/ SearchDocs \/ Back \/ Restart \/ DoAsk \/ OpenTicket
           \/ OpenArticle \/ \E f \in Files : RemoveFile(f)
  BY <1>1, UserRedraws DEF FieldStep
<1>2. CASE Escalate
  BY <1>2, NoCallsBut DEF Escalate, Redraw, Redrawn, Emptied, FieldStep
<1>3. CASE Type
  BY <1>3, NoCallsBut DEF Type, Saves, FieldStep
<1>4. ASSUME NEW field \in TypedIn, Enter(field)
      PROVE  FieldStep
  <2>1. field \in Fields
    BY PanelAssumption
  <2> QED
    BY <1>4, <2>1, NoCallsBut
       DEF Enter, TicketView, CreateView, At, Enters, FieldStep
<1>5. CASE \E f \in Files : Upload(f)
  <2>1. PICK f \in Files : Upload(f)
    BY <1>5
  <2> DEFINE call == Call("upload", f, 0, 0, {})
  <2>2. /\ \E s \in Slots : calls[s] = NoCall /\ calls' = [calls EXCEPT ![s] = call]
        /\ UNCHANGED <<state, fieldVars>>
    BY <2>1 DEF Upload, Starts
  <2>3. call.kind \notin Bearing
    BY SimpleKind DEF Bearing
  <2> HIDE DEF call
  <2> QED
    BY <2>2, <2>3, CallStartsQuietly DEF LeftAlone, FieldStep, fieldVars
<1>6. CASE SubmitTicket \/ SubmitReply
  BY <1>6, SubmitPresses DEF FieldStep
<1>7. CASE LeavePage
  BY <1>7, LeaveFields DEF FieldStep
<1>8. ASSUME NEW s \in Slots, Answer(s)
      PROVE  FieldStep
  BY <1>8, AnswerRedraws, ReplyReplied, RaiseFields, LinkFields DEF Answer, FieldStep
<1> QED
  BY <1>1, <1>2, <1>3, <1>4, <1>5, <1>6, <1>7, <1>8 DEF Next, UserStep

-----------------------------------------------------------------------------
(* The invariant of the fields is kept.                                     *)

LEMMA RedrawsTo ==
  ASSUME FieldsTyped, NEW saved \in Nat, NEW given \in SUBSET Nat, Redraws(saved, given)
  PROVE  /\ fields' \in FieldRow
         /\ fields'.subject = saved /\ fields'.choice = 0 /\ fields'.reply = 0
         /\ fields'.saved = saved
         /\ \A field \in Fields : fields'[field] = IF field = "subject" THEN saved ELSE 0
         /\ entered' \in EnteredRow
         /\ entered'.last = entered.last /\ entered'.count = entered.count
         /\ entered'.excused = entered.excused \cup given
<1>1. fields' = [subject |-> saved, choice |-> 0, reply |-> 0, saved |-> saved]
  BY DEF Redraws, Drawn
<1>2. /\ entered' = [entered EXCEPT !.excused = entered.excused \cup given]
      /\ entered \in EnteredRow
  BY DEF Redraws, FieldsTyped
<1> QED
  BY <1>1, <1>2 DEF FieldRow, EnteredRow, Fields

LEMMA OthersCarry ==
  ASSUME FieldsTyped, NEW s \in Slots, Others(s)
  PROVE  /\ \A u \in Slots \ {s} : calls'[u] = calls[u] /\ carried'[u] = carried[u]
         /\ carried'[s] \in [Fields -> Nat] => carried' \in [Slots -> [Fields -> Nat]]
BY DEF Others, FieldsTyped

LEMMA ArriveTyped ==
  ASSUME FieldsTyped, NEW s \in Slots, MayArrive(s)
  PROVE  arrived \subseteq arrived' /\ arrived' \subseteq Nat
BY CarriedTyped DEF FieldsTyped, MayArrive, Arrives

(* The fields are drawn anew by every step but three.                       *)
Renews(saved, given) ==
  /\ saved \in Nat /\ given \in SUBSET Nat /\ Redraws(saved, given)
  /\ \/ saved \in {0, fields.saved}
     \/ \E s \in UnderWay({"raise", "link"}) : saved = carried[s].subject

LEMMA StepRenews ==
  ASSUME FieldsTyped, FieldStep
  PROVE  \/ \E saved, given : Renews(saved, given)
         \/ LeftAlone \/ Saves \/ \E field \in Fields : Enters(field)
         \/ \E s \in Slots : GoesOn(s)
<1> USE CarriedTyped
<1>1. CASE Redrawn
  BY <1>1 DEF Redrawn, Redraw, Renews
<1>2. CASE Emptied
  BY <1>2 DEF Emptied, Renews
<1>3. CASE Left
  BY <1>3 DEF Left, Renews
<1>4. ASSUME NEW s \in Slots, Presses(s) PROVE \E saved, given : Renews(saved, given)
  BY <1>4 DEF Presses, Renews
<1>5. ASSUME NEW s \in Slots, Replied(s) PROVE \E saved, given : Renews(saved, given)
  BY <1>5 DEF Replied, Renews
<1>6. ASSUME NEW s \in Slots, Told(s) PROVE \E saved, given : Renews(saved, given)
  BY <1>6 DEF Told, Renews
<1>7. ASSUME NEW s \in Slots, GivenBack(s) PROVE \E saved, given : Renews(saved, given)
  BY <1>7 DEF GivenBack, Ended, Renews, UnderWay
<1> QED
  BY <1>1, <1>2, <1>3, <1>4, <1>5, <1>6, <1>7 DEF FieldStep

(* What becomes of what the calls carry.                                    *)
LEMMA StepCarries ==
  ASSUME FieldsTyped, FieldStep
  PROVE  /\ carried' \in [Slots -> [Fields -> Nat]] /\ arrived \subseteq arrived'
         /\ arrived' \subseteq Nat
         /\ \A s \in Slots, field \in Fields :
              carried'[s][field] \in {0, carried[s][field], fields[field]}
<1> USE CarriedTyped
<1>1. CASE Redrawn \/ Emptied \/ LeftAlone \/ Saves \/ \E field \in Fields : Enters(field)
  BY <1>1 DEF Redrawn, Emptied, LeftAlone, Saves, Enters, SameBearers, FieldsTyped
<1>2. CASE Left
  BY <1>2 DEF Left
<1>3. ASSUME NEW s \in Slots, Presses(s)
      PROVE  /\ carried'[s] \in [Fields -> Nat]
             /\ \A field \in Fields : carried'[s][field] \in {0, fields[field]}
             /\ Others(s) /\ MayArrive(s)
  BY <1>3 DEF Presses, NoEntry, Fields, MayArrive
<1>4. ASSUME NEW s \in Slots, Replied(s) \/ GoesOn(s) \/ Told(s) \/ GivenBack(s)
      PROVE  /\ carried'[s] \in [Fields -> Nat]
             /\ \A field \in Fields : carried'[s][field] \in {0, carried[s][field]}
             /\ Others(s) /\ MayArrive(s)
  BY <1>4 DEF Replied, GoesOn, Told, GivenBack, Ended, MayArrive
<1> QED
  BY <1>1, <1>2, <1>3, <1>4, OthersCarry, ArriveTyped DEF FieldStep

LEMMA FieldsTypedStep == ASSUME FieldsTyped, FieldStep PROVE FieldsTyped'
<1>1. fields' \in FieldRow /\ entered' \in EnteredRow
  <2>1. ASSUME NEW saved, NEW given, Renews(saved, given)
        PROVE  fields' \in FieldRow /\ entered' \in EnteredRow
    BY <2>1, RedrawsTo DEF Renews
  <2>2. CASE LeftAlone \/ \E s \in Slots : GoesOn(s)
    BY <2>2 DEF LeftAlone, GoesOn, FieldsTyped
  <2>3. CASE Saves
    <3>1. fields' = [fields EXCEPT !.saved = fields.subject]
          /\ fields.subject \in Nat
      BY <2>3, CarriedTyped DEF Saves
    <3>2. \/ entered' = entered
          \/ entered' = [entered EXCEPT !.excused = entered.excused \cup {fields.subject}]
      BY <2>3 DEF Saves
    <3> QED
      BY <3>1, <3>2 DEF FieldsTyped, FieldRow, EnteredRow
  <2>4. ASSUME NEW field \in Fields, Enters(field)
        PROVE  fields' \in FieldRow /\ entered' \in EnteredRow
    <3> DEFINE n == entered.count + 1
    <3>1. n \in Nat
      BY CarriedTyped
    <3>2. /\ fields' = [fields EXCEPT ![field] = n]
          /\ entered' = [entered EXCEPT !.last[field] = n, !.count = n]
      BY <2>4 DEF Enters
    <3> HIDE DEF n
    <3> QED
      BY <3>1, <3>2 DEF FieldsTyped, FieldRow, EnteredRow, Fields
  <2> QED
    BY <2>1, <2>2, <2>3, <2>4, StepRenews
<1> QED
  BY <1>1, StepCarries DEF FieldsTyped

(* After a step that is not a drawing.                                      *)
LEMMA EntersTo ==
  ASSUME FieldsTyped, NEW field \in Fields, Enters(field)
  PROVE  /\ fields'[field] = entered.count + 1 /\ entered'.last[field] = entered.count + 1
         /\ entered'.count = entered.count + 1 /\ entered'.excused = entered.excused
         /\ \A other \in Fields \ {field} :
              fields'[other] = fields[other] /\ entered'.last[other] = entered.last[other]
         /\ fields'.saved = fields.saved
<1> DEFINE n == entered.count + 1
<1>1. n \in Nat
  BY CarriedTyped
<1>2. /\ fields' = [fields EXCEPT ![field] = n]
      /\ entered' = [entered EXCEPT !.last[field] = n, !.count = n]
  BY DEF Enters
<1> HIDE DEF n
<1>3. /\ fields'[field] = n /\ entered'.last[field] = n
      /\ entered'.count = n /\ entered'.excused = entered.excused
      /\ \A other \in Fields \ {field} :
           fields'[other] = fields[other] /\ entered'.last[other] = entered.last[other]
      /\ fields'.saved = fields.saved
  BY <1>1, <1>2 DEF FieldsTyped, FieldRow, EnteredRow, Fields
<1> QED
  BY <1>3 DEF n

LEMMA SavesTo ==
  ASSUME FieldsTyped, Saves
  PROVE  /\ \A field \in Fields : fields'[field] = fields[field]
         /\ fields'.saved = fields.subject /\ fields'.subject = fields.subject
         /\ fields'.choice = fields.choice /\ fields'.reply = fields.reply
         /\ entered'.last = entered.last /\ entered'.count = entered.count
         /\ entered.excused \subseteq entered'.excused
         /\ UnderWay({"raise", "link"}) # {} => fields.subject \in entered'.excused
<1>1. fields' = [fields EXCEPT !.saved = fields.subject]
  BY DEF Saves
<1>2. \/ entered' = entered /\ UnderWay({"raise", "link"}) = {}
      \/ entered' = [entered EXCEPT !.excused = entered.excused \cup {fields.subject}]
  BY DEF Saves
<1> QED
  BY <1>1, <1>2 DEF FieldsTyped, FieldRow, EnteredRow, Fields

LEMMA EntriesSoFarStep ==
  ASSUME FieldsTyped, EntriesSoFar, FieldStep
  PROVE  EntriesSoFar'
<1> USE CarriedTyped
<1> DEFINE Bounded == /\ entered'.count \in Nat /\ entered.count <= entered'.count
                      /\ fields'.saved <= entered'.count
                      /\ \A field \in Fields : fields'[field] <= entered'.count
<1>1. Bounded
  <2>1. ASSUME NEW saved, NEW given, Renews(saved, given)
        PROVE  Bounded
    <3>1. saved \in Nat /\ saved <= entered.count
      <4>1. CASE saved \in {0, fields.saved}
        BY <4>1 DEF EntriesSoFar
      <4>2. ASSUME NEW s \in UnderWay({"raise", "link"}), saved = carried[s].subject
            PROVE  saved \in Nat /\ saved <= entered.count
        BY <4>2 DEF EntriesSoFar, UnderWay, Fields
      <4> QED
        BY <2>1, <4>1, <4>2 DEF Renews
    <3> QED
      BY <2>1, <3>1, RedrawsTo DEF Renews
  <2>2. CASE LeftAlone \/ \E s \in Slots : GoesOn(s)
    BY <2>2 DEF LeftAlone, GoesOn, EntriesSoFar
  <2>3. CASE Saves
    BY <2>3, SavesTo DEF EntriesSoFar, Fields
  <2>4. ASSUME NEW field \in Fields, Enters(field)
        PROVE  Bounded
    BY <2>4, EntersTo DEF EntriesSoFar
  <2> QED
    BY <2>1, <2>2, <2>3, <2>4, StepRenews
<1>2. \A s \in Slots, field \in Fields : carried'[s][field] <= entered'.count
  <2> TAKE s \in Slots, field \in Fields
  <2>1. /\ carried'[s][field] \in {0, carried[s][field], fields[field]}
        /\ carried[s][field] \in Nat /\ carried[s][field] <= entered.count
        /\ fields[field] \in Nat /\ fields[field] <= entered.count
    BY StepCarries DEF EntriesSoFar
  <2> QED
    BY <1>1, <2>1
<1> QED
  BY <1>1, <1>2 DEF EntriesSoFar

LEMMA OnScreenStep == ASSUME FieldsTyped, OnScreen, FieldStep PROVE OnScreen'
<1>1. ASSUME NEW saved, NEW given, Renews(saved, given)
      PROVE  OnScreen'
  BY <1>1, RedrawsTo DEF Renews, OnScreen
<1>2. CASE LeftAlone \/ \E s \in Slots : GoesOn(s)
  BY <1>2 DEF LeftAlone, GoesOn, OnScreen
<1>3. CASE Saves
  BY <1>3, SavesTo DEF Saves, OnScreen
<1>4. ASSUME NEW field \in Fields, Enters(field)
      PROVE  OnScreen'
  <2>1. /\ state'.view = state.view
        /\ state.view = IF field = "reply" THEN "ticket" ELSE "create"
    BY <1>4 DEF Enters
  <2> QED
    BY <1>4, <2>1, EntersTo DEF OnScreen, Fields
<1> QED
  BY <1>1, <1>2, <1>3, <1>4, StepRenews

LEMMA SameBearersBears == ASSUME Bears, SameBearers PROVE Bears'
BY DEF Bears, SameBearers, Bearing

LEMMA BearsStep == ASSUME FieldsTyped, Bears, FieldStep PROVE Bears'
<1>1. CASE Redrawn \/ Emptied \/ LeftAlone \/ Saves \/ \E field \in Fields : Enters(field)
  BY <1>1, SameBearersBears DEF Redrawn, Emptied, LeftAlone, Saves, Enters
<1>2. CASE Left
  BY <1>2 DEF Left, Bears, Bearing
<1>3. ASSUME NEW s \in Slots, Presses(s) \/ Replied(s) \/ GoesOn(s) \/ Told(s) \/ GivenBack(s)
      PROVE  Bears'
  <2>1. Others(s) /\ arrived \subseteq arrived'
    BY <1>3, StepCarries DEF Presses, Replied, GoesOn, Told, GivenBack, Ended, FieldStep
  <2>2. ASSUME NEW u \in Slots \ {s}
        PROVE  /\ calls'[u].kind \notin Bearing => carried'[u] = NoEntry
               /\ calls'[u].kind = "reply" => carried'[u].subject = 0 /\ carried'[u].choice = 0
               /\ calls'[u].kind \in {"raise", "link"} => carried'[u].reply = 0
               /\ calls'[u].kind = "link" => \A field \in Fields : carried'[u][field] \in arrived'
    <3>1. calls'[u] = calls[u] /\ carried'[u] = carried[u]
      BY <2>1, OthersCarry
    <3> QED
      BY <2>1, <3>1 DEF Bears
  <2>3. /\ calls'[s].kind \notin Bearing => carried'[s] = NoEntry
        /\ calls'[s].kind = "reply" => carried'[s].subject = 0 /\ carried'[s].choice = 0
        /\ calls'[s].kind \in {"raise", "link"} => carried'[s].reply = 0
        /\ calls'[s].kind = "link" => \A field \in Fields : carried'[s][field] \in arrived'
    <3>1. CASE Presses(s)
      BY <3>1 DEF Presses, NoEntry, Fields, Bearing
    <3>2. CASE Replied(s) \/ Told(s) \/ GivenBack(s)
      BY <3>2 DEF Replied, Told, GivenBack, Ended, NoEntry, Fields, Bearing
    <3>3. CASE GoesOn(s)
      BY <3>3 DEF GoesOn, Arrives, Bears, Bearing
    <3> QED
      BY <1>3, <3>1, <3>2, <3>3
  <2> QED
    BY <2>2, <2>3 DEF Bears
<1> QED
  BY <1>1, <1>2, <1>3 DEF FieldStep

(* A redrawing that no submission takes part in.                            *)
LEMMA SavedOthers ==
  ASSUME FieldsTyped, SavedOK, NEW given \in SUBSET Nat, Redraws(fields.saved, given),
         arrived \subseteq arrived',
         \A u \in UnderWay({"raise", "link"})' :
           u \in UnderWay({"raise", "link"}) /\ carried'[u] = carried[u]
  PROVE  SavedOK'
<1>1. fields.saved \in Nat
  BY CarriedTyped
<1> QED
  BY <1>1, RedrawsTo DEF SavedOK

LEMMA SameBearersUnderWay ==
  ASSUME SameBearers
  PROVE  \A u \in Slots :
           /\ u \in UnderWay({"raise", "link"})' <=> u \in UnderWay({"raise", "link"})
           /\ carried'[u] = carried[u]
BY DEF SameBearers, UnderWay, Bearing

LEMMA SavedOKStep ==
  ASSUME FieldsTyped, EntriesSoFar, SavedOK, OnePress, CallsTyped, FieldStep
  PROVE  SavedOK'
<1> USE CarriedTyped
<1>0. arrived \subseteq arrived'
  BY StepCarries
<1>1. CASE Redrawn
  BY <1>0, <1>1, SavedOthers, SameBearersUnderWay DEF Redrawn, Redraw, UnderWay
<1>2. CASE Emptied
  <2>1. fields'.saved = 0
    BY <1>2, RedrawsTo DEF Emptied
  <2> QED
    BY <2>1 DEF SavedOK
<1>3. CASE LeftAlone
  BY <1>0, <1>3, SameBearersUnderWay DEF LeftAlone, SavedOK, UnderWay
<1>4. CASE Saves
  <2>1. SameBearers
    BY <1>4 DEF Saves
  <2> QED
    BY <1>4, <2>1, SavesTo, SameBearersUnderWay DEF SavedOK, UnderWay
<1>5. ASSUME NEW field \in Fields, Enters(field)
      PROVE  SavedOK'
  <2>1. CASE field = "subject"
    <3>1. entered'.last["subject"] = entered.count + 1 /\ fields'.saved <= entered.count
      BY <1>5, <2>1, EntersTo DEF EntriesSoFar
    <3>2. fields'.saved # entered'.last["subject"]
      BY <1>5, <3>1, EntersTo
    <3> QED
      BY <3>2 DEF SavedOK
  <2>2. CASE field # "subject"
    <3>1. /\ fields'.saved = fields.saved /\ fields'.subject = fields.subject
          /\ entered'.last["subject"] = entered.last["subject"]
          /\ entered'.excused = entered.excused
      BY <1>5, <2>2, EntersTo DEF Fields
    <3>2. SameBearers
      BY <1>5 DEF Enters
    <3> QED
      BY <1>0, <3>1, <3>2, SameBearersUnderWay DEF SavedOK, UnderWay
  <2> QED
    BY <2>1, <2>2
<1>6. CASE Left
  BY <1>0, <1>6, SavedOthers DEF Left, UnderWay, Bearing
<1>7. ASSUME NEW s \in Slots, Presses(s) PROVE SavedOK'
  <2>1. /\ \A u \in Slots \ {s} : calls'[u] = calls[u] /\ carried'[u] = carried[u]
        /\ Redraws(fields.saved, {})
    BY <1>7, OthersCarry DEF Presses
  <2>2. CASE calls'[s].kind = "reply"
    BY <1>0, <2>1, <2>2, SavedOthers DEF UnderWay
  <2>3. CASE carried'[s].subject = fields.subject
    <3>1. /\ fields'.saved = fields.saved /\ fields'.subject = fields.saved
          /\ entered'.last = entered.last /\ entered'.excused = entered.excused
      <4>1. fields.saved \in Nat /\ {} \in SUBSET Nat
        OBVIOUS
      <4>2. entered'.excused = entered.excused \cup {}
        BY <2>1, <4>1, RedrawsTo
      <4> QED
        BY <2>1, <4>1, <4>2, RedrawsTo
    <3> QED
      BY <1>0, <2>1, <2>3, <3>1 DEF SavedOK, UnderWay
  <2> QED
    BY <1>7, <2>2, <2>3 DEF Presses, NoEntry, Fields
<1>8. ASSUME NEW s \in Slots, Replied(s) PROVE SavedOK'
  <2>1. /\ \A u \in Slots \ {s} : calls'[u] = calls[u] /\ carried'[u] = carried[u]
        /\ calls'[s].kind \notin Bearing
        /\ \E given \in SUBSET Nat : Redraws(fields.saved, given)
    BY <1>8, OthersCarry DEF Replied
  <2> QED
    BY <1>0, <2>1, SavedOthers DEF UnderWay, Bearing
<1>9. ASSUME NEW s \in Slots, GoesOn(s) PROVE SavedOK'
  <2>1. /\ \A u \in Slots \ {s} : calls'[u] = calls[u] /\ carried'[u] = carried[u]
        /\ calls[s].kind = "raise" /\ carried'[s] = carried[s]
        /\ fields' = fields /\ entered' = entered
    BY <1>9, OthersCarry DEF GoesOn
  <2> QED
    BY <1>0, <2>1 DEF SavedOK, UnderWay
<1>10. ASSUME NEW s \in Slots, Told(s) PROVE SavedOK'
  <2>1. fields'.saved = 0
    BY <1>10, RedrawsTo DEF Told
  <2> QED
    BY <2>1 DEF SavedOK
<1>11. ASSUME NEW s \in Slots, GivenBack(s) PROVE SavedOK'
  <2>1. UnderWay({"raise", "link"})' = {}
    BY <1>11, OthersCarry DEF GivenBack, Ended, OnePress, UnderWay, Bearing, Pressing
  <2>2. fields'.subject = fields'.saved
    BY <1>11, RedrawsTo DEF GivenBack
  <2> QED
    BY <2>1, <2>2 DEF SavedOK
<1> QED
  BY <1>1, <1>2, <1>3, <1>4, <1>5, <1>6, <1>7, <1>8, <1>9, <1>10, <1>11 DEF FieldStep

(* What a field held is drawn with it, or is noted.                         *)
LEMMA HeldOnScreen ==
  ASSUME FieldsTyped, NEW field \in Fields, fields[field] # 0
  PROVE  \/ fields[field] \in Unsaved
         \/ field = "subject" /\ fields[field] = fields.saved
BY CarriedTyped DEF Unsaved, Fields

LEMMA FieldsKeptStep ==
  ASSUME FieldsTyped, OnScreen, Bears, SavedOK, FieldsKept, FieldStep
  PROVE  FieldsKept'
<1> USE CarriedTyped
<1>0. arrived \subseteq arrived'
  BY StepCarries
<1> DEFINE Safe(field, v) == v \in Held(field)' \cup entered'.excused
<1>1. ASSUME entered'.last = entered.last, entered.excused \subseteq entered'.excused,
             \A field \in Fields : fields[field] = entered.last[field] /\ fields[field] # 0
                                     => Safe(field, fields[field]),
             \A field \in Fields, s \in Slots : carried[s][field] # 0
                                     => Safe(field, carried[s][field])
      PROVE  FieldsKept'
  <2>1. ASSUME NEW field \in Fields, entered.last[field] # 0
        PROVE  Safe(field, entered.last[field])
    <3> DEFINE last == entered.last[field]
    <3>1. \/ last = fields[field] \/ last \in arrived \/ last \in entered.excused
          \/ \E s \in Slots : last = carried[s][field]
      BY <2>1 DEF FieldsKept, Held
    <3>2. last \in arrived' => Safe(field, last)
      BY DEF Held
    <3> QED
      BY <1>0, <1>1, <2>1, <3>1, <3>2
  <2> QED
    BY <1>1, <2>1 DEF FieldsKept
<1> HIDE DEF Safe
<1>2. ASSUME NEW field \in Fields
      PROVE  /\ Safe(field, fields'[field])
             /\ \A v \in arrived' \cup entered'.excused : Safe(field, v)
             /\ \A s \in Slots : Safe(field, carried'[s][field])
  BY DEF Safe, Held
<1>3. CASE Redrawn \/ Emptied
  <2>1. PICK saved \in Nat, given \in SUBSET Nat :
             /\ Redraws(saved, given) /\ carried' = carried /\ Unsaved \subseteq given
             /\ saved = fields.saved \/ fields.saved \in given
    BY <1>3 DEF Redrawn, Redraw, Emptied, SameBearers
  <2> QED
    BY <1>1, <1>2, <2>1, RedrawsTo, HeldOnScreen
<1>4. CASE LeftAlone
  BY <1>1, <1>2, <1>4 DEF LeftAlone, SameBearers
<1>5. CASE Saves
  <2>1. carried' = carried
    BY <1>5 DEF Saves, SameBearers
  <2> QED
    BY <1>1, <1>2, <1>5, <2>1, SavesTo
<1>6. ASSUME NEW field \in Fields, Enters(field)
      PROVE  FieldsKept'
  <2>1. carried' = carried /\ arrived' = arrived
    BY <1>6 DEF Enters, SameBearers
  <2>2. \A other \in Fields \ {field} : Held(other)' = Held(other)
    BY <1>6, <2>1, EntersTo DEF Held
  <2>3. entered'.last[field] \in Held(field)'
    BY <1>6, EntersTo DEF Held
  <2> QED
    BY <1>6, <2>2, <2>3, EntersTo DEF FieldsKept
<1>7. CASE Left
  <2>1. /\ Redraws(fields.saved, Unsaved \cup CarriedBy(Bearing))
        /\ (Unsaved \cup CarriedBy(Bearing)) \in SUBSET Nat
    BY <1>7 DEF Left
  <2>2. ASSUME NEW s \in Slots, NEW field \in Fields, carried[s][field] # 0
        PROVE  carried[s][field] \in CarriedBy(Bearing)
    <3>1. calls[s].kind \in Bearing
      BY <2>2 DEF Bears
    <3> QED
      BY <3>1 DEF CarriedBy, UnderWay
  <2> QED
    BY <1>1, <1>2, <2>1, <2>2, RedrawsTo, HeldOnScreen
<1>8. ASSUME NEW s \in Slots, Presses(s) PROVE FieldsKept'
  <2>1. /\ \A u \in Slots \ {s} : carried'[u] = carried[u]
        /\ Redraws(fields.saved, {})
    BY <1>8, OthersCarry DEF Presses
  <2>2. \A field \in Fields : carried[s][field] = 0
    BY <1>8, NoCallTyped DEF Presses, Bears, Bearing
  <2>3. ASSUME NEW field \in Fields, fields[field] # 0
        PROVE  Safe(field, fields[field])
    <3>1. \/ fields[field] = carried'[s][field]
          \/ field = "subject" /\ fields.subject = fields.saved
      BY <1>8, <2>3 DEF Presses, OnScreen, NoEntry, Fields
    <3> QED
      BY <1>2, <2>1, <3>1, RedrawsTo
  <2> QED
    BY <1>1, <1>2, <2>1, <2>2, <2>3, RedrawsTo
<1>9. ASSUME NEW s \in Slots, Replied(s) PROVE FieldsKept'
  <2>1. PICK given \in SUBSET Nat :
             /\ Redraws(fields.saved, given) /\ Unsaved \subseteq given
             /\ Arrives(s) \/ carried[s].reply \in given
    BY <1>9 DEF Replied
  <2>2. \A u \in Slots \ {s} : carried'[u] = carried[u]
    BY <1>9, OthersCarry DEF Replied
  <2>3. \A field \in Fields : carried[s][field] # 0 => carried[s][field] \in arrived' \cup given
    BY <1>9, <2>1 DEF Replied, Bears, Arrives, Fields
  <2> QED
    BY <1>1, <1>2, <2>1, <2>2, <2>3, RedrawsTo, HeldOnScreen
<1>10. ASSUME NEW s \in Slots, GoesOn(s) PROVE FieldsKept'
  <2>1. /\ \A u \in Slots : carried'[u] = carried[u]
        /\ fields' = fields /\ entered' = entered
    BY <1>10, OthersCarry DEF GoesOn
  <2> QED
    BY <1>1, <1>2, <2>1
<1>11. ASSUME NEW s \in Slots, Told(s) \/ GivenBack(s) PROVE FieldsKept'
  <2>1. PICK saved \in Nat, given \in SUBSET Nat :
             /\ Redraws(saved, given) /\ Unsaved \subseteq given
             /\ \/ \A field \in Fields : carried[s][field] \in arrived'
                \/ saved = carried[s].subject /\ carried[s].choice \in given
    <3>1. CASE Told(s)
      BY <1>0, <3>1 DEF Told, Bears, Arrives
    <3>2. CASE GivenBack(s)
      BY <3>2 DEF GivenBack
    <3> QED
      BY <1>11, <3>1, <3>2
  <2>2. /\ \A u \in Slots \ {s} : carried'[u] = carried[u]
        /\ s \in UnderWay({"raise", "link"}) /\ carried[s].reply = 0
    BY <1>11, OthersCarry DEF Told, GivenBack, Ended, Bears, UnderWay
  <2>3. /\ fields'["subject"] = saved /\ entered'.last = entered.last
        /\ entered'.excused = entered.excused \cup given
    BY <2>1, RedrawsTo DEF Fields
  <2>4. ASSUME NEW field \in Fields, carried[s][field] # 0
        PROVE  Safe(field, carried[s][field])
    BY <1>2, <2>1, <2>2, <2>3, <2>4 DEF Fields
  <2>5. ASSUME NEW field \in Fields, fields[field] = entered.last[field], fields[field] # 0
        PROVE  Safe(field, fields[field])
    <3>1. CASE fields[field] \in Unsaved
      BY <1>2, <2>1, <2>3, <3>1
    <3>2. CASE field = "subject" /\ fields[field] = fields.saved
      <4>1. \/ carried[s].subject = fields[field]
            \/ fields[field] \in arrived \cup entered.excused
        BY <2>2, <2>5, <3>2 DEF SavedOK
      <4> QED
        BY <1>0, <1>2, <2>3, <2>4, <2>5, <3>2, <4>1
    <3> QED
      BY <2>5, <3>1, <3>2, HeldOnScreen
  <2> QED
    BY <1>1, <1>2, <2>2, <2>3, <2>4, <2>5
<1> QED
  BY <1>3, <1>4, <1>5, <1>6, <1>7, <1>8, <1>9, <1>10, <1>11 DEF FieldStep

LEMMA FieldInvInit == Init => FieldInv
<1> SUFFICES ASSUME Init PROVE FieldInv
  OBVIOUS
<1>1. /\ fields = [subject |-> 0, choice |-> 0, reply |-> 0, saved |-> 0]
      /\ carried = [s \in Slots |-> NoEntry] /\ arrived = {}
      /\ entered = [last |-> NoEntry, count |-> 0, excused |-> {}]
  BY DEF Init, Drawn
<1>2. NoEntry \in [Fields -> Nat] /\ \A field \in Fields : NoEntry[field] = 0
  BY DEF NoEntry
<1>3. FieldsTyped
  BY <1>1, <1>2 DEF FieldsTyped, FieldRow, EnteredRow
<1>4. EntriesSoFar /\ OnScreen
  BY <1>1, <1>2 DEF EntriesSoFar, OnScreen, Fields
<1>5. \A s \in Slots : calls[s].kind \notin Bearing
  BY NoCallTyped DEF Init, Bearing
<1>6. Bears /\ SavedOK
  BY <1>1, <1>2, <1>5 DEF Bears, SavedOK, Bearing, Fields
<1>7. FieldsKept
  BY <1>1, <1>2 DEF FieldsKept
<1> QED
  BY <1>3, <1>4, <1>6, <1>7 DEF FieldInv

LEMMA FieldInvNext == PanelInv /\ FieldInv /\ [Next]_vars => FieldInv'
<1> SUFFICES ASSUME PanelInv, FieldInv, [Next]_vars PROVE FieldInv'
  OBVIOUS
<1>1. CASE Next
  <2>1. FieldStep /\ OnePress /\ CallsTyped
    BY <1>1, FieldEffect DEF PanelInv, FieldInv, PanelTypeOK
  <2> QED
    BY <2>1, FieldsTypedStep, EntriesSoFarStep, OnScreenStep, BearsStep, SavedOKStep,
       FieldsKeptStep DEF FieldInv
<1>2. CASE UNCHANGED vars
  <2>1. /\ state' = state /\ calls' = calls /\ fields' = fields /\ carried' = carried
        /\ arrived' = arrived /\ entered' = entered
    BY <1>2 DEF vars, fieldVars
  <2> QED
    BY <2>1 DEF FieldInv, FieldsTyped, FieldRow, EnteredRow, EntriesSoFar, OnScreen, Bears,
       SavedOK, UnderWay, FieldsKept, Held
<1> QED
  BY <1>1, <1>2

(* The invariant holds of every panel.                                      *)
THEOREM PanelInvariant == Spec => []PanelInv
BY PanelInvInit, PanelInvNext, PTL DEF Spec

(* The state, the draft, the calls under way and what the server has keep   *)
(* their types through every handler, answer and reload (widget main.ts).   *)
THEOREM PanelTypeCorrect == Spec => []PanelTypeOK
<1>1. PanelInv => PanelTypeOK
  BY DEF PanelInv
<1> QED
  BY <1>1, PanelInvariant, PTL

(* One text, or one conversation, makes two tickets only after an attempt   *)
(* that ended in an error or was left (a conversation also when a question of *)
(* it was unanswered as the first was made), however the user presses and the *)
(* calls overlap (submitTicket, doAsk).                                     *)
THEOREM PressedTwiceRaisedOnce == Spec => []RaisedOnce
<1>1. PanelInv => RaisedOnce
  BY DEF PanelInv, TextOnce, ConvOnce, RaisedOnce
<1> QED
  BY <1>1, PanelInvariant, PTL

(* The description typed last is in the form until it is a ticket, unless it  *)
(* was typed while an earlier text was being submitted, or gave way to a    *)
(* question (saveDraft, submitTicket's catch).                              *)
THEOREM WhatIsTypedIsKept == Spec => []DescriptionKept
<1>1. PanelInv => DescriptionKept
  BY DEF PanelInv, TypedKept, Ticketed, DescriptionKept
<1> QED
  BY <1>1, PanelInvariant, PTL

(* What was entered last in another field is in it, under way or at the     *)
(* server, unless one of the named causes took it: above all, a subject that *)
(* was saved with the description comes back with every failed submission    *)
(* (saveDraft, submitTicket's catch, submitReply).                          *)
THEOREM EntriesAreKept == Spec => []FieldsKept
<1>1. Spec => []FieldInv
  BY FieldInvInit, FieldInvNext, PanelInvariant, PTL DEF Spec
<1>2. FieldInv => FieldsKept
  BY DEF FieldInv
<1> QED
  BY <1>1, <1>2, PTL

(* A file that was taken is on the form or on a ticket, unless the user     *)
(* removed it, left the page, or attached it while others were being linked *)
(* (submitTicket, linkAttachments).                                         *)
THEOREM AttachedIsKept == Spec => []FilesKept
<1>1. PanelInv => FilesKept
  BY DEF PanelInv
<1> QED
  BY <1>1, PanelInvariant, PTL

(* "No tickets yet" is not said while the list is on its way, and the ticket *)
(* on view is the one opened last, but where two loads or two openings      *)
(* overlapped (loadTickets, openTicket).                                    *)
THEOREM AnswersFitTheView == Spec => []AnswersFit
<1>1. PanelInv => AnswersFit
  BY DEF PanelInv, ListOK, OpeningOK, AnswersFit, SaysNoTickets, TicketsView
<1> QED
  BY <1>1, PanelInvariant, PTL
=============================================================================
