---------------------------- MODULE WidgetPanel ----------------------------
(***************************************************************************)
(* The support panel in the browser: one `state` object, handlers that start *)
(* calls and go on when the answer comes, and a user who does not wait.  The  *)
(* handlers run one at a time; the calls answer in any order, and each may be *)
(* refused, or do its work and lose its answer.  The draft of the ticket form *)
(* is kept in sessionStorage and outlives the page: its description, and the  *)
(* subject as it stood when the description was typed.  The other fields are   *)
(* only on the screen, which every render draws anew.                        *)
(*                                                                           *)
(* Texts are numbers in the order they are written, and so are the entries in  *)
(* the other fields, tickets in the order they are raised, conversations in the *)
(* order they begin; 0 stands for none.  A call has its effect at the server    *)
(* when it is answered.  What the help centre finds is left out: only that it  *)
(* was asked.                                                                *)
(***************************************************************************)
EXTENDS Naturals, Sequences, FiniteSets

CONSTANTS
  Slots,        \* calls under way at a time (bound)
  Files,        \* files the user may attach
  Links,        \* what the page's address may ask for, and "none"
  TypedIn,      \* which fields beside the description the user types in (bound)
  Histories,    \* how many tickets the user may have raised earlier
  MaxCalls,     \* bound on what the user sets going
  MaxTexts,     \* bound on texts written
  MaxEntries,   \* bound on entries in the other fields
  MaxFaults     \* bound on calls that fail and pages that are left

(* The fields beside the description; choice: category and severity.          *)
Fields == {"subject", "choice", "reply"}

ASSUME PanelAssumption ==
  TypedIn \subseteq Fields /\ Links \subseteq {"none", "ask", "create"} \cup {"tickets", "docs", "announcements"} /\
  Histories \subseteq Nat /\ {MaxCalls, MaxTexts, MaxEntries, MaxFaults} \subseteq Nat

VARIABLES
  state,      \* the object of that name
  draft,      \* sessionStorage: the description
  button,     \* whether the submit button last drawn can be pressed
  calls,      \* calls under way
  server,     \* tickets raised, files linked to them, conversations begun
  seen,       \* what has happened (auxiliary)
  used,       \* calls, texts and faults so far
  fields,     \* what the other fields show, and the subject that is saved
  carried,    \* what each call under way carries of them
  arrived,    \* what tickets and replies hold of them
  entered     \* the last entry in each field, those given up for cause (auxiliary)

fieldVars == <<fields, carried, arrived, entered>>
vars      == <<state, draft, button, calls, server, seen, used, fieldVars>>

-----------------------------------------------------------------------------
Views == {"home", "ask", "create", "created", "tickets", "ticket", "docs", "article", "announcements"}

Lists == {"tickets", "docs", "announcements"}

(* chat: the last question in it, and whether an answer offers the form.      *)
NoChat == [question |-> 0, offer |-> FALSE]

(* link: ?view= of the page's address.                                       *)
Fresh(link) ==
  [view |-> "home", config |-> FALSE, loading |-> TRUE, chat |-> NoChat, conversationId |-> 0,
   asking |-> FALSE, tickets |-> {}, ticket |-> 0, createdId |-> 0, pendingAttachments |-> {}, submitting |-> FALSE, link |-> link]

(* A call: what kind, the ticket or file it is about, the text and the          *)
(* conversation it carries, the files it links.                              *)
Call(kind, about, text, conv, files) ==
  [kind |-> kind, about |-> about, text |-> text, conv |-> conv, files |-> files]

NoCall == Call("none", 0, 0, 0, {})

Simple(kind) == Call(kind, 0, 0, 0, {})

FirstBoot == Call("config", 1, 0, 0, {})

UnderWay(kinds) == {s \in Slots : calls[s].kind \in kinds}

(* Calls whose handlers set and clear the one `loading` flag.                *)
Loading == Lists \cup {"config"}

Opening == {"ticket", "refresh"}

Raised == DOMAIN server.tickets

NoEntry == [field \in Fields |-> 0]

(* The fields as they are drawn, with the subject that is saved.              *)
Drawn(saved) == [subject |-> saved, choice |-> 0, reply |-> 0, saved |-> saved]

Init ==
  /\ \E link \in Links : state = Fresh(link)
  /\ draft = 0
  /\ button = TRUE
  /\ \E first \in Slots : calls = [s \in Slots |-> IF s = first THEN FirstBoot ELSE NoCall]
  /\ \E n \in Histories :
       server = [tickets |-> [i \in 1..n |-> [text |-> 0, conv |-> 0]],
                 linked |-> [f \in Files |-> 0], convs |-> 0]
  /\ seen = [typed |-> 0, spoilt |-> FALSE, retried |-> {}, revived |-> {}, taken |-> {},
             dropped |-> {}, listing |-> "never", opened |-> 0, muddled |-> FALSE]
  /\ used = [calls |-> 0, texts |-> 0, faults |-> 0]
  /\ fields = Drawn(0)
  /\ carried = [s \in Slots |-> NoEntry]
  /\ arrived = {}
  /\ entered = [last |-> NoEntry, count |-> 0, excused |-> {}]

-----------------------------------------------------------------------------
(* render, go and the flags.                                                 *)

(* What is on the screen only.                                               *)
Unsaved ==
  (({fields.subject} \ {fields.saved}) \cup {fields.choice, fields.reply}) \ {0}

Redraws(saved, given) ==
  /\ fields' = Drawn(saved)
  /\ entered' = [entered EXCEPT !.excused = @ \cup given]

Redraw == Redraws(fields.saved, Unsaved) /\ UNCHANGED <<carried, arrived>>

DrawsButton == button' = ~state'.submitting

Render == DrawsButton /\ Redraw

(* The call that a step starts or ends carries `what` from now on.            *)
Carries(what) ==
  carried' = [s \in Slots |-> IF calls'[s] # calls[s] THEN what ELSE carried[s]]

CarriedBy(kinds) == UNION {{carried[s][field] : field \in Fields} : s \in UnderWay(kinds)}

Go(s, view) == [s EXCEPT !.view = view]

(* A variant of Loads that leaves the flag to the answer.                    *)
LoadsSilently(s, list) == Go(s, list)

Loads(s, list) == [Go(s, list) EXCEPT !.loading = TRUE]

At(views) == state.config /\ state.view \in views

(* What the views offer.                                                     *)
HomeView == At({"home"})

Composer == At({"home", "ask"})

OffersForm == At({"ask"}) /\ state.chat.offer

AnswerCards == At({"ask"}) /\ state.chat # NoChat

DocsView == At({"docs"})

CreateView == At({"create"})

CreatedView == At({"created"})

TicketsView == At({"tickets"}) /\ ~state.loading

SaysNoTickets == TicketsView /\ state.tickets = {}

TicketView == At({"ticket"}) /\ state.ticket # 0

(* boot().then: the first boot is over and the page asked for a view.          *)
Due == state.link # "none" /\ \A s \in Slots : calls[s] # FirstBoot

Starts(call) ==
  /\ used.calls < MaxCalls
  /\ used' = [used EXCEPT !.calls = @ + 1]
  /\ \E s \in Slots : calls[s] = NoCall /\ calls' = [calls EXCEPT ![s] = call]

(* The answers of the list calls share a flag, and so do those that open a     *)
(* ticket: noted when they overlap.                                          *)
Muddled(kind) == IF UnderWay(Loading) # {} THEN "muddled"
                 ELSE IF kind = "tickets" THEN "waiting" ELSE seen.listing

-----------------------------------------------------------------------------
(* What the user does.                                                       *)

(* boot again: the page passes an identity token, also while the panel boots;  *)
(* or the user retries.                                                      *)
Boot ==
  /\ Starts(Simple("config"))
  /\ state' = [state EXCEPT !.loading = TRUE]
  /\ seen' = [seen EXCEPT !.listing = Muddled("config")]
  /\ Render
  /\ UNCHANGED <<draft, server>>

LoadList(list) ==
  /\ Starts(Simple(list))
  /\ state' = Loads(state, list)
  /\ seen' = [seen EXCEPT !.listing = Muddled(list)]
  /\ Render
  /\ UNCHANGED <<draft, server>>

Shows(view) ==
  /\ state' = [Go(state, view) EXCEPT !.chat = IF view = "ask" THEN NoChat ELSE @,
                                       !.link = IF Due THEN "none" ELSE @]
  /\ Render
  /\ UNCHANGED <<draft, calls, server, seen, used>>

(* onTile.                                                                   *)
Tile ==
  /\ HomeView
  /\ Shows("ask") \/ Shows("create") \/ \E list \in Lists : LoadList(list)

(* The view the page asked for, if there is a configuration by then.          *)
DeepLink ==
  /\ Due
  /\ state.config
  /\ \/ state.link \in {"ask", "create"} /\ Shows(state.link)
     \/ /\ state.link \in Lists
        /\ \E s \in Slots : calls[s] = NoCall /\ calls' = [calls EXCEPT ![s] = Simple(state.link)]
        /\ state' = [Loads(state, state.link) EXCEPT !.link = "none"]
        /\ seen' = [seen EXCEPT !.listing = Muddled(state.link)]
        /\ Render
        /\ UNCHANGED <<draft, server, used>>

SearchDocs == DocsView /\ LoadList("docs")

Back ==
  /\ At(Views \ {"home"})
  /\ Shows(CASE state.view = "article" -> "docs" [] state.view = "ticket" -> "tickets" [] OTHER -> "home")

(* A variant of Restarted that starts over with the files as well.           *)
RestartedWhole == [Go(state, "home") EXCEPT !.chat = NoChat, !.conversationId = 0, !.pendingAttachments = {}]

Restarted == [Go(state, "home") EXCEPT !.chat = NoChat, !.conversationId = 0]

(* The header's "Start over", and "Back to start".                           *)
Restart ==
  /\ At(Views)
  /\ state' = Restarted
  /\ Render
  /\ UNCHANGED <<draft, calls, server, seen, used>>

(* doAsk, from the composer or a suggestion.                                 *)
DoAsk ==
  /\ Composer
  /\ used.texts < MaxTexts
  /\ used.calls < MaxCalls
  /\ used' = [used EXCEPT !.texts = @ + 1, !.calls = @ + 1]
  /\ state' = [Go(state, "ask") EXCEPT !.chat.question = used.texts + 1, !.asking = TRUE]
  /\ \E s \in Slots :
       calls[s] = NoCall /\ calls' = [calls EXCEPT ![s] = Call("ask", 0, 0, state.conversationId, {})]
  /\ Render
  /\ UNCHANGED <<draft, server, seen>>

(* The form opens with the last question as its draft.                       *)
Escalate ==
  /\ OffersForm
  /\ state' = Go(state, "create")
  /\ draft' = IF state.chat.question = 0 THEN draft ELSE state.chat.question
  /\ seen' = [seen EXCEPT !.spoilt = @ \/ draft' # draft]
  /\ DrawsButton
  /\ IF state.chat.question = 0
     THEN Redraws(fields.saved, Unsaved)
     ELSE Redraws(0, Unsaved \cup {fields.saved})
  /\ UNCHANGED <<carried, arrived>>
  /\ UNCHANGED <<calls, server, used>>

(* Typing the description: each input event saves it, and the subject with it. *)
Type ==
  /\ CreateView
  /\ used.texts < MaxTexts
  /\ draft' = used.texts + 1
  /\ used' = [used EXCEPT !.texts = @ + 1]
  /\ seen' = [seen EXCEPT !.typed = draft', !.spoilt = UnderWay({"raise", "link"}) # {}]
  /\ fields' = [fields EXCEPT !.saved = fields.subject]
  /\ entered' = IF UnderWay({"raise", "link"}) = {} THEN entered
                ELSE [entered EXCEPT !.excused = @ \cup {fields.subject}]
  /\ UNCHANGED <<state, button, calls, server, carried, arrived>>

(* Typing in another field, which saves nothing.                              *)
Enter(field) ==
  /\ IF field = "reply" THEN TicketView ELSE CreateView
  /\ entered.count < MaxEntries
  /\ LET n == entered.count + 1 IN
       /\ fields' = [fields EXCEPT ![field] = n]
       /\ entered' = [entered EXCEPT !.last[field] = n, !.count = n]
  /\ UNCHANGED <<state, draft, button, calls, server, seen, used, carried, arrived>>

Upload(f) ==
  /\ CreateView
  /\ f \notin seen.taken
  /\ \A s \in Slots : calls[s].about # f
  /\ Starts(Call("upload", f, 0, 0, {}))
  /\ UNCHANGED <<state, draft, button, server, seen, fieldVars>>

RemoveFile(f) ==
  /\ CreateView
  /\ f \in state.pendingAttachments
  /\ state' = [state EXCEPT !.pendingAttachments = @ \ {f}]
  /\ seen' = [seen EXCEPT !.dropped = @ \cup {f}]
  /\ Render
  /\ UNCHANGED <<draft, calls, server, used>>

Pressed == button

(* submitTicket: the button is drawn disabled until the call is over.         *)
SubmitTicket ==
  /\ CreateView
  /\ Pressed
  /\ draft # 0
  /\ Starts(Call("raise", 0, draft, state.conversationId, {}))
  /\ state' = [state EXCEPT !.submitting = TRUE]
  /\ DrawsButton
  /\ Redraws(fields.saved, {})
  /\ Carries([NoEntry EXCEPT !.subject = fields.subject, !.choice = fields.choice])
  /\ UNCHANGED arrived
  /\ UNCHANGED <<draft, server, seen>>

(* openTicket, from the list, from "View ticket", and after a reply.          *)
Opened == [Go(state, "ticket") EXCEPT !.ticket = 0]

NotesOpening(t) == [seen EXCEPT !.opened = t, !.muddled = UnderWay(Opening) # {}]

OpenTicket ==
  /\ \E t \in Raised :
       /\ \/ TicketsView /\ t \in state.tickets
          \/ CreatedView /\ t = state.createdId
       /\ Starts(Call("ticket", t, 0, 0, {}))
       /\ state' = Opened
       /\ seen' = NotesOpening(t)
  /\ Render
  /\ UNCHANGED <<draft, server>>

(* openArticle, from the results of a search or the answer to a question.      *)
OpenArticle ==
  /\ DocsView \/ AnswerCards
  /\ Starts(Simple("article"))
  /\ state' = Go(state, "article")
  /\ Render
  /\ UNCHANGED <<draft, server, seen>>

SubmitReply ==
  /\ TicketView
  /\ Pressed
  /\ fields.reply # 0
  /\ Starts(Call("reply", state.ticket, 0, 0, {}))
  /\ state' = [state EXCEPT !.submitting = TRUE]
  /\ DrawsButton
  /\ Redraws(fields.saved, {})
  /\ Carries([NoEntry EXCEPT !.reply = fields.reply])
  /\ UNCHANGED arrived
  /\ UNCHANGED <<draft, server, seen>>

-----------------------------------------------------------------------------
(* The answers.                                                              *)

Ends(s) == calls' = [calls EXCEPT ![s] = NoCall]

Fault == used.faults < MaxFaults /\ used' = [used EXCEPT !.faults = @ + 1]

Unless(fails) == IF fails THEN Fault ELSE UNCHANGED used

ConfigAnswered(s) ==
  /\ calls[s].kind = "config"
  /\ Ends(s)
  /\ \E fails \in BOOLEAN :
       /\ Unless(fails)
       /\ state' = [state EXCEPT !.loading = FALSE, !.config = @ \/ ~fails,
            !.link = IF calls[s] = FirstBoot /\ ~state.config /\ fails THEN "none" ELSE @]
  /\ Render
  /\ UNCHANGED <<draft, server, seen>>

(* loadTickets, loadDocs and loadAnnouncements.                              *)
ListAnswered(s) ==
  /\ calls[s].kind \in Lists
  /\ Ends(s)
  /\ \E fails \in BOOLEAN :
       /\ Unless(fails)
       /\ state' = [state EXCEPT !.loading = FALSE,
            !.tickets = IF calls[s].kind = "tickets" /\ ~fails THEN Raised ELSE @]
       /\ seen' = IF calls[s].kind = "tickets" /\ seen.listing = "waiting"
                  THEN [seen EXCEPT !.listing = IF fails THEN "muddled" ELSE "answered"] ELSE seen
  /\ Render
  /\ UNCHANGED <<draft, server>>

(* A question without a conversation the server knows begins one.             *)
AskAnswered(s) ==
  /\ calls[s].kind = "ask"
  /\ Ends(s)
  /\ \E fails, offer \in BOOLEAN :
       /\ Unless(fails)
       /\ LET conv == IF calls[s].conv = 0 THEN server.convs + 1 ELSE calls[s].conv IN
            /\ server' = IF fails THEN server ELSE [server EXCEPT !.convs = IF conv > @ THEN conv ELSE @]
            /\ state' = [state EXCEPT !.asking = FALSE,
                 !.conversationId = IF fails THEN @ ELSE conv,
                 !.chat.offer = @ \/ offer \/ fails]
  /\ Render
  /\ UNCHANGED <<draft, seen>>

(* A submission's `finally` clears the flag after the last render.            *)
Finally(s) == [s EXCEPT !.submitting = FALSE]

DrawnBusy == button' = ~state.submitting

ArticleAnswered(s) ==
  /\ calls[s].kind = "article"
  /\ Ends(s)
  /\ \E fails \in BOOLEAN : Unless(fails)
  /\ DrawnBusy /\ Redraw
  /\ UNCHANGED <<state, draft, server, seen>>

TicketAnswered(s) ==
  /\ calls[s].kind \in Opening
  /\ Ends(s)
  /\ \E fails \in BOOLEAN :
       /\ Unless(fails)
       /\ LET st == [state EXCEPT !.ticket = IF fails THEN @ ELSE calls[s].about]
          IN state' = IF calls[s].kind = "refresh" THEN Finally(st) ELSE st
  /\ DrawnBusy /\ Redraw
  /\ UNCHANGED <<draft, server, seen>>

(* What call s carries is at the server.                                      *)
Arrives(s) == arrived' = arrived \cup {carried[s][field] : field \in Fields}

(* The reply is there: the ticket on view is opened again, whichever that is   *)
(* by now.  With none on view the handler throws, as if the reply had failed.  *)
(* A reply that failed is not given back.                                     *)
ReplyAnswered(s) ==
  /\ calls[s].kind = "reply"
  /\ \/ /\ state.ticket # 0
        /\ calls' = [calls EXCEPT ![s] = Call("refresh", state.ticket, 0, 0, {})]
        /\ state' = Opened
        /\ seen' = NotesOpening(state.ticket)
        /\ Redraws(fields.saved, Unsaved) /\ Arrives(s)
        /\ UNCHANGED used
     \/ /\ \/ state.ticket = 0 /\ UNCHANGED used
              /\ Redraws(fields.saved, Unsaved) /\ Arrives(s)
           \/ Fault /\ Redraws(fields.saved, Unsaved \cup {carried[s].reply})
              /\ (Arrives(s) \/ UNCHANGED arrived)
        /\ Ends(s)
        /\ state' = Finally(state)
        /\ UNCHANGED seen
  /\ Carries(NoEntry)
  /\ DrawnBusy
  /\ UNCHANGED <<draft, server>>

UploadAnswered(s) ==
  /\ calls[s].kind = "upload"
  /\ Ends(s)
  /\ \/ /\ state' = [state EXCEPT !.pendingAttachments = @ \cup {calls[s].about}]
        /\ seen' = [seen EXCEPT !.taken = @ \cup {calls[s].about},
             !.dropped = IF UnderWay({"link"}) # {} THEN @ \cup {calls[s].about} ELSE @]
        /\ UNCHANGED used
     \/ Fault /\ UNCHANGED <<state, seen>>
  /\ Render
  /\ UNCHANGED <<draft, server>>

(* A variant of Created that keeps the conversation for the next ticket.      *)
CreatedInConversation(t) ==
  [Go(state, "created") EXCEPT !.pendingAttachments = {}, !.createdId = t]

Created(t) ==
  [Go(state, "created") EXCEPT !.pendingAttachments = {}, !.createdId = t, !.conversationId = 0]

(* What a question still under way brings back when it is answered.          *)
Revived(conv) == {conv} \cap {calls[q].conv : q \in UnderWay({"ask"})}

(* An attempt of which the user does not learn that it made a ticket.         *)
Doubtful(attempts) ==
  [seen EXCEPT !.retried = @ \cup {call.text : call \in attempts},
               !.revived = @ \cup {call.conv : call \in attempts}]

Succeeds(s, t) ==
  /\ draft' = 0
  /\ state' = Finally(Created(t))
  /\ Ends(s)
  /\ Redraws(0, Unsaved) /\ Carries(NoEntry)

(* The form is drawn with the subject, and without what was chosen.           *)
GivesBack(s, subject) ==
  /\ state' = Finally(state)
  /\ Ends(s)
  /\ Redraws(subject, Unsaved \cup {carried[s].choice}) /\ Carries(NoEntry)

(* A variant of Fails that gives the form back empty.                        *)
FailsEmpty(s) ==
  /\ draft' = 0
  /\ GivesBack(s, carried[s].subject)

(* A variant of Fails that saves the description alone.                       *)
FailsWithoutSubject(s) ==
  /\ draft' = calls[s].text
  /\ GivesBack(s, 0)

(* The text that was submitted is the draft again, and so is the subject.     *)
Fails(s) ==
  /\ draft' = calls[s].text
  /\ GivesBack(s, carried[s].subject)

(* createTicket is answered; with files on the form, linkAttachments follows. *)
RaiseAnswered(s) ==
  /\ calls[s].kind = "raise"
  /\ LET call == calls[s]
         with == [server EXCEPT !.tickets = Append(@, [text |-> call.text, conv |-> call.conv])]
         t == Len(server.tickets) + 1
         files == state.pendingAttachments
     IN \/ /\ server' = with
           /\ Arrives(s)
           /\ IF files = {}
              THEN Succeeds(s, t) /\ seen' = [seen EXCEPT !.revived = @ \cup Revived(call.conv)]
              ELSE /\ calls' = [calls EXCEPT ![s] = Call("link", t, call.text, call.conv, files)]
                   /\ UNCHANGED <<state, draft, seen, fields, carried, entered>>
           /\ UNCHANGED used
        \/ /\ (server' = server /\ UNCHANGED arrived) \/ (server' = with /\ Arrives(s))
           /\ Fault
           /\ Fails(s)
           /\ seen' = Doubtful({call})
  /\ DrawnBusy

Linked(call) ==
  [server EXCEPT !.linked = [f \in Files |->
     IF f \in call.files /\ server.linked[f] = 0 THEN call.about ELSE server.linked[f]]]

LinkAnswered(s) ==
  /\ calls[s].kind = "link"
  /\ LET call == calls[s] IN
       \/ /\ server' = Linked(call)
          /\ Succeeds(s, call.about)
          /\ seen' = [seen EXCEPT !.revived = @ \cup Revived(call.conv)]
          /\ UNCHANGED used
       \/ /\ server' \in {server, Linked(call)}
          /\ Fault
          /\ Fails(s)
          /\ seen' = Doubtful({call})
  /\ DrawnBusy
  /\ UNCHANGED arrived

(* The page is left with its calls under way and comes up again.              *)
LeavePage ==
  /\ Fault
  /\ LET raises == {calls[s] : s \in UnderWay({"raise"})}
         links == {calls[s] : s \in UnderWay({"link"})}
     IN /\ server' \in {server}
             \cup {[server EXCEPT !.tickets = Append(@, [text |-> c.text, conv |-> c.conv])] : c \in raises}
             \cup {Linked(c) : c \in links}
        /\ seen' = [Doubtful(raises \cup links) EXCEPT
             !.dropped = @ \cup state.pendingAttachments, !.listing = "never", !.opened = 0]
  /\ state' = Fresh("none")
  /\ \E first \in Slots : calls' = [s \in Slots |-> IF s = first THEN FirstBoot ELSE NoCall]
  /\ button' = TRUE
  /\ Redraws(fields.saved, Unsaved \cup CarriedBy({"raise", "link", "reply"}))
  /\ carried' = [s \in Slots |-> NoEntry]
  /\ LET made == IF Len(server'.tickets) = Len(server.tickets) THEN {} ELSE CarriedBy({"raise"})
     IN arrived' \in {arrived \cup made, arrived \cup made \cup CarriedBy({"reply"})}
  /\ UNCHANGED draft

-----------------------------------------------------------------------------
UserStep ==
  \/ Boot \/ Tile \/ SearchDocs \/ Back \/ Restart
  \/ DoAsk \/ Escalate \/ Type \/ SubmitTicket
  \/ \E field \in TypedIn : Enter(field)
  \/ \E f \in Files : Upload(f) \/ RemoveFile(f)
  \/ OpenTicket \/ OpenArticle \/ SubmitReply
  \/ LeavePage

Answer(s) ==
  \/ ConfigAnswered(s) \/ ListAnswered(s) \/ AskAnswered(s) \/ ArticleAnswered(s)
  \/ TicketAnswered(s) \/ ReplyAnswered(s) \/ UploadAnswered(s)
  \/ RaiseAnswered(s) \/ LinkAnswered(s)

Next == DeepLink \/ (~Due /\ (UserStep \/ \E s \in Slots : Answer(s)))

Spec == Init /\ [][Next]_vars

-----------------------------------------------------------------------------
(* Properties.                                                               *)

(* One text makes two tickets, and one conversation two, only after an attempt *)
(* that ended in an error or was left; a conversation also when a question of  *)
(* it was still unanswered as the first was made.  Two presses do not.         *)
RaisedOnce ==
  \A i, j \in Raised : i # j =>
    LET a == server.tickets[i] b == server.tickets[j] IN
      /\ a.text = b.text /\ a.text # 0 => a.text \in seen.retried
      /\ a.conv = b.conv /\ a.conv # 0 => a.conv \in seen.revived

(* The description that the user types stays in the form until it is a ticket, *)
(* through failures, other views and reloads (main.ts:731 "The user's text is   *)
(* preserved so a network blip never costs them 300 words"); unless it was      *)
(* typed while an earlier one was being submitted, or gave way to a question.  *)
DescriptionKept ==
  seen.typed # 0 /\ ~seen.spoilt =>
    draft = seen.typed \/ \E i \in Raised : server.tickets[i].text = seen.typed

Held(field) ==
  {fields[field]} \cup {carried[s][field] : s \in Slots} \cup arrived

(* A subject, a choice and a reply are less safe.  What was entered last is     *)
(* still in its field, under way or at the server, unless something drew the    *)
(* panel anew when it was only on the screen, its call failed (the subject      *)
(* survives that), the page was left under the call, or, for a subject that     *)
(* had been saved, a question took its place or it was saved while an earlier   *)
(* one was being submitted.                                                  *)
FieldsKept ==
  \A field \in Fields :
    entered.last[field] = 0 \/ entered.last[field] \in Held(field) \cup entered.excused

(* A file that was taken is on the form or on a ticket, unless the user removed *)
(* it, left the page, or attached it while files were being linked.           *)
FilesKept ==
  \A f \in seen.taken :
    f \in state.pendingAttachments \cup seen.dropped \/ server.linked[f] # 0

(* "No tickets yet" is not said while the list is asked for and nothing else   *)
(* is loading; and the ticket on view is the one opened last, unless two       *)
(* openings overlapped.                                                      *)
AnswersFit ==
  /\ SaysNoTickets => seen.listing # "waiting"
  /\ state.ticket = 0 \/ state.ticket = seen.opened \/ seen.muddled
=============================================================================
