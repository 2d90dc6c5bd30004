----------------------------- MODULE TicketReads -----------------------------
(***************************************************************************)
(* Reading tickets while they are raised and reassigned: a walk through the   *)
(* pages of the ticket list, and an agent's view of one ticket, whose          *)
(* statements read one after another what is committed at that moment.         *)
(*                                                                           *)
(* Time runs in microseconds, as raised_at does, and a cursor in              *)
(* milliseconds, as a JavaScript date does.                                  *)
(***************************************************************************)
EXTENDS RaiseTicket

CONSTANTS
  Limit,        \* rows on a page
  Fine,         \* microseconds in a millisecond
  Never         \* an expiry that is no time

ASSUME ReadsAssumption ==
  Limit \in Nat \ {0} /\ Fine \in Nat \ {0} /\ Never \notin Nat

VARIABLES
  grant,      \* the agent's platform grant on the ticket being viewed
  reader      \* the request that reads

vars == <<raiseVars, grant, reader>>

requestVars == <<now, issued, raise, chat, file, faults>>

-----------------------------------------------------------------------------
Idle == [op |-> "none"]

(* from: tickets committed when the walk began; ends: milliseconds in which a  *)
(* page ended (both auxiliary).                                              *)
Walk == [op : {"walk", "walked"}, cursor : Nat, got : SUBSET Raises,
         from : SUBSET Raises, ends : SUBSET Nat]

(* since: the transaction's now(); touched: the grant changed since then;      *)
(* lapsed: it had expired by then (both auxiliary).                          *)
View == [op : {"comments", "files", "grants", "shown"}, since : 0..Horizon, notes : BOOLEAN,
         files : BOOLEAN, flag : BOOLEAN, touched : BOOLEAN, lapsed : BOOLEAN]

Grant == [state : {"none", "granted", "revoked"}, expires : (0..Horizon) \cup {Never}]

Init ==
  /\ RaiseInit
  /\ grant = [state |-> "none", expires |-> Never]
  /\ reader = Idle

-----------------------------------------------------------------------------
(* GET /v1/tickets and GET /admin/api/tickets, page after page.              *)
BeginWalk ==
  /\ reader = Idle
  /\ Extra
  /\ reader' = [op |-> "walk", cursor |-> Horizon + 1, got |-> {}, from |-> Tickets, ends |-> {}]
  /\ UNCHANGED <<requestVars, grant>>

(* Rows the WHERE clause leaves.                                             *)
Rows == {r \in Tickets : raise[r].at < reader.cursor}

(* ORDER BY raised_at DESC LIMIT n; equal times come in any order.            *)
Latest(rows, n, page) ==
  /\ Cardinality(page) = IF Cardinality(rows) < n THEN Cardinality(rows) ELSE n
  /\ \A r \in page, s \in rows \ page : raise[r].at >= raise[s].at

Oldest(rows) == CHOOSE at \in {raise[r].at : r \in rows} : \A r \in rows : at <= raise[r].at

(* A variant of CursorAfter that takes the time of the row read ahead.        *)
CursorPast(page, ahead) == (Oldest(ahead) \div Fine) * Fine

CursorAfter(page, ahead) == (Oldest(page) \div Fine) * Fine

(* listTickets reads one row more than the page to learn whether there are     *)
(* more.                                                                     *)
ReadPage ==
  /\ reader.op = "walk"
  /\ \E ahead \in SUBSET Rows, page \in SUBSET Rows :
       /\ page \subseteq ahead
       /\ Latest(Rows, Limit + 1, ahead)
       /\ Latest(ahead, Limit, page)
       /\ reader' =
            IF ahead = page
            THEN [reader EXCEPT !.op = "walked", !.got = @ \cup page]
            ELSE [reader EXCEPT !.got = @ \cup page, !.cursor = CursorAfter(page, ahead),
                                !.ends = @ \cup {Oldest(page) \div Fine}]
  /\ UNCHANGED <<raiseVars, grant>>

-----------------------------------------------------------------------------
(* GET /admin/api/tickets/:id by an agent in whose scope the ticket is.       *)

(* A variant of HasActiveGrant that looks for a grant in any state.           *)
HasGrant(since) == grant.state # "none"

(* has_active_grant; now() is the time the transaction began.                *)
HasActiveGrant(since) ==
  grant.state = "granted" /\ (grant.expires = Never \/ grant.expires > since)

BeginView ==
  /\ reader = Idle
  /\ Extra
  /\ Tickets # {}
  /\ reader' = [op |-> "comments", since |-> now, notes |-> FALSE, files |-> FALSE,
                flag |-> FALSE, touched |-> FALSE, lapsed |-> FALSE]
  /\ UNCHANGED <<requestVars, grant>>

(* adminComments: public comments are shown in any case.                     *)
ReadComments ==
  /\ reader.op = "comments"
  /\ reader' = [reader EXCEPT !.op = "files", !.notes = HasActiveGrant(reader.since)]
  /\ UNCHANGED <<raiseVars, grant>>

ReadFiles ==
  /\ reader.op = "files"
  /\ reader' = [reader EXCEPT !.op = "grants", !.files = HasActiveGrant(reader.since)]
  /\ UNCHANGED <<raiseVars, grant>>

(* grantsForTicket, from which access.has_platform_grant is computed.         *)
ReadGrants ==
  /\ reader.op = "grants"
  /\ reader' = [reader EXCEPT !.op = "shown", !.flag = (grant.state = "granted"),
                                !.lapsed = (grant.expires # Never /\ grant.expires <= reader.since)]
  /\ UNCHANGED <<raiseVars, grant>>

Viewing == reader.op \in {"comments", "files", "grants"}

Touch == reader' = IF Viewing THEN [reader EXCEPT !.touched = TRUE] ELSE reader

(* The ticket is assigned to the agent until some time, within what is        *)
(* modelled or (Never) beyond it ...                                         *)
GrantIssued ==
  /\ Extra
  /\ \E until \in (now + 1)..Horizon \cup {Never} :
       grant' = [state |-> "granted", expires |-> until]
  /\ Touch
  /\ UNCHANGED requestVars

(* ... and resolved, closed or assigned to another.                          *)
GrantRevoked ==
  /\ Extra
  /\ grant.state = "granted"
  /\ grant' = [grant EXCEPT !.state = "revoked"]
  /\ Touch
  /\ UNCHANGED requestVars

ReadStep == BeginWalk \/ ReadPage \/ BeginView \/ ReadComments \/ ReadFiles \/ ReadGrants

Next == (RaiseNext /\ UNCHANGED <<grant, reader>>) \/ ReadStep \/ GrantIssued \/ GrantRevoked

Spec == Init /\ [][Next]_vars

-----------------------------------------------------------------------------
(* Properties.                                                               *)

(* Every variable holds a value of its type.                                 *)
ReadsTypeOK ==
  /\ RaiseTypeOK
  /\ grant \in Grant
  /\ reader \in {Idle} \cup Walk \cup View

(* A walk through the list meets every ticket there was when it began, though  *)
(* tickets are raised and committed out of order meanwhile; it misses at most  *)
(* those of a millisecond in which a page ended.                             *)
PagesMissOnlyTies ==
  reader.op = "walked" =>
    \A r \in reader.from \ reader.got : raise[r].at \div Fine \in reader.ends

(* What the view says of the agent's access is what it shows: internal notes   *)
(* and files appear if and only if has_platform_grant is set, unless the grant *)
(* changed while the view was read, or had lapsed.                           *)
FlagMatchesPayload ==
  (reader.op = "shown" /\ ~reader.touched) =>
    /\ reader.notes = reader.files
    /\ reader.notes => reader.flag
    /\ (reader.flag /\ ~reader.notes) => reader.lapsed
=============================================================================
