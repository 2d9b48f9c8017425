----------------------------- MODULE SavedViews -----------------------------
(***************************************************************************)
(* Saved views of a page and which of a user's is the default              *)
(* (saved-views.service.ts).  Requests overlap: each looks its view up,    *)
(* and creating, editing or choosing a default then runs in a transaction  *)
(* that clears the other defaults and sets its own.  The database is       *)
(* InnoDB: the clearing update locks the views of (userId, pageType) until *)
(* the transaction ends.                                                   *)
(***************************************************************************)
EXTENDS Naturals

CONSTANTS Owners, PageTypes, Views, Requests

VARIABLES
  views,   \* the stored views; a name not yet used has no owner
  tx       \* what each request is doing

viewVars == <<views, tx>>

Nobody  == "nobody"
NoView  == [owner |-> Nobody, page |-> Nobody, default |-> FALSE, shared |-> FALSE, live |-> FALSE]

\* A name of no user.
ASSUME ViewAssumption == Nobody \notin Owners

Resting == [step |-> "idle", op |-> "none", view |-> Nobody, owner |-> Nobody,
            page |-> Nobody, cleared |-> {}]

Ops == {"create", "update", "setDefault"}

StoredViews == [owner : Owners, page : PageTypes, default : BOOLEAN, shared : BOOLEAN,
                live : BOOLEAN]

Transactions == [step : {"found", "cleared"}, op : Ops, view : Views,
                 owner : Owners, page : PageTypes, cleared : SUBSET Views]

ViewTypeOK ==
  /\ views \in [Views -> StoredViews \cup {NoView}]
  /\ tx \in [Requests -> Transactions \cup {Resting}]

ViewInit == views = [v \in Views |-> NoView] /\ tx = [r \in Requests |-> Resting]

Used(v) == views[v] # NoView \/ \E r \in Requests : tx[r].op = "create" /\ tx[r].view = v

\* The views of a user and page are locked by a transaction that has cleared defaults.
Locked(owner, page) ==
  \E r \in Requests : tx[r].step = "cleared" /\ tx[r].owner = owner /\ tx[r].page = page

Siblings(owner, page) == {v \in Views : views[v].owner = owner /\ views[v].page = page}

-----------------------------------------------------------------------------

\* A request to make a view the default: a new one, or one of the user's own that
\* is not deleted.  updateView and setDefault look it up before the transaction.
BeginCreate(r) ==
  /\ tx[r] = Resting
  /\ \E v \in {w \in Views : ~ Used(w)}, o \in Owners, p \in PageTypes :
       tx' = [tx EXCEPT ![r] = [step |-> "found", op |-> "create", view |-> v, owner |-> o,
                                page |-> p, cleared |-> {}]]
  /\ UNCHANGED views

Find(r) ==
  /\ tx[r] = Resting
  /\ \E v \in {w \in Views : views[w].live}, op \in {"update", "setDefault"} :
       tx' = [tx EXCEPT ![r] = [step |-> "found", op |-> op, view |-> v,
                                owner |-> views[v].owner, page |-> views[v].page, cleared |-> {}]]
  /\ UNCHANGED views

\* Mutant: a new view does not displace the default.
DisplacedUnlessNew(t) ==
  IF t.op = "create" THEN {}
  ELSE {v \in Siblings(t.owner, t.page) : views[v].default} \ {t.view}

\* The defaults an operation clears: deleted views too, and not the one it will set.
Displaced(t) == {v \in Siblings(t.owner, t.page) : views[v].default} \ {t.view}

ClearDefaults(r) ==
  /\ tx[r].step = "found" /\ ~ Locked(tx[r].owner, tx[r].page)
  /\ tx' = [tx EXCEPT ![r].step = "cleared", ![r].cleared = Displaced(tx[r])]
  /\ UNCHANGED views

\* By id: the view may have been deleted since it was found, and is then a default
\* that getDefaultView does not see.
Commit(r) ==
  /\ tx[r].step = "cleared"
  /\ LET t == tx[r]
     IN  \E share \in BOOLEAN :
           views' = [v \in Views |->
             IF v = t.view THEN
               IF t.op = "create"
               THEN [owner |-> t.owner, page |-> t.page, default |-> TRUE, shared |-> share, live |-> TRUE]
               ELSE [views[v] EXCEPT !.default = TRUE, !.shared = IF t.op = "update" THEN share ELSE @]
             ELSE IF v \in t.cleared THEN [views[v] EXCEPT !.default = FALSE]
             ELSE views[v]]
  /\ tx' = [tx EXCEPT ![r] = Resting]

\* A deadlock, a timeout or a crash ends a request without a trace.
Abort(r) ==
  /\ tx[r] # Resting
  /\ tx' = [tx EXCEPT ![r] = Resting]
  /\ UNCHANGED views

\* createView without default, and duplicateView of one's own or a shared view: the
\* copy is private and never the default.
AddView ==
  /\ \E v \in {w \in Views : ~ Used(w)}, o \in Owners, p \in PageTypes :
       /\ ~ Locked(o, p)
       /\ views' = [views EXCEPT ![v] = [NoView EXCEPT !.owner = o, !.page = p, !.live = TRUE]]
  /\ UNCHANGED tx

\* updateView may also take the default flag off.
Undefault ==
  /\ \E v \in Views :
       /\ views[v].live /\ views[v].default /\ ~ Locked(views[v].owner, views[v].page)
       /\ views' = [views EXCEPT ![v].default = FALSE]
  /\ UNCHANGED tx

\* A deletion is soft and leaves the flag.
DeleteView ==
  /\ \E v \in Views :
       /\ views[v].live /\ ~ Locked(views[v].owner, views[v].page)
       /\ views' = [views EXCEPT ![v].live = FALSE]
  /\ UNCHANGED tx

ViewNext ==
  \/ \E r \in Requests : BeginCreate(r) \/ Find(r) \/ ClearDefaults(r) \/ Commit(r) \/ Abort(r)
  \/ AddView \/ Undefault \/ DeleteView

ViewSpec == ViewInit /\ [][ViewNext]_viewVars

-----------------------------------------------------------------------------

\* However the requests of a user overlap, he has at most one default view of a page
\* (a deleted one still counts).
OneDefault ==
  \A v, w \in Views :
    /\ views[v].default /\ views[w].default
    /\ views[v].owner = views[w].owner /\ views[v].page = views[w].page
    => v = w
=============================================================================
