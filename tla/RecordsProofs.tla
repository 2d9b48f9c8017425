--------------------------- MODULE RecordsProofs ----------------------------
(***************************************************************************)
(* What requests and sweeps do to the records they share, for any number   *)
(* of them:                                                                *)
(*   SavedViews   what a request found stays true of its view (Requested), *)
(*                two transactions never hold the same views (Exclusive),  *)
(*                and between clearing and commit no default appears       *)
(*                beside the ones about to be cleared (Cleared);           *)
(*   Import       what a lone import has looked up stays so until it       *)
(*                writes (Recorded);                                       *)
(*   Attention    what a lone refresh has read stays so until it has       *)
(*                stored and resolved (Refreshing);                        *)
(*   ManualCheck  nothing is compared before the answers it needs          *)
(*                (Unanswered).                                            *)
(***************************************************************************)
EXTENDS SavedViews, Import, Attention, ManualCheck, SequenceTheorems, TLAPS

-----------------------------------------------------------------------------
(* SavedViews.                                                              *)

Requested ==
  \A r \in Requests : tx[r] # Resting =>
    IF tx[r].op = "create"
    THEN /\ views[tx[r].view] = NoView
         /\ \A q \in Requests : tx[q] # Resting /\ tx[q].op = "create"
                                /\ tx[q].view = tx[r].view => q = r
    ELSE /\ views[tx[r].view].owner = tx[r].owner
         /\ views[tx[r].view].page = tx[r].page

Exclusive ==
  \A q, r \in Requests :
    /\ tx[q].step = "cleared" /\ tx[r].step = "cleared"
    /\ tx[q].owner = tx[r].owner /\ tx[q].page = tx[r].page
    => q = r

Cleared ==
  \A r \in Requests : tx[r].step = "cleared" =>
    \A v \in Siblings(tx[r].owner, tx[r].page) :
      views[v].default => v \in tx[r].cleared \cup {tx[r].view}

Promise == ViewTypeOK /\ Requested /\ Exclusive /\ Cleared /\ OneDefault

LEMMA NoViewIsNobodys ==
  /\ NoView.owner = Nobody /\ NoView.default = FALSE /\ NoView.live = FALSE
  /\ [NoView EXCEPT !.default = FALSE] = NoView
  /\ Resting.step = "idle" /\ \A t \in Transactions : t # Resting
<1>1. \A t \in Transactions : t.step # "idle"
  BY DEF Transactions
<1>2. Resting.step = "idle"
  BY DEF Resting
<1>3. NoView.owner = Nobody /\ NoView.default = FALSE /\ NoView.live = FALSE
  BY DEF NoView
<1>4. [NoView EXCEPT !.default = FALSE] = NoView
  <2>1. NoView = [f \in {"owner", "page", "default", "shared", "live"} |-> NoView[f]]
    BY DEF NoView
  <2> QED
    BY <1>3, <2>1
<1> QED
  BY <1>1, <1>2, <1>3, <1>4

-----------------------------------------------------------------------------

LEMMA ViewTypeStep ==
  ASSUME ViewTypeOK, Requested, [ViewNext]_viewVars
  PROVE  ViewTypeOK'
<1> USE DEF ViewTypeOK
<1>1. ASSUME NEW r \in Requests, BeginCreate(r) PROVE ViewTypeOK'
  BY <1>1 DEF BeginCreate, Transactions, Ops
<1>2. ASSUME NEW r \in Requests, Find(r) PROVE ViewTypeOK'
  <2>1. PICK v \in {w \in Views : views[w].live}, op \in {"update", "setDefault"} :
          tx' = [tx EXCEPT ![r] = [step |-> "found", op |-> op, view |-> v,
                                   owner |-> views[v].owner, page |-> views[v].page,
                                   cleared |-> {}]]
    BY <1>2 DEF Find
  <2>2. views[v] \in StoredViews
    BY NoViewIsNobodys
  <2> QED
    BY <1>2, <2>1, <2>2 DEF Find, Transactions, Ops, StoredViews
<1>3. ASSUME NEW r \in Requests, ClearDefaults(r) PROVE ViewTypeOK'
  <2>1. tx[r] \in Transactions
    BY <1>3, NoViewIsNobodys DEF ClearDefaults
  <2>2. Displaced(tx[r]) \subseteq Views
    BY DEF Displaced, Siblings
  <2>3. [tx[r] EXCEPT !.step = "cleared", !.cleared = Displaced(tx[r])] \in Transactions
    BY <2>1, <2>2 DEF Transactions
  <2>4. tx' = [tx EXCEPT ![r] = [tx[r] EXCEPT !.step = "cleared", !.cleared = Displaced(tx[r])]]
    BY <1>3 DEF ClearDefaults
  <2> QED
    BY <1>3, <2>3, <2>4 DEF ClearDefaults
<1>4. ASSUME NEW r \in Requests, Commit(r) PROVE ViewTypeOK'
  <2>1. tx[r] \in Transactions
    BY <1>4, NoViewIsNobodys DEF Commit
  <2>2. PICK share \in BOOLEAN :
          views' = [v \in Views |->
            IF v = tx[r].view THEN
              IF tx[r].op = "create"
              THEN [owner |-> tx[r].owner, page |-> tx[r].page, default |-> TRUE,
                    shared |-> share, live |-> TRUE]
              ELSE [views[v] EXCEPT !.default = TRUE,
                                    !.shared = IF tx[r].op = "update" THEN share ELSE @]
            ELSE IF v \in tx[r].cleared THEN [views[v] EXCEPT !.default = FALSE]
            ELSE views[v]]
    BY <1>4 DEF Commit
  <2>3. ASSUME NEW v \in Views PROVE views'[v] \in StoredViews \cup {NoView}
    <3>1. CASE v = tx[r].view /\ tx[r].op = "create"
      BY <2>1, <2>2, <3>1 DEF StoredViews, Transactions
    <3>2. CASE v = tx[r].view /\ tx[r].op # "create"
      <4>1. views[v] \in StoredViews
        BY <2>1, <3>2, NoViewIsNobodys, ViewAssumption DEF Requested, Transactions
      <4> QED
        BY <2>1, <2>2, <3>2, <4>1 DEF StoredViews
    <3>3. CASE v # tx[r].view /\ v \in tx[r].cleared
      BY <2>2, <3>3, NoViewIsNobodys DEF StoredViews
    <3>4. CASE v # tx[r].view /\ v \notin tx[r].cleared
      BY <2>2, <3>4
    <3> QED
      BY <3>1, <3>2, <3>3, <3>4
  <2> QED
    BY <1>4, <2>2, <2>3 DEF Commit
<1>5. ASSUME NEW r \in Requests, Abort(r) PROVE ViewTypeOK'
  BY <1>5 DEF Abort
<1>6. CASE AddView
  BY <1>6 DEF AddView, NoView, StoredViews
<1>7. CASE Undefault
  <2>1. PICK v \in Views : views[v].live /\ views' = [views EXCEPT ![v].default = FALSE]
    BY <1>7 DEF Undefault
  <2>2. views[v] \in StoredViews
    BY <2>1, NoViewIsNobodys
  <2>3. [views[v] EXCEPT !.default = FALSE] \in StoredViews
    BY <2>2 DEF StoredViews
  <2> QED
    BY <1>7, <2>1, <2>3 DEF Undefault
<1>8. CASE DeleteView
  <2>1. PICK v \in Views : views[v].live /\ views' = [views EXCEPT ![v].live = FALSE]
    BY <1>8 DEF DeleteView
  <2>2. views[v] \in StoredViews
    BY <2>1, NoViewIsNobodys
  <2>3. [views[v] EXCEPT !.live = FALSE] \in StoredViews
    BY <2>2 DEF StoredViews
  <2> QED
    BY <1>8, <2>1, <2>3 DEF DeleteView
<1>9. CASE UNCHANGED viewVars
  BY <1>9 DEF viewVars
<1> QED
  BY <1>1, <1>2, <1>3, <1>4, <1>5, <1>6, <1>7, <1>8, <1>9 DEF ViewNext

-----------------------------------------------------------------------------

LEMMA BeginCreateStep ==
  ASSUME Promise, NEW r \in Requests, BeginCreate(r)
  PROVE  Requested' /\ Exclusive' /\ Cleared' /\ OneDefault'
<1> USE DEF Promise, ViewTypeOK
<1>1. PICK v \in {w \in Views : ~ Used(w)}, o \in Owners, p \in PageTypes :
        tx' = [tx EXCEPT ![r] = [step |-> "found", op |-> "create", view |-> v, owner |-> o,
                                 page |-> p, cleared |-> {}]]
  BY DEF BeginCreate
<1>2. views[v] = NoView /\ ~ \E q \in Requests : tx[q].op = "create" /\ tx[q].view = v
  BY DEF Used
<1>3. /\ tx'[r].step = "found" /\ tx'[r].op = "create" /\ tx'[r].view = v
      /\ \A q \in Requests \ {r} : tx'[q] = tx[q]
  BY <1>1
<1>4. views' = views
  BY DEF BeginCreate
<1>5. Requested'
  BY <1>2, <1>3, <1>4 DEF Requested
<1>6. \A q \in Requests : tx'[q].step = "cleared" => q # r /\ tx'[q] = tx[q]
  BY <1>3
<1> QED
  BY <1>4, <1>5, <1>6 DEF Exclusive, Cleared, OneDefault, Siblings

LEMMA FindStep ==
  ASSUME Promise, NEW r \in Requests, Find(r)
  PROVE  Requested' /\ Exclusive' /\ Cleared' /\ OneDefault'
<1> USE DEF Promise, ViewTypeOK
<1>1. PICK v \in {w \in Views : views[w].live}, op \in {"update", "setDefault"} :
        tx' = [tx EXCEPT ![r] = [step |-> "found", op |-> op, view |-> v,
                                 owner |-> views[v].owner, page |-> views[v].page,
                                 cleared |-> {}]]
  BY DEF Find
<1>2. /\ tx'[r].step = "found" /\ tx'[r].op # "create" /\ tx'[r].view = v
      /\ tx'[r].owner = views[v].owner /\ tx'[r].page = views[v].page
      /\ \A q \in Requests \ {r} : tx'[q] = tx[q]
  BY <1>1
<1>3. views' = views
  BY DEF Find
<1>4. Requested'
  BY <1>2, <1>3 DEF Requested
<1>5. \A q \in Requests : tx'[q].step = "cleared" => q # r /\ tx'[q] = tx[q]
  BY <1>2
<1> QED
  BY <1>3, <1>4, <1>5 DEF Exclusive, Cleared, OneDefault, Siblings

\* The views are locked from here on, and every default beside the new one is listed.
LEMMA ClearStep ==
  ASSUME Promise, NEW r \in Requests, ClearDefaults(r)
  PROVE  Requested' /\ Exclusive' /\ Cleared' /\ OneDefault'
<1> USE DEF Promise, ViewTypeOK
<1>1. tx[r] \in Transactions
  BY NoViewIsNobodys DEF ClearDefaults
<1>2. /\ tx'[r].step = "cleared" /\ tx'[r].cleared = Displaced(tx[r]) /\ tx'[r] # Resting
      /\ tx'[r].view = tx[r].view /\ tx'[r].op = tx[r].op
      /\ tx'[r].owner = tx[r].owner /\ tx'[r].page = tx[r].page
      /\ \A q \in Requests \ {r} : tx'[q] = tx[q]
  BY <1>1, NoViewIsNobodys DEF ClearDefaults, Transactions
<1>3. views' = views /\ tx[r] # Resting
  BY NoViewIsNobodys DEF ClearDefaults
<1>4. ~ Locked(tx[r].owner, tx[r].page)
  BY DEF ClearDefaults
<1>5. Requested'
  BY <1>2, <1>3 DEF Requested
<1>6. Exclusive'
  BY <1>2, <1>4 DEF Exclusive, Locked
<1>7. Cleared'
  <2> SUFFICES ASSUME NEW q \in Requests, tx'[q].step = "cleared",
                      NEW v \in Siblings(tx'[q].owner, tx'[q].page), views[v].default
               PROVE  v \in tx'[q].cleared \cup {tx'[q].view}
    BY <1>3 DEF Cleared, Siblings
  <2>1. CASE q = r
    BY <1>2, <2>1 DEF Displaced
  <2>2. CASE q # r
    BY <1>2, <2>2 DEF Cleared
  <2> QED
    BY <2>1, <2>2
<1> QED
  BY <1>3, <1>5, <1>6, <1>7 DEF OneDefault

LEMMA AbortStep ==
  ASSUME Promise, NEW r \in Requests, Abort(r)
  PROVE  Requested' /\ Exclusive' /\ Cleared' /\ OneDefault'
<1> USE DEF Promise, ViewTypeOK
<1>1. views' = views /\ tx'[r] = Resting /\ \A q \in Requests \ {r} : tx'[q] = tx[q]
  BY DEF Abort
<1>2. \A q \in Requests : tx'[q].step = "cleared" => q # r /\ tx'[q] = tx[q]
  BY <1>1, NoViewIsNobodys
<1>3. Requested'
  BY <1>1 DEF Requested
<1> QED
  BY <1>1, <1>2, <1>3 DEF Exclusive, Cleared, OneDefault, Siblings

\* An action on one view that gives nobody a default: the view stays whose it was, or
\* nobody had it and no request is about to create it.
LEMMA OtherViewStep ==
  ASSUME Promise, tx' = tx, NEW v \in Views, NEW new \in StoredViews,
         views' = [views EXCEPT ![v] = new],
         new.default => views[v].default,
         \/ views[v].live /\ new.owner = views[v].owner /\ new.page = views[v].page
         \/ ~ Used(v)
  PROVE  Requested' /\ Exclusive' /\ Cleared' /\ OneDefault'
<1> USE DEF Promise, ViewTypeOK
<1>1. \A w \in Views : views'[w] = IF w = v THEN new ELSE views[w]
  OBVIOUS
<1>2. \A r \in Requests : tx[r] # Resting /\ tx[r].op = "create" => tx[r].view # v
  BY NoViewIsNobodys DEF Requested, Used
<1>3. \A r \in Requests : tx[r] # Resting => tx[r] \in Transactions
  OBVIOUS
<1>4. ASSUME NEW r \in Requests, tx[r] # Resting, tx[r].op # "create", tx[r].view = v
      PROVE  new.owner = views[v].owner /\ new.page = views[v].page
  <2>1. views[v].owner \in Owners
    BY <1>3, <1>4 DEF Requested, Transactions
  <2>2. views[v] # NoView
    BY <2>1, NoViewIsNobodys, ViewAssumption
  <2> QED
    BY <2>2 DEF Used
<1>5. Requested'
  <2> SUFFICES ASSUME NEW r \in Requests, tx[r] # Resting
               PROVE  IF tx[r].op = "create"
                      THEN /\ views'[tx[r].view] = NoView
                           /\ \A q \in Requests : tx[q] # Resting /\ tx[q].op = "create"
                                                  /\ tx[q].view = tx[r].view => q = r
                      ELSE /\ views'[tx[r].view].owner = tx[r].owner
                           /\ views'[tx[r].view].page = tx[r].page
    BY DEF Requested
  <2>1. tx[r].view \in Views
    BY <1>3 DEF Transactions
  <2> QED
    BY <1>1, <1>2, <1>4, <2>1 DEF Requested
<1>6. ASSUME NEW w \in Views, views'[w].default
      PROVE  views[w].default /\ views'[w].owner = views[w].owner /\ views'[w].page = views[w].page
  <2>1. CASE w = v
    <3>1. views[v].default
      BY <1>1, <1>6, <2>1
    <3>2. views[v] # NoView
      BY <3>1, NoViewIsNobodys
    <3> QED
      BY <1>1, <2>1, <3>1, <3>2 DEF Used
  <2>2. CASE w # v
    BY <1>1, <1>6, <2>2
  <2> QED
    BY <2>1, <2>2
<1>7. Cleared'
  BY <1>6 DEF Cleared, Siblings
<1>8. OneDefault'
  BY <1>6 DEF OneDefault
<1> QED
  BY <1>5, <1>7, <1>8 DEF Exclusive

\* The commit sets one default and clears what the lock has kept it from missing.
LEMMA CommitStep ==
  ASSUME Promise, NEW r \in Requests, Commit(r)
  PROVE  Requested' /\ Exclusive' /\ Cleared' /\ OneDefault'
<1> USE DEF Promise, ViewTypeOK
<1> DEFINE t == tx[r]
<1>1. t.step = "cleared" /\ t # Resting /\ t \in Transactions
  BY NoViewIsNobodys DEF Commit
<1>2. tx'[r] = Resting /\ \A q \in Requests \ {r} : tx'[q] = tx[q]
  BY DEF Commit
<1>3. PICK share \in BOOLEAN :
        views' = [v \in Views |->
          IF v = t.view THEN
            IF t.op = "create"
            THEN [owner |-> t.owner, page |-> t.page, default |-> TRUE,
                  shared |-> share, live |-> TRUE]
            ELSE [views[v] EXCEPT !.default = TRUE,
                                  !.shared = IF t.op = "update" THEN share ELSE @]
          ELSE IF v \in t.cleared THEN [views[v] EXCEPT !.default = FALSE]
          ELSE views[v]]
  BY DEF Commit
<1>4. t.view \in Views /\ t.owner \in Owners
  BY <1>1 DEF Transactions
<1>5. views'[t.view].owner = t.owner /\ views'[t.view].page = t.page
  <2>1. CASE t.op = "create"
    BY <1>3, <1>4, <2>1
  <2>2. CASE t.op # "create"
    <3>1. views[t.view].owner = t.owner /\ views[t.view].page = t.page
      BY <1>1, <2>2 DEF Requested
    <3>2. views[t.view] \in StoredViews
      BY <1>4, <3>1, NoViewIsNobodys, ViewAssumption
    <3> QED
      BY <1>3, <1>4, <2>2, <3>1, <3>2 DEF StoredViews
  <2> QED
    BY <2>1, <2>2
<1>6. ASSUME NEW v \in Views, v # t.view
      PROVE  /\ views'[v].owner = views[v].owner /\ views'[v].page = views[v].page
             /\ views'[v].default => views[v].default /\ v \notin t.cleared
             /\ views[v] = NoView => views'[v] = NoView
  <2>1. CASE v \in t.cleared
    <3>1. views'[v] = [views[v] EXCEPT !.default = FALSE]
      BY <1>3, <1>6, <2>1
    <3>2. CASE views[v] \in StoredViews
      BY <3>1, <3>2, NoViewIsNobodys, ViewAssumption DEF StoredViews
    <3>3. CASE views[v] = NoView
      BY <3>1, <3>3, NoViewIsNobodys
    <3> QED
      BY <3>2, <3>3
  <2>2. CASE v \notin t.cleared
    BY <1>3, <1>6, <2>2
  <2> QED
    BY <2>1, <2>2
<1>7. \A q \in Requests : tx'[q] # Resting => q # r /\ tx'[q] = tx[q] /\ tx[q] \in Transactions
  BY <1>2
<1>8. Requested'
  <2>1. ASSUME NEW q \in Requests, tx'[q] # Resting, tx'[q].op = "create"
        PROVE  /\ views'[tx'[q].view] = NoView
               /\ \A p \in Requests : tx'[p] # Resting /\ tx'[p].op = "create"
                                      /\ tx'[p].view = tx'[q].view => p = q
    <3>1. views[tx[q].view] = NoView /\ tx[q].view \in Views /\ q # r /\ tx'[q] = tx[q]
      BY <1>7, <2>1 DEF Requested, Transactions
    <3>2. tx[q].view # t.view
      <4>1. CASE t.op = "create"
        BY <1>1, <1>7, <2>1, <3>1, <4>1 DEF Requested
      <4>2. CASE t.op # "create"
        BY <1>1, <1>4, <3>1, <4>2, NoViewIsNobodys, ViewAssumption DEF Requested
      <4> QED
        BY <4>1, <4>2
    <3> QED
      BY <1>6, <1>7, <2>1, <3>1, <3>2 DEF Requested
  <2>2. ASSUME NEW q \in Requests, tx'[q] # Resting, tx'[q].op # "create"
        PROVE  views'[tx'[q].view].owner = tx'[q].owner /\ views'[tx'[q].view].page = tx'[q].page
    <3>1. /\ views[tx[q].view].owner = tx[q].owner /\ views[tx[q].view].page = tx[q].page
          /\ tx[q].view \in Views /\ tx[q].owner \in Owners /\ tx'[q] = tx[q]
      BY <1>7, <2>2 DEF Requested, Transactions
    <3>2. CASE tx[q].view # t.view
      BY <1>6, <3>1, <3>2
    <3>3. CASE tx[q].view = t.view
      <4>1. t.op # "create"
        BY <1>1, <3>1, <3>3, NoViewIsNobodys, ViewAssumption DEF Requested
      <4>2. t.owner = tx[q].owner /\ t.page = tx[q].page
        BY <1>1, <3>1, <3>3, <4>1 DEF Requested
      <4> QED
        BY <1>5, <3>1, <3>3, <4>2
    <3> QED
      BY <3>2, <3>3
  <2> QED
    BY <2>1, <2>2 DEF Requested
<1>9. \A q \in Requests : tx'[q].step = "cleared" => q # r /\ tx'[q] = tx[q]
  BY <1>2, NoViewIsNobodys
<1>10. Exclusive'
  BY <1>9 DEF Exclusive
<1>11. Cleared'
  <2> SUFFICES ASSUME NEW q \in Requests, tx[q].step = "cleared", q # r, NEW v \in Views,
                      views'[v].owner = tx[q].owner, views'[v].page = tx[q].page,
                      views'[v].default
               PROVE  v \in tx[q].cleared \cup {tx[q].view}
    BY <1>9 DEF Cleared, Siblings
  <2>1. v # t.view
    BY <1>1, <1>5 DEF Exclusive
  <2> QED
    BY <1>6, <2>1 DEF Cleared, Siblings
<1>12. OneDefault'
  <2>1. ASSUME NEW v \in Views, v # t.view, views'[v].default,
               views'[v].owner = t.owner, views'[v].page = t.page
        PROVE  FALSE
    BY <1>1, <1>6, <2>1 DEF Cleared, Siblings
  <2>2. ASSUME NEW v \in Views, NEW w \in Views, v # t.view, w # t.view,
               views'[v].default, views'[w].default,
               views'[v].owner = views'[w].owner, views'[v].page = views'[w].page
        PROVE  v = w
    BY <1>6, <2>2 DEF OneDefault
  <2> QED
    BY <1>5, <2>1, <2>2 DEF OneDefault
<1> QED
  BY <1>8, <1>10, <1>11, <1>12

LEMMA PromiseInit == ViewInit => Promise
<1>1. ViewInit => ViewTypeOK
  BY DEF ViewInit, ViewTypeOK
<1> QED
  BY <1>1, NoViewIsNobodys
  DEF ViewInit, Promise, Requested, Exclusive, Cleared, OneDefault, Siblings

LEMMA PromiseStep ==
  ASSUME Promise, [ViewNext]_viewVars
  PROVE  Promise'
<1>1. ViewTypeOK'
  BY ViewTypeStep DEF Promise
<1>2. CASE \E r \in Requests : BeginCreate(r) \/ Find(r) \/ ClearDefaults(r) \/ Commit(r) \/ Abort(r)
  BY <1>1, <1>2, BeginCreateStep, FindStep, ClearStep, CommitStep, AbortStep DEF Promise
<1>3. CASE AddView
  <2>1. PICK v \in {w \in Views : ~ Used(w)}, o \in Owners, p \in PageTypes :
          views' = [views EXCEPT ![v] = [NoView EXCEPT !.owner = o, !.page = p, !.live = TRUE]]
    BY <1>3 DEF AddView
  <2>2. /\ [NoView EXCEPT !.owner = o, !.page = p, !.live = TRUE] \in StoredViews
        /\ [NoView EXCEPT !.owner = o, !.page = p, !.live = TRUE].default = FALSE
    BY DEF NoView, StoredViews
  <2> QED
    BY <1>1, <1>3, <2>1, <2>2, OtherViewStep DEF AddView, Promise
<1>4. CASE Undefault
  <2>1. PICK v \in Views : views[v].live /\ views' = [views EXCEPT ![v].default = FALSE]
    BY <1>4 DEF Undefault
  <2>2. views[v] \in StoredViews
    BY <2>1, NoViewIsNobodys DEF Promise, ViewTypeOK
  <2> DEFINE new == [views[v] EXCEPT !.default = FALSE]
  <2>3. /\ new \in StoredViews /\ new.default = FALSE
        /\ new.owner = views[v].owner /\ new.page = views[v].page
    BY <2>2 DEF StoredViews
  <2>4. views' = [views EXCEPT ![v] = new] /\ tx' = tx
    BY <1>4, <2>1 DEF Undefault
  <2> HIDE DEF new
  <2> QED
    BY <1>1, <2>1, <2>3, <2>4, OtherViewStep DEF Promise
<1>5. CASE DeleteView
  <2>1. PICK v \in Views : views[v].live /\ views' = [views EXCEPT ![v].live = FALSE]
    BY <1>5 DEF DeleteView
  <2>2. views[v] \in StoredViews
    BY <2>1, NoViewIsNobodys DEF Promise, ViewTypeOK
  <2> DEFINE new == [views[v] EXCEPT !.live = FALSE]
  <2>3. /\ new \in StoredViews /\ new.default = views[v].default
        /\ new.owner = views[v].owner /\ new.page = views[v].page
    BY <2>2 DEF StoredViews
  <2>4. views' = [views EXCEPT ![v] = new] /\ tx' = tx
    BY <1>5, <2>1 DEF DeleteView
  <2> HIDE DEF new
  <2> QED
    BY <1>1, <2>1, <2>3, <2>4, OtherViewStep DEF Promise
<1>6. CASE UNCHANGED viewVars
  BY <1>1, <1>6 DEF viewVars, Promise, Requested, Exclusive, Cleared, OneDefault, Siblings
<1> QED
  BY <1>2, <1>3, <1>4, <1>5, <1>6 DEF ViewNext

\* Type correctness: a stored view has an owner and a page, and a request under way
\* knows both of its view (saved-views.service.ts).
THEOREM ViewTypeCorrect == ViewSpec => []ViewTypeOK
<1>1. Promise => ViewTypeOK
  BY DEF Promise
<1> QED
  BY <1>1, PromiseInit, PromiseStep, PTL DEF ViewSpec

\* A user has at most one default view of a page, for any number of users, views and
\* overlapping requests that create, edit, choose, copy and delete them, as long as
\* the clearing update of saved-views.service.ts locks what it clears.
THEOREM DefaultsAreUnique == ViewSpec => []OneDefault
<1>1. Promise => OneDefault
  BY DEF Promise
<1> QED
  BY <1>1, PromiseInit, PromiseStep, PTL DEF ViewSpec

-----------------------------------------------------------------------------
(* Import.                                                                  *)

\* The variables have the shapes the operations need (what a file holds is left open).
IsImport(x) ==
  DOMAIN x = {"step", "file", "todo", "preview", "found", "known", "created", "updated", "failed"}

IsSequence(s) == \E S : s \in Seq(S)

Shapes ==
  /\ IsSequence(stored)
  /\ DOMAIN imports = Importers
  /\ \A i \in Importers : IsImport(imports[i])
  /\ overlapped \in BOOLEAN

\* What an import that is alone has found still stands when it writes.
Stands(i) ==
  LET n == imports[i].found
      matches == {m \in DOMAIN stored : Key(stored[m]) = Key(imports[i].todo[1].row)}
  IN  /\ n = 0 => matches = {}
      /\ n # 0 => /\ n \in matches
                  /\ imports[i].known <=> stored[n].attendance # Nothing

Alone ==
  /\ \A i, j \in Importers : Busy(i) /\ Busy(j) => i = j
  /\ \A i \in Importers : imports[i].step = "found" => Stands(i)

Recorded == Shapes /\ OnePerKey /\ (overlapped \/ Alone)

LEMMA AppendShape ==
  ASSUME NEW s, IsSequence(s), NEW e
  PROVE  /\ IsSequence(Append(s, e)) /\ Len(s) \in Nat /\ DOMAIN s = 1 .. Len(s)
         /\ DOMAIN Append(s, e) = 1 .. Len(s) + 1
         /\ \A n \in 1 .. Len(s) : Append(s, e)[n] = s[n]
         /\ Append(s, e)[Len(s) + 1] = e
<1>1. PICK S : s \in Seq(S)
  BY DEF IsSequence
<1>2. s \in Seq(S \cup {e})
  BY <1>1
<1>3. Append(s, e) \in Seq(S \cup {e})
  BY <1>2
<1>4. IsSequence(Append(s, e))
  BY <1>3 DEF IsSequence
<1> QED
  BY <1>2, <1>3, <1>4

LEMMA ExceptShape ==
  ASSUME NEW s, IsSequence(s), NEW n, NEW e
  PROVE  /\ IsSequence([s EXCEPT ![n] = e])
         /\ DOMAIN [s EXCEPT ![n] = e] = DOMAIN s
<1>1. PICK S : s \in Seq(S)
  BY DEF IsSequence
<1>2. s \in Seq(S \cup {e})
  BY <1>1
<1>3. CASE n \in 1 .. Len(s)
  <2>1. [s EXCEPT ![n] = e] \in Seq(S \cup {e})
    BY <1>2, <1>3, ExceptSeq
  <2>2. DOMAIN [s EXCEPT ![n] = e] = DOMAIN s
    OBVIOUS
  <2> QED
    BY <2>1, <2>2 DEF IsSequence
<1>4. CASE n \notin 1 .. Len(s)
  <2>1. [s EXCEPT ![n] = e] = s
    BY <1>2, <1>4
  <2> QED
    BY <2>1
<1> QED
  BY <1>3, <1>4

LEMMA InitRecorded == ImportInit => Recorded
<1> SUFFICES ASSUME NEW rt, ImportStart(rt) PROVE Recorded
  BY DEF ImportInit
<1>1. IsSequence(stored) /\ DOMAIN stored = {}
  <2>1. << >> \in Seq({})
    OBVIOUS
  <2> QED
    BY <2>1 DEF ImportStart, IsSequence
<1>2. imports = [i \in Importers |-> NotImporting] /\ overlapped = FALSE
  BY DEF ImportStart
<1>3. IsImport(NotImporting)
  BY DEF IsImport, NotImporting
<1>4. Shapes
  BY <1>1, <1>2, <1>3 DEF Shapes
<1>5. Alone
  BY <1>2 DEF Alone, Busy, NotImporting
<1>6. OnePerKey
  BY <1>1 DEF OnePerKey
<1> QED
  BY <1>4, <1>5, <1>6 DEF Recorded

\* A step of one import, by what becomes of its own record.
OnlyImport(i) ==
  /\ DOMAIN imports' = Importers
  /\ \A j \in Importers : j # i => imports'[j] = imports[j]
  /\ IsImport(imports'[i])

LEMMA ShapesKept ==
  ASSUME Shapes, NEW i \in Importers, OnlyImport(i), IsSequence(stored'), overlapped' \in BOOLEAN
  PROVE  Shapes'
BY DEF Shapes, OnlyImport

\* A step that ends a row, or the import, without writing a registration.
LEMMA RowEnds ==
  ASSUME Recorded, NEW i \in Importers, Busy(i), OnlyImport(i), imports'[i].step # "found",
         UNCHANGED <<stored, overlapped>>
  PROVE  Recorded'
<1>1. Shapes'
  BY ShapesKept DEF Recorded, Shapes
<1>2. OnePerKey'
  BY DEF Recorded, OnePerKey
<1>3. Alone => Alone'
  BY DEF Alone, Busy, Stands, OnlyImport
<1> QED
  BY <1>1, <1>2, <1>3 DEF Recorded

LEMMA BeginRecorded ==
  ASSUME Recorded, NEW i \in Importers, BeginImport(i)
  PROVE  Recorded'
<1>1. DOMAIN imports = Importers
  BY DEF Recorded, Shapes
<1>2. OnlyImport(i) /\ imports'[i].step \in {"done", "rows"}
  BY <1>1 DEF BeginImport, OnlyImport, IsImport, NotImporting
<1>3. stored' = stored /\ overlapped' = (overlapped \/ \E j \in Importers : Busy(j))
  BY DEF BeginImport
<1>4. Shapes'
  BY <1>2, <1>3, ShapesKept DEF Recorded, Shapes
<1>5. OnePerKey'
  BY <1>3 DEF Recorded, OnePerKey
<1>6. ASSUME ~ overlapped' PROVE Alone'
  <2>1. \A j \in Importers : j # i => imports'[j].step \notin {"rows", "found"}
    BY <1>2, <1>3, <1>6 DEF Busy, OnlyImport
  <2> QED
    BY <1>2, <2>1 DEF Alone, Busy
<1> QED
  BY <1>4, <1>5, <1>6 DEF Recorded

LEMMA FindRecorded ==
  ASSUME Recorded, NEW i \in Importers, FindRegistration(i)
  PROVE  Recorded'
<1> DEFINE row     == imports[i].todo[1].row
           matches == {n \in DOMAIN stored : Key(stored[n]) = Key(row)}
           first   == IF matches = {} THEN 0 ELSE CHOOSE n \in matches : \A m \in matches : n <= m
           known   == first > 0 /\ stored[first].attendance # Nothing
<1>1. DOMAIN imports = Importers /\ IsImport(imports[i])
  BY DEF Recorded, Shapes
<1>2. /\ imports' = [imports EXCEPT ![i].step = "found", ![i].found = first, ![i].known = known]
      /\ UNCHANGED <<stored, overlapped>> /\ Busy(i)
  BY DEF FindRegistration, Busy
<1> HIDE DEF first, known
<1>3. /\ OnlyImport(i) /\ imports'[i].step = "found" /\ imports'[i].found = first
      /\ imports'[i].todo = imports[i].todo /\ imports'[i].known = known
  BY <1>1, <1>2, Zenon DEF OnlyImport, IsImport
<1>4. Shapes'
  BY <1>2, <1>3, ShapesKept DEF Recorded, Shapes
<1>5. OnePerKey'
  BY <1>2 DEF Recorded, OnePerKey
<1>6. ASSUME ~ overlapped PROVE Alone'
  <2>1. \A m, n \in matches : m = n
    BY <1>6 DEF Recorded, OnePerKey, SameSitting, Key
  <2>2. \A n \in matches : n \in Nat /\ n # 0
    BY AppendShape DEF Recorded, Shapes
  <2>3. matches # {} => first \in matches /\ first # 0
    BY <2>1, <2>2 DEF first
  <2>4. matches = {} => first = 0
    BY DEF first
  <2>5. first # 0 => (known <=> stored[first].attendance # Nothing)
    BY <2>2, <2>3, <2>4 DEF known
  <2>6. Stands(i)'
    BY <1>2, <1>3, <2>3, <2>4, <2>5 DEF Stands
  <2> QED
    BY <1>2, <1>3, <1>6, <2>6 DEF Recorded, Alone, Busy, OnlyImport, Stands
<1> QED
  BY <1>2, <1>4, <1>5, <1>6 DEF Recorded

LEMMA WriteRecorded ==
  ASSUME Recorded, NEW i \in Importers, WriteRegistration(i)
  PROVE  Recorded'
<1> DEFINE row == imports[i].todo[1].row
           n   == imports[i].found
           new == [student |-> row.student, subject |-> row.subject, code |-> row.code,
                   exam |-> row.exam, workspace |-> ResolveWorkspace(routing, row.exam),
                   attendance |-> row.attendance]
           upd == [new EXCEPT !.attendance = AttendanceAfter(i, stored[n].attendance, row)]
<1>1. DOMAIN imports = Importers /\ IsImport(imports[i]) /\ IsSequence(stored) /\ overlapped \in BOOLEAN
  BY DEF Recorded, Shapes
<1>2. OnlyImport(i) /\ imports'[i].step = "rows" /\ overlapped' = overlapped /\ Busy(i)
  BY <1>1 DEF WriteRegistration, OnlyImport, IsImport, Busy
<1>3. \/ n = 0 /\ stored' = Append(stored, new)
      \/ n # 0 /\ stored' = [stored EXCEPT ![n] = upd]
  BY DEF WriteRegistration
<1>4. Key(new) = Key(row) /\ Key(upd) = Key(row)
  BY DEF Key
<1>5. imports[i].step = "found"
  BY DEF WriteRegistration
<1> HIDE DEF new, upd
<1>6. IsSequence(stored')
  <2>1. CASE stored' = Append(stored, new)
    BY <1>1, <2>1, AppendShape
  <2>2. CASE stored' = [stored EXCEPT ![n] = upd]
    BY <1>1, <2>2, ExceptShape
  <2> QED
    BY <1>3, <2>1, <2>2
<1>7. Shapes'
  BY <1>1, <1>2, <1>6, ShapesKept DEF Recorded
<1>8. ASSUME ~ overlapped PROVE OnePerKey' /\ Alone'
  <2>1. Alone /\ Stands(i)
    BY <1>8, <1>5 DEF Recorded, Alone
  <2>2. \A a, b \in DOMAIN stored : Key(stored[a]) = Key(stored[b]) => a = b
    BY <1>8 DEF Recorded, OnePerKey, SameSitting, Key
  <2>3. \A a, b \in DOMAIN stored' : Key(stored'[a]) = Key(stored'[b]) => a = b
    <3>1. CASE n = 0
      <4>1. \A a \in DOMAIN stored : Key(stored[a]) # Key(row)
        BY <2>1, <3>1 DEF Stands
      <4> QED
        BY <1>1, <1>3, <1>4, <2>2, <3>1, <4>1, AppendShape
    <3>2. CASE n # 0
      <4>1. n \in DOMAIN stored /\ Key(stored[n]) = Key(row)
        BY <2>1, <3>2 DEF Stands
      <4> QED
        BY <1>3, <1>4, <2>2, <3>2, <4>1
    <3> QED
      BY <3>1, <3>2
  <2>4. OnePerKey'
    BY <2>3 DEF OnePerKey, SameSitting, Key
  <2>5. Alone'
    BY <1>2, <2>1 DEF Alone, Busy, OnlyImport
  <2> QED
    BY <2>4, <2>5
<1>9. OnePerKey' /\ (overlapped' \/ Alone')
  BY <1>1, <1>2, <1>8 DEF OnePerKey
<1> QED
  BY <1>7, <1>9 DEF Recorded

LEMMA NextRecorded == Recorded /\ [ImportNext]_importVars => Recorded'
<1> SUFFICES ASSUME Recorded, [ImportNext]_importVars PROVE Recorded'
  OBVIOUS
<1>1. \A i \in Importers : DOMAIN imports = Importers /\ IsImport(imports[i])
  BY DEF Recorded, Shapes
<1>2. ASSUME NEW i \in Importers, BeginImport(i) \/ FindRegistration(i) \/ WriteRegistration(i)
      PROVE  Recorded'
  BY <1>2, BeginRecorded, FindRecorded, WriteRecorded
<1>3. ASSUME NEW i \in Importers, FailRow(i) PROVE Recorded'
  <2>1. /\ OnlyImport(i) /\ Busy(i) /\ imports'[i].step # "found"
        /\ UNCHANGED <<stored, overlapped>>
    BY <1>1, <1>3 DEF FailRow, OnlyImport, IsImport, Busy
  <2> QED
    BY <2>1, RowEnds
<1>4. ASSUME NEW i \in Importers, EndImport(i) PROVE Recorded'
  <2>1. /\ OnlyImport(i) /\ Busy(i) /\ imports'[i].step # "found"
        /\ UNCHANGED <<stored, overlapped>>
    BY <1>1, <1>4 DEF EndImport, OnlyImport, IsImport, Busy
  <2> QED
    BY <2>1, RowEnds
<1>5. ASSUME NEW i \in Importers, DieImporting(i) PROVE Recorded'
  <2>1. /\ OnlyImport(i) /\ Busy(i) /\ imports'[i].step # "found"
        /\ UNCHANGED <<stored, overlapped>>
    BY <1>1, <1>5 DEF DieImporting, OnlyImport, IsImport, Busy, NotImporting
  <2> QED
    BY <2>1, RowEnds
<1>6. CASE UNCHANGED importVars
  BY <1>6 DEF importVars, Recorded, Shapes, OnePerKey, Alone, Busy, Stands
<1> QED
  BY <1>2, <1>3, <1>4, <1>5, <1>6 DEF ImportNext

\* A student's sitting is stored once, for any number of imports, files and failures, as
\* long as no two imports have been under way at once (importRegistrations looks a row up
\* in one statement and writes it in the next, import.service.ts).
THEOREM StoredOnce == ImportSpec => []OnePerKey
<1>1. Recorded => OnePerKey
  BY DEF Recorded
<1> QED
  BY <1>1, InitRecorded, NextRecorded, PTL DEF ImportSpec

LEMMA StepKeeps ==
  ASSUME Recorded, ImportNext
  PROVE  /\ \A s \in DOMAIN roster : roster[s] # Nothing => roster'[s] # Nothing
         /\ overlapped' \/ \A n \in DOMAIN stored :
              stored[n].attendance # Nothing => stored'[n].attendance = stored[n].attendance
<1> DEFINE Goal == /\ \A s \in DOMAIN roster : roster[s] # Nothing => roster'[s] # Nothing
                   /\ overlapped' \/ \A n \in DOMAIN stored :
                        stored[n].attendance # Nothing => stored'[n].attendance = stored[n].attendance
<1>1. ASSUME NEW i \in Importers, BeginImport(i) \/ FailRow(i) \/ EndImport(i) \/ DieImporting(i)
      PROVE  Goal
  BY <1>1 DEF BeginImport, FailRow, EndImport, DieImporting
<1>2. ASSUME NEW i \in Importers, FindRegistration(i) PROVE Goal
  <2>1. stored' = stored
    BY <1>2 DEF FindRegistration
  <2>2. roster' = [roster EXCEPT ![imports[i].todo[1].row.student] =
                      Known(imports[i].todo[1].row.student, imports[i].todo[1].row.name)]
    BY <1>2 DEF FindRegistration
  <2> QED
    BY <2>1, <2>2 DEF Known
<1>3. ASSUME NEW i \in Importers, WriteRegistration(i) PROVE Goal
  <2> DEFINE row == imports[i].todo[1].row
             n   == imports[i].found
             new == [student |-> row.student, subject |-> row.subject, code |-> row.code,
                     exam |-> row.exam, workspace |-> ResolveWorkspace(routing, row.exam),
                     attendance |-> row.attendance]
             upd == [new EXCEPT !.attendance = AttendanceAfter(i, stored[n].attendance, row)]
  <2>1. \/ n = 0 /\ stored' = Append(stored, new)
        \/ n # 0 /\ stored' = [stored EXCEPT ![n] = upd]
    BY <1>3 DEF WriteRegistration
  <2>2. roster' = roster /\ overlapped' = overlapped /\ imports[i].step = "found"
    BY <1>3 DEF WriteRegistration
  <2>3. upd.attendance = AttendanceAfter(i, stored[n].attendance, row)
    OBVIOUS
  <2> HIDE DEF new, upd
  <2>4. ASSUME ~ overlapped, n # 0, stored[n].attendance # Nothing
        PROVE  upd.attendance = stored[n].attendance
    BY <2>2, <2>3, <2>4 DEF Recorded, Alone, Stands, AttendanceAfter
  <2>5. IsSequence(stored)
    BY DEF Recorded, Shapes
  <2> QED
    BY <2>1, <2>2, <2>4, <2>5, AppendShape
<1> QED
  BY <1>1, <1>2, <1>3 DEF ImportNext

\* What is known is not lost by importing again: no blank cell takes a name away, and an
\* attendance once set stays, unless imports overlapped (import.service.ts:238).
THEOREM ImportKeepsWhatIsKnown == ImportSpec => KnownIsKept
<1>1. Recorded /\ [ImportNext]_importVars =>
        [ /\ \A s \in DOMAIN roster : roster[s] # Nothing => roster'[s] # Nothing
          /\ overlapped' \/ \A n \in DOMAIN stored :
               stored[n].attendance # Nothing => stored'[n].attendance = stored[n].attendance ]_importVars
  BY StepKeeps
<1> QED
  BY <1>1, InitRecorded, NextRecorded, PTL DEF ImportSpec, KnownIsKept

-----------------------------------------------------------------------------
(* Attention.                                                               *)

Tables ==
  /\ DOMAIN items = Keys /\ DOMAIN refresh = Refreshers
  /\ \A f \in Refreshers : DOMAIN refresh[f] = {"step", "detected", "todo", "stale"}

AllRead == Cardinality(Students) <= ReadLimit

\* What a refresh that is alone has read is still so, and what it has stored is there.
Progress(f) ==
  /\ refresh[f].step \in {"store", "resolve"} =>
       /\ refresh[f].detected \subseteq Detected(regs)
       /\ AllRead => refresh[f].detected = Detected(regs)
       /\ \A k \in refresh[f].detected \ refresh[f].todo : items[k] # Absent
  /\ refresh[f].step = "resolve" =>
       /\ refresh[f].todo = {}
       /\ \A k \in Keys : Unsettled(k) => k \in refresh[f].stale \/ k \in Detected(regs)
  /\ refresh[f].step = "done" =>
       /\ AllRead => \A k \in Detected(regs) : items[k] # Absent
       /\ \A k \in Keys : Unsettled(k) => k \in Detected(regs)

Refreshing == Tables /\ \A f \in Refreshers : undisturbed[f] => Progress(f)

LEMMA InitRefreshing == AttentionInit => Refreshing
BY DEF AttentionInit, AttentionStart, Refreshing, Tables, Progress, Waiting

\* A step of one refresher, by what becomes of its own record.
OnlyRefresh(f) ==
  /\ DOMAIN refresh' = Refreshers
  /\ \A g \in Refreshers : g # f => refresh'[g] = refresh[g]
  /\ DOMAIN refresh'[f] = {"step", "detected", "todo", "stale"}

\* A step of f that only reads, or that f's peers notice, keeps what they rely on.
LEMMA RefreshStep ==
  ASSUME Refreshing, NEW f \in Refreshers, OnlyRefresh(f), DOMAIN items' = Keys, regs' = regs,
         \/ \A g \in Refreshers : g # f => ~ undisturbed'[g]
         \/ UNCHANGED <<items, undisturbed>>,
         undisturbed'[f] => Progress(f)'
  PROVE  Refreshing'
<1>1. Tables'
  BY DEF Refreshing, Tables, OnlyRefresh
<1>2. ASSUME NEW g \in Refreshers, g # f, undisturbed'[g] PROVE Progress(g)'
  <2>1. UNCHANGED <<items, undisturbed, regs>> /\ refresh'[g] = refresh[g] /\ Progress(g)
    BY <1>2 DEF OnlyRefresh, Refreshing
  <2> QED
    BY <2>1 DEF Progress, Unsettled, Detected
<1> QED
  BY <1>1, <1>2 DEF Refreshing

LEMMA NextRefreshing == Refreshing /\ [AttentionNext]_attnVars => Refreshing'
<1> SUFFICES ASSUME Refreshing, [AttentionNext]_attnVars PROVE Refreshing'
  OBVIOUS
<1>1. Tables
  BY DEF Refreshing
<1>2. ASSUME NEW f \in Refreshers, ReadRegistrations(f) PROVE Refreshing'
  <2>a. PICK page \in Pages, detected \in SUBSET Detected(regs) :
          /\ detected = {k \in Detected(regs) : k[1] \in page}
          /\ refresh' = [refresh EXCEPT ![f] = [Waiting EXCEPT !.step = "store",
                                                  !.detected = detected, !.todo = detected]]
    BY <1>2 DEF ReadRegistrations
  <2>b. AllRead => detected = Detected(regs)
    BY <2>a DEF AllRead, Pages, Detected, Keys
  <2>1. /\ OnlyRefresh(f) /\ UNCHANGED <<regs, items>> /\ refresh'[f].step = "store"
        /\ refresh'[f].detected \subseteq Detected(regs) /\ refresh'[f].todo = refresh'[f].detected
        /\ AllRead => refresh'[f].detected = Detected(regs)
        /\ \A g \in Refreshers : g # f => ~ undisturbed'[g]
    BY <1>1, <1>2, <2>a, <2>b DEF ReadRegistrations, Tables, OnlyRefresh, Waiting
  <2>2. Progress(f)'
    BY <2>1 DEF Progress, Detected
  <2> QED
    BY <1>1, <2>1, <2>2, RefreshStep DEF Tables
<1>3. ASSUME NEW f \in Refreshers, StoreItem(f) PROVE Refreshing'
  <2>1. PICK k \in refresh[f].todo :
          /\ items' = [items EXCEPT ![k] = Upserted(@)]
          /\ refresh' = [refresh EXCEPT ![f].todo = @ \ {k}]
    BY <1>3 DEF StoreItem
  <2>2. /\ OnlyRefresh(f) /\ refresh[f].step = "store" /\ refresh'[f].step = "store"
        /\ refresh'[f].detected = refresh[f].detected /\ refresh'[f].todo = refresh[f].todo \ {k}
    BY <1>1, <1>3, <2>1 DEF StoreItem, Tables, OnlyRefresh
  <2>3. /\ \A g \in Refreshers : g # f => ~ undisturbed'[g]
        /\ undisturbed'[f] => undisturbed[f]
        /\ regs' = regs
    BY <1>3 DEF StoreItem, DisturbOthers
  <2>4. Upserted(items[k]) # Absent
    BY DEF Upserted, Open, Absent
  <2>5. DOMAIN items' = Keys /\ \A d \in Keys : items'[d] # Absent <=> d = k \/ items[d] # Absent
    BY <1>1, <2>1, <2>4 DEF Tables
  <2>6. Detected(regs) \subseteq Keys
    BY DEF Detected
  <2>7. undisturbed'[f] => Progress(f)'
    BY <2>2, <2>3, <2>5, <2>6 DEF Refreshing, Progress, Detected
  <2> QED
    BY <2>2, <2>3, <2>5, <2>7, RefreshStep
<1>4. ASSUME NEW f \in Refreshers, ReadItems(f) PROVE Refreshing'
  <2>1. /\ OnlyRefresh(f) /\ UNCHANGED <<regs, items, undisturbed>>
        /\ refresh[f].step = "store" /\ refresh[f].todo = {}
        /\ refresh'[f].step = "resolve" /\ refresh'[f].stale = Stale(f)
        /\ refresh'[f].detected = refresh[f].detected /\ refresh'[f].todo = refresh[f].todo
    BY <1>1, <1>4 DEF ReadItems, Tables, OnlyRefresh
  <2>2. undisturbed'[f] => Progress(f)'
    BY <2>1 DEF Refreshing, Progress, Detected, Stale, Unsettled
  <2> QED
    BY <1>1, <2>1, <2>2, RefreshStep DEF Tables
<1>5. ASSUME NEW f \in Refreshers, ResolveStale(f) PROVE Refreshing'
  <2>1. /\ OnlyRefresh(f) /\ regs' = regs /\ refresh[f].step = "resolve" /\ refresh'[f].step = "done"
        /\ \A g \in Refreshers : g # f => ~ undisturbed'[g]
        /\ undisturbed'[f] => undisturbed[f]
    BY <1>1, <1>5 DEF ResolveStale, DisturbOthers, Tables, OnlyRefresh, Waiting
  <2>2. items' = [k \in Keys |-> IF k \in refresh[f].stale
                                 THEN [status |-> "RESOLVED", by |-> "SYSTEM"] ELSE items[k]]
    BY <1>5 DEF ResolveStale
  <2>3. \A k \in Keys : /\ items[k] # Absent => items'[k] # Absent
                        /\ Unsettled(k)' => Unsettled(k) /\ k \notin refresh[f].stale
    BY <2>2 DEF Absent, Unsettled
  <2>4. Detected(regs) \subseteq Keys
    BY DEF Detected
  <2>5. undisturbed'[f] => Progress(f)'
    BY <2>1, <2>3, <2>4 DEF Refreshing, Progress, Detected
  <2> QED
    BY <2>1, <2>2, <2>5, RefreshStep
<1>6. ASSUME NEW f \in Refreshers, RefreshFails(f) PROVE Refreshing'
  <2>1. OnlyRefresh(f) /\ UNCHANGED <<regs, items, undisturbed>> /\ refresh'[f].step = "idle"
    BY <1>1, <1>6 DEF RefreshFails, Tables, OnlyRefresh, Waiting
  <2>2. Progress(f)'
    BY <2>1 DEF Progress
  <2> QED
    BY <1>1, <2>1, <2>2, RefreshStep DEF Tables
<1>7. CASE RegistrationChanges \/ SetItemStatus
  BY <1>1, <1>7 DEF RegistrationChanges, SetItemStatus, Refreshing, Tables
<1>8. CASE UNCHANGED attnVars
  BY <1>8 DEF attnVars, Refreshing, Tables, Progress, Unsettled, Detected
<1> QED
  BY <1>2, <1>3, <1>4, <1>5, <1>6, <1>7, <1>8 DEF AttentionNext

\* After a refresh that nothing came between, no item of a vanished issue waits for
\* staff, and every issue has its item where a refresh reads every registration
\* (refreshAttentionItems, attention.service.ts): for any registrations, any limit of
\* what is read and any number of refreshers.
THEOREM UndisturbedRefreshCatchesUp == AttentionSpec => []RefreshCatchesUp
<1>1. Refreshing => RefreshCatchesUp
  BY DEF Refreshing, Progress, RefreshCatchesUp, Refreshed, AllRead
<1> QED
  BY <1>1, InitRefreshing, NextRefreshing, PTL DEF AttentionSpec

LEMMA RefreshersKeepStaffWork ==
  ASSUME Tables, AttentionNext, NEW k \in Keys, \E f \in Refreshers : refresh'[f] # refresh[f]
  PROVE  /\ items[k].status = "ACKNOWLEDGED" => items'[k].status \in {"ACKNOWLEDGED", "RESOLVED"}
         /\ items[k].status = "RESOLVED" => items'[k].status = "RESOLVED"
<1>1. ASSUME NEW f \in Refreshers, StoreItem(f) PROVE items'[k] = items[k] \/ items[k].status = "NONE"
  <2>1. PICK d \in refresh[f].todo : items' = [items EXCEPT ![d] = Upserted(@)]
    BY <1>1 DEF StoreItem
  <2> QED
    BY <2>1 DEF Tables, Upserted, Absent
<1>2. ASSUME NEW f \in Refreshers, ResolveStale(f)
      PROVE  items'[k] = items[k] \/ items'[k].status = "RESOLVED"
  BY <1>2 DEF ResolveStale
<1>3. ASSUME NEW f \in Refreshers, ReadRegistrations(f) \/ ReadItems(f) \/ RefreshFails(f)
      PROVE  items'[k] = items[k]
  BY <1>3 DEF ReadRegistrations, ReadItems, RefreshFails
<1>4. ~ (RegistrationChanges \/ SetItemStatus)
  BY DEF RegistrationChanges, SetItemStatus
<1> QED
  BY <1>1, <1>2, <1>3, <1>4 DEF AttentionNext

\* No refresh, alone or not, takes an item back from staff (the update half of its upsert
\* leaves the status alone, and it resolves items only).
THEOREM RefreshLeavesStaffWork == AttentionSpec => StaffWorkIsKept
<1>1. Refreshing /\ [AttentionNext]_attnVars =>
        [ \A k \in Keys :
            (\E f \in Refreshers : refresh'[f] # refresh[f]) =>
              /\ items[k].status = "ACKNOWLEDGED" => items'[k].status \in {"ACKNOWLEDGED", "RESOLVED"}
              /\ items[k] = [status |-> "RESOLVED", by |-> "staff"]
                   => items'[k].status = "RESOLVED" ]_attnVars
  BY RefreshersKeepStaffWork DEF Refreshing
<1> QED
  BY <1>1, InitRefreshing, NextRefreshing, PTL DEF AttentionSpec, StaffWorkIsKept

-----------------------------------------------------------------------------
(* ManualCheck.                                                             *)

Fields == {"step", "override", "reg", "server", "resolvedBy", "status", "results", "live",
           "relations", "verdicts", "success", "error"}

\* Nothing is compared before both endpoints have been asked, and a live status comes
\* with the answer that brought it.
Unanswered ==
  /\ DOMAIN check = Fields
  /\ check.status # "ok" => check.live = "missing"
  /\ check.step \in {"begin", "resolve", "status", "results", "compare"} => check.verdicts = << >>
  /\ ~ Answered(check) =>
       \A k \in DOMAIN check.verdicts \ {"workspaceMapping", "existence"} :
         check.verdicts[k] = "NOT_ENOUGH_DATA"

\* Nothing is said without an answer.
LEMMA SilentComparisons ==
  ASSUME NEW c, ~ Answered(c), c.live = "missing"
  PROVE  \A k \in DOMAIN Comparisons(c) \ {"workspaceMapping", "existence"} :
           Comparisons(c)[k] = "NOT_ENOUGH_DATA"
<1>1. \A w : Verdict("missing", w) = "NOT_ENOUGH_DATA"
  BY DEF Verdict
<1>2. Attendance(c) = "NOT_ENOUGH_DATA"
  BY DEF Attendance
<1>3. Relation(c.reg.status, c.live) = "missing"
  BY DEF Relation
<1>4. Comparisons(c) = [ existence   |-> Existence(c),
        examName    |-> "NOT_ENOUGH_DATA",
        externalId  |-> "NOT_ENOUGH_DATA",
        studentName |-> "NOT_ENOUGH_DATA",
        workspaceMapping |-> Mapping(c),
        attendance  |-> "NOT_ENOUGH_DATA",
        status      |-> "NOT_ENOUGH_DATA" ]
  BY <1>1, <1>2, <1>3 DEF Comparisons
<1> QED
  BY <1>4

LEMMA InitUnanswered == CheckInit => Unanswered
<1> SUFFICES ASSUME NEW o, check = [Blank EXCEPT !.override = o] PROVE Unanswered
  BY DEF CheckInit, CheckStart
<1>1. DOMAIN check = Fields /\ check.status = "unasked" /\ check.live = "missing"
      /\ check.verdicts = << >>
  BY DEF Blank, Fields
<1>2. DOMAIN << >> = {}
  OBVIOUS
<1> QED
  BY <1>1, <1>2 DEF Unanswered

LEMMA NextUnanswered == Unanswered /\ [CheckNext]_checkVars => Unanswered'
<1> SUFFICES ASSUME Unanswered, [CheckNext]_checkVars PROVE Unanswered'
  OBVIOUS
<1> DEFINE Early == {"begin", "resolve", "status", "results", "compare"}
           Kept  == UNCHANGED <<check.status, check.results, check.live, check.verdicts>>
<1>1. DOMAIN check = Fields
  BY DEF Unanswered
<1>2. DOMAIN << >> = {}
  OBVIOUS
\* Before the comparison.
<1>3. ASSUME DOMAIN check' = Fields, check.step \in Early, check'.verdicts = check.verdicts,
             check'.status # "ok" => check'.live = "missing"
      PROVE  Unanswered'
  BY <1>2, <1>3 DEF Unanswered
\* After it.
<1>4. ASSUME DOMAIN check' = Fields, check'.step = "done", Kept
      PROVE  Unanswered'
  BY <1>4 DEF Unanswered, Answered
<1>5. CASE RefuseEmpty
  <2>1. DOMAIN check' = Fields /\ check.step \in Early /\ check'.verdicts = check.verdicts
        /\ (check'.status # "ok" => check'.live = "missing")
    BY <1>1, <1>5 DEF RefuseEmpty, Fields, Unanswered
  <2> QED
    BY <2>1, <1>3
<1>6. CASE ReadRecord
  <2>1. DOMAIN check' = Fields /\ check.step \in Early /\ check'.verdicts = check.verdicts
        /\ (check'.status # "ok" => check'.live = "missing")
    BY <1>1, <1>6 DEF ReadRecord, Fields, Unanswered
  <2> QED
    BY <2>1, <1>3
<1>7. CASE ResolveServer
  <2>1. DOMAIN check' = Fields /\ check.step \in Early /\ check'.verdicts = check.verdicts
        /\ (check'.status # "ok" => check'.live = "missing")
    BY <1>1, <1>7 DEF ResolveServer, Fields, Unanswered
  <2> QED
    BY <2>1, <1>3
<1>8. CASE ProbeStatus
  <2>1. DOMAIN check' = Fields /\ check.step \in Early /\ check'.verdicts = check.verdicts
        /\ (check'.status # "ok" => check'.live = "missing")
    BY <1>1, <1>8 DEF ProbeStatus, Fields, Unanswered
  <2> QED
    BY <2>1, <1>3
<1>9. CASE ProbeResults
  <2>1. DOMAIN check' = Fields /\ check.step \in Early /\ check'.verdicts = check.verdicts
        /\ (check'.status # "ok" => check'.live = "missing")
    BY <1>1, <1>9 DEF ProbeResults, AfterResults, Fields, Unanswered
  <2> QED
    BY <2>1, <1>3
<1>10. CASE Compare
  <2>1. PICK relation : LET c == [check EXCEPT !.relations = relation]
       IN  check' = [c EXCEPT !.step = "save", !.verdicts = Comparisons(c),
                              !.success = Answered(c) \/ c.reg.found,
                              !.error = IF Answered(c) \/ c.reg.found THEN "none" ELSE "nothing found"]
    BY <1>10 DEF Compare
  <2> DEFINE c == [check EXCEPT !.relations = relation]
             said == Comparisons(c)
  <2>2. DOMAIN c = Fields /\ c.status = check.status /\ c.results = check.results /\ c.live = check.live
    BY <1>1 DEF Fields
  <2>3. check' = [c EXCEPT !.step = "save", !.verdicts = said,
                              !.success = Answered(c) \/ c.reg.found,
                              !.error = IF Answered(c) \/ c.reg.found THEN "none" ELSE "nothing found"]
    BY <2>1
  <2> HIDE DEF said, c
  <2>4. /\ DOMAIN check' = Fields /\ check'.status = check.status /\ check'.results = check.results
        /\ check'.live = check.live /\ check'.step = "save" /\ check'.verdicts = said
    BY <2>2, <2>3, Zenon DEF Fields
  <2>5. ~ Answered(c) /\ c.live = "missing" =>
          \A k \in DOMAIN said \ {"workspaceMapping", "existence"} : said[k] = "NOT_ENOUGH_DATA"
    BY SilentComparisons DEF said
  <2>6. ~ Answered(check') => ~ Answered(c) /\ c.live = "missing"
    BY <2>2, <2>4 DEF Answered, Unanswered
  <2> QED
    BY <2>4, <2>5, <2>6 DEF Unanswered
<1>11. CASE SaveHistory
  <2>1. DOMAIN check' = Fields /\ check'.step = "done" /\ Kept
    BY <1>1, <1>11 DEF SaveHistory, Fields
  <2> QED
    BY <2>1, <1>4
<1>12. CASE RecordChanges \/ ServerDeleted \/ UNCHANGED checkVars
  <2>1. check' = check
    BY <1>12 DEF RecordChanges, ServerDeleted, checkVars
  <2> QED
    BY <2>1 DEF Unanswered, Answered
<1> QED
  BY <1>5, <1>6, <1>7, <1>8, <1>9, <1>10, <1>11, <1>12 DEF CheckNext

\* A check to which FastTest gave no answer at either endpoint calls nothing a match or
\* a mismatch but what is local (verifyTestCode, manual-verification.service.ts), however
\* the record and the workspaces change while it runs.
THEOREM SilenceIsNoVerdict == CheckSpec => []NoVerdictWithoutData
<1>1. Unanswered => NoVerdictWithoutData
  BY DEF Unanswered, NoVerdictWithoutData
<1> QED
  BY <1>1, InitUnanswered, NextUnanswered, PTL DEF CheckSpec
=============================================================================
