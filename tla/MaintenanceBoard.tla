-------------------------- MODULE MaintenanceBoard --------------------------
(***************************************************************************)
(* The list of maintenance proposals (maintenance.go): a detector          *)
(* proposes, a person approves or rejects, and what nobody decides         *)
(* expires.  Every method holds the mutex of the board, also while         *)
(* Approve submits the job to the queue.  Expiry is noticed only by the    *)
(* next method that looks at the list; a reload may change every setting   *)
(* in between.  Proposals are numbered in the order of creation; reasons,  *)
(* scores and the checks of their shape are left out.  A restart clears    *)
(* the list and begins again with BoardInit.                               *)
(***************************************************************************)
EXTENDS Integers, Sequences, FiniteSets

CONSTANTS
  Sources,        \* what proposals are about
  BoardConfigs,   \* settings of the "maintenance" section a reload may install
  MaxProposals,   \* bound: proposals created
  MaxTime         \* bound: the clock

BoardConfigType ==
  [enabled : BOOLEAN, maxOpen : Int, cooldown : Int, expireAfter : Int]

ASSUME BoardAssumption ==
  /\ BoardConfigs \subseteq BoardConfigType
  /\ MaxProposals \in Nat
  /\ MaxTime \in Nat

VARIABLES
  config,     \* cfg
  clock,      \* now
  items,      \* the proposals: [source, status, created, ended]
  lastEnd,    \* per source, when its last proposal was decided or expired, or Never
  orders      \* the proposals whose job is in the queue

boardVars == <<config, clock, items, lastEnd, orders>>

Never == -1

BoardInit ==
  /\ config \in BoardConfigs
  /\ clock = 0
  /\ items = <<>>
  /\ lastEnd = [s \in Sources |-> Never]
  /\ orders = {}

-----------------------------------------------------------------------------

Late(p) == config.expireAfter > 0 /\ clock - p.created > config.expireAfter

\* Mutant: a method decides on the list without closing what is late.
ExpiringNever == {}

\* The proposals expireLocked closes.
Expiring == {i \in DOMAIN items : items[i].status = "proposed" /\ Late(items[i])}

\* The list and the ends with the proposals of D given status st now.
Ended(list, D, st) ==
  [i \in DOMAIN list |->
     IF i \in D THEN [list[i] EXCEPT !.status = st, !.ended = clock] ELSE list[i]]

\* Mutant: the cooldown is counted from decisions only.
EndsWithDecided(ends, D) ==
  [s \in Sources |->
     IF \E i \in D : items[i].source = s /\ i \notin Expiring THEN clock ELSE ends[s]]

EndsWith(ends, D) ==
  [s \in Sources |-> IF \E i \in D : items[i].source = s THEN clock ELSE ends[s]]

\* expireLocked.
Current == Ended(items, Expiring, "expired")
CurrentEnds == EndsWith(lastEnd, Expiring)

Tidied == items' = Current /\ lastEnd' = CurrentEnds

Open == {i \in DOMAIN items : Current[i].status = "proposed"}

Resting(s) ==
  CurrentEnds[s] # Never /\ config.cooldown > 0 /\ clock - CurrentEnds[s] < config.cooldown

NoRoom == config.maxOpen > 0 /\ Cardinality(Open) >= config.maxOpen

-----------------------------------------------------------------------------

\* Propose: refused, an update of the open proposal of its source, or a new one.
Propose(s) ==
  /\ config.enabled
  /\ \/ /\ (\E i \in Open : items[i].source = s) \/ Resting(s) \/ NoRoom
        /\ Tidied
     \/ /\ ~(\E i \in Open : items[i].source = s) /\ ~Resting(s) /\ ~NoRoom
        /\ Len(items) < MaxProposals
        /\ items' = Append(Current, [source |-> s, status |-> "proposed",
                                     created |-> clock, ended |-> Never])
        /\ lastEnd' = CurrentEnds
  /\ UNCHANGED <<config, clock, orders>>

\* Approve: the job is submitted first; when that is refused the proposal stays open.
Approve(i) ==
  /\ config.enabled /\ i \in DOMAIN items
  /\ \/ /\ i \in Open
        /\ items' = Ended(Current, {i}, "approved")
        /\ lastEnd' = EndsWith(CurrentEnds, {i})
        /\ orders' = orders \cup {i}
     \/ Tidied /\ UNCHANGED orders
  /\ UNCHANGED <<config, clock>>

Reject(i) ==
  /\ config.enabled /\ i \in DOMAIN items
  /\ IF i \in Open
     THEN /\ items' = Ended(Current, {i}, "rejected")
          /\ lastEnd' = EndsWith(CurrentEnds, {i})
     ELSE Tidied
  /\ UNCHANGED <<config, clock, orders>>

\* List: a read that closes what is late.
List ==
  /\ Tidied
  /\ UNCHANGED <<config, clock, orders>>

SetConfig ==
  /\ config' \in BoardConfigs
  /\ UNCHANGED <<clock, items, lastEnd, orders>>

BoardTick ==
  /\ clock < MaxTime
  /\ clock' = clock + 1
  /\ UNCHANGED <<config, items, lastEnd, orders>>

BoardNext ==
  \/ \E s \in Sources : Propose(s)
  \/ \E i \in DOMAIN items : Approve(i) \/ Reject(i)
  \/ List \/ SetConfig \/ BoardTick

BoardSpec == BoardInit /\ [][BoardNext]_boardVars

-----------------------------------------------------------------------------

(***************************************************************************)
(* A job gets into the queue only with a person's approval of a proposal   *)
(* that was open and, by the setting in force, not late, and a closed      *)
(* proposal is never decided again (API.md 480-490; Approve, Reject,       *)
(* expireLocked, with reloads in between).                                 *)
(***************************************************************************)
ApprovedInTime ==
  [][/\ \A i \in DOMAIN items : items[i].status # "proposed" => items'[i] = items[i]
     /\ \A i \in orders' \ orders : ~Late(items[i]) /\ items[i].status = "proposed"
     /\ orders' = {i \in DOMAIN items' : items'[i].status = "approved"}]_boardVars

(***************************************************************************)
(* A new proposal is the only open one of its source, fits under the limit *)
(* and comes a cooldown after the latest end of a proposal of that source, *)
(* be it decided or expired (Propose).                                     *)
(***************************************************************************)
RestsBetweenProposals ==
  [][\A n \in DOMAIN items' \ DOMAIN items :
       LET earlier == {i \in DOMAIN items : items[i].source = items'[n].source}
           open == {i \in DOMAIN items' : items'[i].status = "proposed"}
       IN  /\ \A i \in earlier :
                /\ items'[i].status # "proposed"
                /\ clock - items'[i].ended >= config.cooldown
           /\ config.maxOpen > 0 => Cardinality(open) <= config.maxOpen]_boardVars

=============================================================================
