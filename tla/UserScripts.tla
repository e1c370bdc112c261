---------------------------- MODULE UserScripts ----------------------------
(***************************************************************************)
(* User scripts: the LevelDB store (src/src/server/userscript_store.cpp),  *)
(* the RPC methods of the panel (app.cpp, rpc_userscript), the panel's tab *)
(* that calls them, and the updater that looks for newer versions          *)
(* (userscript_updater.cpp).                                               *)
(*                                                                         *)
(* Under an id the store keeps the script ("s/"), an update that waits for *)
(* the user's consent ("p/") and the values the script has set ("v/").     *)
(* LevelDB makes each Get, each Write and the snapshot of an iterator      *)
(* atomic.  remove, reorder and apply_pending read, then write, and hold   *)
(* mu_ in between; put, set_pending, clear_pending and set_value write     *)
(* without it.  Every operation is a job of the blocking pool, so all      *)
(* windows and all passes of the updater interleave between these steps.   *)
(*                                                                         *)
(* A window (the panel in a browser) has one call under way at a time.     *)
(* The values of a script are told apart by name only, its source by the   *)
(* version it declares.  The settings records ("meta/") are left out.      *)
(***************************************************************************)
EXTENDS Integers, FiniteSets, Sequences, SequencesExt

CONSTANTS Ids,        \* script ids
          Versions,   \* versions: sequences of numbers, <<>> when undeclared
          Names,      \* names of script values
          Windows,    \* open windows of the panel
          Passes,     \* passes of the updater under way at once
          None

ASSUME UserScriptsAssumption ==
    /\ IsFiniteSet(Ids)
    /\ Versions \subseteq Seq(Nat)
    /\ None \notin Versions \cup Windows

\* badge: a pendingUpdate field inside the record itself, which the panel
\* sends back with a script.  Which scripts have the switches enabled and
\* autoUpdate on is left open.
Script == [ver: Versions, order: Nat, badge: Versions \cup {None}]
Update == [id: Ids, ver: Versions]

ASSUME NoneAssumption == None \notin Script \cup Update

VARIABLES
    script,    \* "s/": [Ids -> Script or None]
    pending,   \* "p/": [Ids -> a version or None]
    values,    \* "v/": [Ids -> the names that have a value]
    mu,        \* owner of mu_, or None
    job,       \* per window: the call under way and what it has read
    view,      \* per window: the scripts as last listed
    todo,      \* per pass: the scripts still to check, with the version listed
    found,     \* per pass: the update it is about to record, or None
    missed,    \* history: scripts saved since a window's locked call read them
    changed,   \* history: scripts whose version changed since a pass listed them
    lagging,   \* history: scripts changed since the update pending was looked up
    late       \* history: ids written to during or after their removal

stored == <<script, pending, values>>
passes == <<todo, found>>
history == <<missed, changed, lagging, late>>
vars == <<script, pending, values, mu, job, view, todo, found,
          missed, changed, lagging, late>>

Idle == [op |-> "idle"]
Nothing == [id \in Ids |-> None]

Init ==
    /\ script = Nothing
    /\ pending = Nothing
    /\ values = [id \in Ids |-> {}]
    /\ mu = None
    /\ job = [w \in Windows |-> Idle]
    /\ view = [w \in Windows |-> Nothing]
    /\ todo = [p \in Passes |-> Nothing]
    /\ found = [p \in Passes |-> None]
    /\ missed = [w \in Windows |-> {}]
    /\ changed = [p \in Passes |-> {}]
    /\ lagging = {}
    /\ late = {}

\* version_newer: part by part as numbers, a part that is missing counting as 0.
Part(v, i) == IF i <= Len(v) THEN v[i] ELSE 0
Newer(a, b) ==
    /\ a # <<>>
    /\ \/ b = <<>>
       \/ \E i \in 1..Len(a) :
             Part(a, i) > Part(b, i) /\ \A j \in 1..(i - 1) : Part(a, j) = Part(b, j)

Listed(w) == {id \in Ids : view[w][id] # None}
Ready(w) == job[w] = Idle
Doing(w, op) == job[w].op = op
Goto(w, j) == job' = [job EXCEPT ![w] = j]

\* A version has changed: what passes have listed of it is out of date.
Checking(p) == {id \in Ids : todo[p][id] # None \/ (found[p] # None /\ found[p].id = id)}
Outdates(ids) ==
    changed' = [p \in Passes |-> changed[p] \cup (ids \cap Checking(p))]

-----------------------------------------------------------------------------
(* The window's calls.  The list is loaded when the tab is opened and after *)
(* each call, but the switches stay active meanwhile: a window may act on   *)
(* what it has listed at any time.                                          *)

\* userscripts.list: the iterator's snapshot, then get_pending of each script.
ListScripts(w) ==
    /\ Ready(w)
    /\ Goto(w, [op |-> "listing", saw |-> script])
    /\ UNCHANGED <<stored, mu, view, passes, history>>

ListPendings(w) ==
    /\ Doing(w, "listing")
    /\ view' = [view EXCEPT ![w] = [id \in Ids |->
          IF job[w].saw[id] # None /\ pending[id] # None
          THEN [job[w].saw[id] EXCEPT !.badge = pending[id]]
          ELSE job[w].saw[id]]]
    /\ Goto(w, Idle)
    /\ UNCHANGED <<stored, mu, passes, history>>

\* A new script gets a random id: one of which no trace exists.
Unused(id) ==
    /\ script[id] = None /\ pending[id] = None /\ values[id] = {}
    /\ \A w \in Windows : view[w][id] = None
          /\ (Doing(w, "listing") => job[w].saw[id] = None)
    /\ \A p \in Passes : id \notin Checking(p)

\* What a window saves under an id: a listed script with a switch toggled (the
\* whole record as listed), one rewritten by the editor, or a new one.
Saved(w, id) ==
    LET Edited(order) == [ver: Versions, order: {order}, badge: {None}]
    IN IF view[w][id] # None THEN Edited(view[w][id].order) \cup {view[w][id]}
       ELSE IF Unused(id) THEN Edited(0) ELSE {}

\* userscripts.save: an unconditional put (no stored script is built in).
Save(w, id, s) ==
    /\ Ready(w) /\ s \in Saved(w, id)
    /\ script' = [script EXCEPT ![id] = s]
    /\ Goto(w, Idle)
    /\ missed' = [v \in Windows |-> IF mu = v THEN missed[v] \cup {id} ELSE missed[v]]
    /\ Outdates({id})
    /\ lagging' = IF pending[id] # None THEN lagging \cup {id} ELSE lagging
    /\ UNCHANGED <<pending, values, mu, view, passes, late>>

\* Mutant: the mutex is not waited for.
LocksAnyway(w, j) ==
    /\ Ready(w)
    /\ mu' = w
    /\ Goto(w, j)
    /\ missed' = [missed EXCEPT ![w] = {}]
    /\ UNCHANGED <<stored, view, passes, changed, lagging, late>>

\* A locked call takes mu_ and reads; it writes and releases later.
Locks(w, j) ==
    /\ Ready(w) /\ mu = None
    /\ mu' = w
    /\ Goto(w, j)
    /\ missed' = [missed EXCEPT ![w] = {}]
    /\ UNCHANGED <<stored, view, passes, changed, lagging, late>>
Unlocks(w) ==
    /\ mu' = None
    /\ Goto(w, Idle)
    /\ missed' = [missed EXCEPT ![w] = {}]

\* userscripts.delete: the names of the values are read, then all is deleted.
RemoveRead(w, id) ==
    /\ view[w][id] # None
    /\ Locks(w, [op |-> "removing", id |-> id, saw |-> values[id]])

\* Mutant: the update that waits is not deleted with its script.
RemoveKeepsPending(w) ==
    LET id == job[w].id
        left == values[id] \ job[w].saw
    IN /\ Doing(w, "removing")
       /\ script' = [script EXCEPT ![id] = None]
       /\ values' = [values EXCEPT ![id] = left]
       /\ late' = IF left # {} THEN late \cup {id} ELSE late \ {id}
       /\ Unlocks(w)
       /\ UNCHANGED <<pending, lagging, view, passes, changed>>

RemoveWrite(w) ==
    LET id == job[w].id
        left == values[id] \ job[w].saw
    IN /\ Doing(w, "removing")
       /\ script' = [script EXCEPT ![id] = None]
       /\ pending' = [pending EXCEPT ![id] = None]
       /\ values' = [values EXCEPT ![id] = left]
       /\ lagging' = lagging \ {id}
       /\ late' = IF left # {} THEN late \cup {id} ELSE late \ {id}
       /\ Unlocks(w)
       /\ UNCHANGED <<view, passes, changed>>

\* userscripts.reorder: the scripts of a sequence of ids are read one by one
\* and written together, numbered in that sequence; missing ones are skipped.
ReorderRead(w, ids) ==
    /\ ids # <<>>
    /\ Locks(w, [op |-> "reordering", ids |-> ids, saw |-> script])

Numbered(ids, saw) ==
    LET Before(id) == {n \in 1..Len(ids) :
                         saw[ids[n]] # None /\ \E k \in (n + 1)..Len(ids) : ids[k] = id}
    IN [id \in {i \in ToSet(ids) : saw[i] # None} |->
           [saw[id] EXCEPT !.order = Cardinality(Before(id))]]

ReorderWrite(w) ==
    LET new == Numbered(job[w].ids, job[w].saw)
    IN /\ Doing(w, "reordering")
       /\ script' = [id \in Ids |-> IF id \in DOMAIN new THEN new[id] ELSE script[id]]
       /\ Outdates(missed[w])
       /\ lagging' = lagging \cup {id \in missed[w] : pending[id] # None}
       /\ Unlocks(w)
       /\ UNCHANGED <<pending, values, view, passes, late>>

\* userscripts.applyUpdate: script and pending update are read; the script
\* takes the update's source and version, and the update is deleted.
ApplyRead(w, id) ==
    /\ view[w][id] # None /\ view[w][id].badge # None
    /\ script[id] # None
    /\ Locks(w, [op |-> "applying", id |-> id, saw |-> script[id]])

ApplyReadPending(w) ==
    /\ Doing(w, "applying") /\ pending[job[w].id] # None
    /\ Goto(w, [op |-> "confirmed", id |-> job[w].id, saw |-> job[w].saw,
                to |-> pending[job[w].id]])
    /\ UNCHANGED <<stored, mu, view, passes, history>>

\* Mutant: the update goes on waiting after it has been applied.
ApplyKeepsPending(w) ==
    LET id == job[w].id
    IN /\ Doing(w, "confirmed")
       /\ script' = [script EXCEPT ![id] = [job[w].saw EXCEPT !.ver = job[w].to]]
       /\ Outdates({id})
       /\ Unlocks(w)
       /\ UNCHANGED <<pending, lagging, values, view, passes, late>>

ApplyWrite(w) ==
    LET id == job[w].id
    IN /\ Doing(w, "confirmed")
       /\ script' = [script EXCEPT ![id] = [job[w].saw EXCEPT !.ver = job[w].to]]
       /\ pending' = [pending EXCEPT ![id] = None]
       /\ lagging' = lagging \ {id}
       /\ Outdates({id})
       /\ Unlocks(w)
       /\ UNCHANGED <<values, view, passes, late>>

\* userscripts.dismissUpdate.
Dismiss(w, id) ==
    /\ Ready(w) /\ view[w][id] # None /\ view[w][id].badge # None
    /\ pending' = [pending EXCEPT ![id] = None]
    /\ lagging' = lagging \ {id}
    /\ Goto(w, Idle)
    /\ UNCHANGED <<script, values, mu, view, passes, missed, changed, late>>

\* A call of w fails: LevelDB reports an error, the script or its update is
\* not there, the connection is gone.  The lock guard releases mu_.
CallFails(w) ==
    /\ ~Ready(w)
    /\ IF mu = w THEN Unlocks(w) ELSE Goto(w, Idle) /\ UNCHANGED <<mu, missed>>
    /\ UNCHANGED <<stored, view, passes, changed, lagging, late>>

\* A page that runs a listed script sets or deletes one of its values; the
\* store does not ask whether the script still exists.
SetValue(w, id, n) ==
    /\ view[w][id] # None
    /\ values' = [values EXCEPT ![id] = @ \cup {n}]
    /\ late' = IF script[id] = None THEN late \cup {id} ELSE late
    /\ UNCHANGED <<script, pending, mu, job, view, passes, missed, changed, lagging>>

DelValue(w, id, n) ==
    /\ view[w][id] # None
    /\ values' = [values EXCEPT ![id] = @ \ {n}]
    /\ UNCHANGED <<script, pending, mu, job, view, passes, history>>

-----------------------------------------------------------------------------
(* The updater: one pass lists the scripts and asks in turn for each that   *)
(* has the switches on and a URL.  The loop's passes and those of check_now *)
(* overlap.                                                                 *)

PassBegin(p, on) ==
    /\ todo[p] = Nothing /\ found[p] = None
    /\ todo' = [todo EXCEPT ![p] = [id \in Ids |-> IF id \in on THEN script[id].ver ELSE None]]
    /\ changed' = [changed EXCEPT ![p] = {}]
    /\ UNCHANGED <<stored, mu, job, view, found, missed, lagging, late>>

\* The script is asked for: nothing usable or nothing newer comes back ...
FetchNothing(p, id) ==
    /\ found[p] = None /\ todo[p][id] # None
    /\ todo' = [todo EXCEPT ![p][id] = None]
    /\ changed' = [changed EXCEPT ![p] = @ \ {id}]
    /\ UNCHANGED <<stored, mu, job, view, found, missed, lagging, late>>

\* ... or a version newer than the one listed.
FetchNewer(p, id, v) ==
    /\ found[p] = None /\ todo[p][id] # None
    /\ Newer(v, todo[p][id])
    /\ todo' = [todo EXCEPT ![p][id] = None]
    /\ found' = [found EXCEPT ![p] = [id |-> id, ver |-> v]]
    /\ UNCHANGED <<stored, mu, job, view, history>>

\* set_pending: over whatever update was waiting.
Record(p) ==
    /\ found[p] # None
    /\ LET id == found[p].id
       IN /\ pending' = [pending EXCEPT ![id] = found[p].ver]
          /\ lagging' = IF id \in changed[p] THEN lagging \cup {id} ELSE lagging \ {id}
          /\ late' = IF script[id] = None THEN late \cup {id} ELSE late
          /\ changed' = [changed EXCEPT ![p] = @ \ {id}]
    /\ found' = [found EXCEPT ![p] = None]
    /\ UNCHANGED <<script, values, mu, job, view, todo, missed>>

RecordFails(p) ==
    /\ found[p] # None
    /\ changed' = [changed EXCEPT ![p] = @ \ {found[p].id}]
    /\ found' = [found EXCEPT ![p] = None]
    /\ UNCHANGED <<stored, mu, job, view, todo, missed, lagging, late>>

\* The program ends and is started again: calls and passes are lost, the
\* store (every write is synced) and the open windows remain.
Restart ==
    /\ mu' = None
    /\ job' = [w \in Windows |-> Idle]
    /\ todo' = [p \in Passes |-> Nothing]
    /\ found' = [p \in Passes |-> None]
    /\ missed' = [w \in Windows |-> {}]
    /\ changed' = [p \in Passes |-> {}]
    /\ UNCHANGED <<stored, view, lagging, late>>

WindowStep(w) ==
    \/ ListScripts(w) \/ ListPendings(w)
    \/ \E id \in Ids : \E s \in Saved(w, id) : Save(w, id, s)
    \/ \E id \in Ids : RemoveRead(w, id) \/ ApplyRead(w, id) \/ Dismiss(w, id)
    \/ \E ids \in SetToSeqs(Listed(w)) : ReorderRead(w, ids)
    \/ RemoveWrite(w) \/ ReorderWrite(w) \/ ApplyReadPending(w) \/ ApplyWrite(w)
    \/ CallFails(w)
    \/ \E id \in Ids, n \in Names : SetValue(w, id, n) \/ DelValue(w, id, n)

PassStep(p) ==
    \/ \E on \in SUBSET {id \in Ids : script[id] # None} : PassBegin(p, on)
    \/ \E id \in Ids : FetchNothing(p, id) \/ \E v \in Versions : FetchNewer(p, id, v)
    \/ Record(p) \/ RecordFails(p)

Next ==
    \/ \E w \in Windows : WindowStep(w)
    \/ \E p \in Passes : PassStep(p)
    \/ Restart

Spec == Init /\ [][Next]_vars

-----------------------------------------------------------------------------
(* Properties.                                                              *)

\* The calls under way, and what they have read.
Job ==
    {Idle} \cup [op: {"listing"}, saw: [Ids -> Script \cup {None}]]
           \cup [op: {"removing"}, id: Ids, saw: SUBSET Names]
           \cup [op: {"reordering"}, ids: Seq(Ids), saw: [Ids -> Script \cup {None}]]
           \cup [op: {"applying"}, id: Ids, saw: Script]
           \cup [op: {"confirmed"}, id: Ids, saw: Script, to: Versions]

\* Every variable keeps its type.
TypeOK ==
    /\ script \in [Ids -> Script \cup {None}]
    /\ pending \in [Ids -> Versions \cup {None}]
    /\ values \in [Ids -> SUBSET Names]
    /\ mu \in Windows \cup {None}
    /\ job \in [Windows -> Job]
    /\ view \in [Windows -> [Ids -> Script \cup {None}]]
    /\ todo \in [Passes -> [Ids -> Versions \cup {None}]]
    /\ found \in [Passes -> Update \cup {None}]
    /\ missed \in [Windows -> SUBSET Ids]
    /\ changed \in [Passes -> SUBSET Ids]
    /\ lagging \subseteq Ids /\ late \subseteq Ids

\* "A single std::mutex serializes read-modify-write sequences": putting the
\* scripts in order changes nothing but their order, applying an update nothing
\* but version and source, and neither brings back or drops a script, except
\* where a save, which does not take the mutex, came in between.
Rewrites(w) == ReorderWrite(w) \/ ApplyWrite(w)
KeepsTheRest ==
    [][\A w \in Windows : Rewrites(w) =>
          \A id \in Ids \ missed[w] :
             \/ script'[id] = script[id]
             \/ /\ script[id] # None /\ script'[id] # None
                /\ script'[id] = IF ReorderWrite(w)
                                 THEN [script[id] EXCEPT !.order = script'[id].order]
                                 ELSE [script[id] EXCEPT !.ver = script'[id].ver]]_vars

\* An update that waits is newer than the script it would replace, through
\* passes that overlap, confirmations and reorderings, unless the script has
\* changed since the pass that found the update listed it, or was saved since.
PendingNewer ==
    \A id \in Ids \ lagging :
        script[id] # None /\ pending[id] # None => Newer(pending[id], script[id].ver)

\* "also drops p/<id> + v/<id>/ range": a script that is gone has left neither
\* update nor values, except what was written during its removal or after it.
NothingLeft ==
    \A id \in Ids \ late : script[id] = None => pending[id] = None /\ values[id] = {}
=============================================================================
