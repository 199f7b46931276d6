---------------------------- MODULE ResourceOrder ----------------------------
(***************************************************************************)
(* The order in which a manifest's resources are created                   *)
(* (topologicalOrder, management_manifest.go), with what validateManifest  *)
(* asks of their keys.  The walk goes through the resources as they are    *)
(* declared; from each it climbs to an ancestor that has its place already *)
(* or has no parent, and then places what it passed, from the top down.    *)
(*                                                                         *)
(* Of a resource there are its key and the key of its parent, NoParent for *)
(* none.  Keys may be declared twice, and parents not at all: the walk is  *)
(* made whatever the other checks of validateManifest found.               *)
(*                                                                         *)
(* PlaceLowest is a faulty variant of Topmost.                             *)
(***************************************************************************)
EXTENDS Naturals, Sequences

CONSTANTS ResourceKeys, NoParent, MaxResources

OrderConstants == NoParent \notin ResourceKeys /\ MaxResources \in Nat

VARIABLES
    declared,   \* m.Resources
    stage,      \* "reading" | "next" | "climbing" | "placing" | "done"
    index,      \* the resource a loop over m.Resources has reached
    parents,    \* the map of that name; NoParent where it has no entry
    cursor, chain,
    sorted,     \* order; its members are those of placed
    verdict     \* "none" | "ordered" | "cycle"

manifest == <<declared, stage, index, parents, cursor, chain, sorted, verdict>>

Declarations == [key : ResourceKeys, parent : ResourceKeys \cup {NoParent}]
Manifests == UNION {[1 .. n -> Declarations] : n \in 0 .. MaxResources}

OInit ==
    /\ declared \in Manifests
    /\ stage = "reading" /\ index = 1 /\ verdict = "none"
    /\ parents = [k \in ResourceKeys |-> NoParent]
    /\ cursor = NoParent /\ chain = <<>> /\ sorted = <<>>

Members(s) == {s[i] : i \in DOMAIN s}
Placed == Members(sorted)
Passed == Members(chain)      \* guard

-----------------------------------------------------------------------------
\* Of a key that is declared twice the last declaration counts.
ReadParent ==
    /\ stage = "reading" /\ index <= Len(declared)
    /\ parents' = [parents EXCEPT ![declared[index].key] = declared[index].parent]
    /\ index' = index + 1
    /\ UNCHANGED <<declared, stage, cursor, chain, sorted, verdict>>

AllRead ==
    /\ stage = "reading" /\ index > Len(declared)
    /\ stage' = "next" /\ index' = 1
    /\ UNCHANGED <<declared, parents, cursor, chain, sorted, verdict>>

NextResource ==
    /\ stage = "next" /\ index <= Len(declared)
    /\ stage' = "climbing" /\ index' = index + 1
    /\ cursor' = declared[index].key /\ chain' = <<>>
    /\ UNCHANGED <<declared, parents, sorted, verdict>>

Climb ==
    /\ stage = "climbing"
    /\ cursor \notin Placed \cup Passed \cup {NoParent}
    /\ chain' = Append(chain, cursor) /\ cursor' = parents[cursor]
    /\ UNCHANGED <<declared, stage, index, parents, sorted, verdict>>

\* The climb came back to where it has been.
Cycle ==
    /\ stage = "climbing" /\ cursor \in Passed \ Placed
    /\ stage' = "done" /\ verdict' = "cycle"
    /\ UNCHANGED <<declared, index, parents, cursor, chain, sorted>>

Arrived ==
    /\ stage = "climbing" /\ cursor \in Placed \cup {NoParent}
    /\ stage' = "placing"
    /\ UNCHANGED <<declared, index, parents, cursor, chain, sorted, verdict>>

PlaceLowest == [top |-> Head(chain), rest |-> Tail(chain)]
Topmost == [top |-> chain[Len(chain)], rest |-> SubSeq(chain, 1, Len(chain) - 1)]

Place ==
    /\ stage = "placing" /\ chain # <<>>
    /\ sorted' = IF Topmost.top \in Placed THEN sorted ELSE Append(sorted, Topmost.top)
    /\ chain' = Topmost.rest
    /\ UNCHANGED <<declared, stage, index, parents, cursor, verdict>>

AllPlaced ==
    /\ stage = "placing" /\ chain = <<>>
    /\ stage' = "next"
    /\ UNCHANGED <<declared, index, parents, cursor, chain, sorted, verdict>>

Ordered ==
    /\ stage = "next" /\ index > Len(declared)
    /\ stage' = "done" /\ verdict' = "ordered"
    /\ UNCHANGED <<declared, index, parents, cursor, chain, sorted>>

ONext ==
    \/ ReadParent \/ AllRead \/ NextResource \/ Climb \/ Cycle \/ Arrived
    \/ Place \/ AllPlaced \/ Ordered

-----------------------------------------------------------------------------
\* What validateManifest rejects beside a cycle.
DuplicateKeys ==
    \E i, j \in DOMAIN declared : i # j /\ declared[i].key = declared[j].key
DeclaredKeys == {declared[i].key : i \in DOMAIN declared}
Dangling == \E i \in DOMAIN declared : declared[i].parent \notin DeclaredKeys \cup {NoParent}
Accepted == verdict = "ordered" /\ ~DuplicateKeys /\ ~Dangling

-----------------------------------------------------------------------------
TypeOK ==
    /\ declared \in Seq(Declarations)
    /\ stage \in {"reading", "next", "climbing", "placing", "done"}
    /\ index \in Nat \ {0}
    /\ parents \in [ResourceKeys -> ResourceKeys \cup {NoParent}]
    /\ cursor \in ResourceKeys \cup {NoParent}
    /\ chain \in Seq(ResourceKeys) /\ sorted \in Seq(ResourceKeys)
    /\ verdict \in {"none", "ordered", "cycle"}

\* Some resources have nothing but one another for parents.
Cyclic == \E K \in SUBSET ResourceKeys : K # {} /\ \A k \in K : parents[k] \in K

\* "returns an error on a cycle rather than looping": on a cycle, and on
\* nothing else (management_manifest.go:667-669).
CyclesFound == (verdict = "cycle" => Cyclic) /\ (verdict = "ordered" => ~Cyclic)

\* An accepted manifest has each of its resources once in the order, a parent
\* always before its children (management_manifest.go:664-665): what
\* computeSteps relies on when it resolves a parent.
Before(p, k) == \E i, j \in DOMAIN sorted : i < j /\ sorted[i] = p /\ sorted[j] = k
ParentsFirst ==
    Accepted =>
        /\ Placed = DeclaredKeys
        /\ \A i, j \in DOMAIN sorted : i # j => sorted[i] # sorted[j]
        /\ \A i \in DOMAIN declared :
             declared[i].parent # NoParent => Before(declared[i].parent, declared[i].key)

OrderHolds == TypeOK /\ CyclesFound /\ ParentsFirst

\* The walk comes to an end, on a cycle too.
WalkEnds == <>(stage = "done")
=============================================================================
