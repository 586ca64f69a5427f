---------------------------- MODULE BarrelLeaves ----------------------------
(***************************************************************************)
(* parser/imports.py: the files that an import of a barrel is credited     *)
(* with.  build_re_export_maps gathers, file by file, "export * from" and  *)
(* "export {A as B} from" statements; expand_barrel_leaves follows the     *)
(* names an importer asks for through them, with a queue of barrels and    *)
(* names.  What was visited is kept by (leaf, name), and by (leaf, "")     *)
(* whatever the names a wildcard was followed with.                        *)
(***************************************************************************)
EXTENDS Naturals, SequencesExt

CONSTANTS Barrels,       \* source files
          Names,         \* exported names
          Renames,       \* whether a statement may rename what it exports
          MaxReExports   \* bound: re-export statements of all files

NoBarrel == "no barrel"
AnyName  == ""

ASSUME BarrelAssumption ==
    /\ IsFiniteSet(Barrels) /\ NoBarrel \notin Barrels
    /\ IsFiniteSet(Names) /\ AnyName \notin Names
    /\ Renames \in BOOLEAN /\ MaxReExports \in Nat

VARIABLES wildcard,  \* wildcard_map: edges from a barrel to a leaf
          named,     \* named_map: [from, exposed, to, original]
          direct,    \* the import's resolved target, once it is asked for
          wanted,    \* the names it imports; none for a namespace import
          queue,     \* barrels to walk, each with its names, {} for everything
          seen,      \* the visited keys
          leaves     \* the files credited

barrelVars == <<wildcard, named, direct, wanted, queue, seen, leaves>>

Entry == [from : Barrels, exposed : Names, to : Barrels, original : Names]

BarrelTypeOK ==
    /\ wildcard \in SUBSET (Barrels \X Barrels)
    /\ named \in SUBSET Entry
    /\ direct \in Barrels \cup {NoBarrel}
    /\ wanted \in SUBSET Names
    /\ queue \in Seq(Barrels \X SUBSET Names)
    /\ seen \in SUBSET (Barrels \X (Names \cup {AnyName}))
    /\ leaves \in SUBSET Barrels

BarrelInit ==
    /\ wildcard = {} /\ named = {}
    /\ direct = NoBarrel /\ wanted = {}
    /\ queue = <<>> /\ seen = {} /\ leaves = {}

----------------------------------------------------------------------------
(* build_re_export_maps: a statement whose target is another file *)

Indexing == direct = NoBarrel /\ Cardinality(wildcard) + Cardinality(named) < MaxReExports

ExportAll(b, leaf) ==
    /\ Indexing /\ b # leaf
    /\ wildcard' = wildcard \cup {<<b, leaf>>}
    /\ UNCHANGED <<named, direct, wanted, queue, seen, leaves>>

\* The first statement that exposes a name is the one that counts.
ExportNamed(e) ==
    /\ Indexing /\ e.from # e.to
    /\ Renames \/ e.original = e.exposed
    /\ ~\E d \in named : d.from = e.from /\ d.exposed = e.exposed
    /\ named' = named \cup {e}
    /\ UNCHANGED <<wildcard, direct, wanted, queue, seen, leaves>>

----------------------------------------------------------------------------
(* expand_barrel_leaves *)

Import(b, names) ==
    /\ direct = NoBarrel
    /\ direct' = b /\ wanted' = names
    /\ leaves' = {b}
    /\ queue' = <<<<b, names>>>>
    /\ UNCHANGED <<wildcard, named, seen>>

\* A wrong router, which looks behind the wildcards for every name.
UnroutedAll(b, names) == names

\* The names no statement of the barrel exposes: they "might come from a wildcard".
Unrouted(b, names) == {n \in names : ~\E e \in named : e.from = b /\ e.exposed = n}

\* What a walk of b for names would enqueue: each step with the key it is seen by.
NamedSteps(b, names) ==
    {[key |-> <<e.to, e.original>>, names |-> {e.original}] :
       e \in {d \in named : d.from = b /\ (names = {} \/ d.exposed \in names)}}

\* A wrong walk, which does not look for a name behind a wildcard.
WildStepsNamespace(b, names) ==
    {[key |-> <<p[2], AnyName>>, names |-> {}] :
       p \in {q \in wildcard : q[1] = b /\ names = {}}}

WildSteps(b, names) ==
    IF names # {} /\ Unrouted(b, names) = {} THEN {}
    ELSE {[key |-> <<p[2], AnyName>>, names |-> Unrouted(b, names)] :
            p \in {q \in wildcard : q[1] = b}}

NotSeen(steps) == {s \in steps : s.key \notin seen}

\* One turn of the loop.  A namespace import follows its wildcards first, any
\* other one its named entries.
Walk ==
    /\ queue # <<>>
    /\ LET b == Head(queue)[1]
           names == Head(queue)[2]
       IN  \E ns \in SetToSeqs(NotSeen(NamedSteps(b, names))),
              ws \in SetToSeqs(NotSeen(WildSteps(b, names))) :
             LET steps == IF names = {} THEN ws \o ns ELSE ns \o ws
             IN  /\ queue' = Tail(queue) \o
                       [i \in DOMAIN steps |-> <<steps[i].key[1], steps[i].names>>]
                 /\ seen' = seen \cup {s.key : s \in Range(steps)}
                 /\ leaves' = leaves \cup {s.key[1] : s \in Range(steps)}
    /\ UNCHANGED <<wildcard, named, direct, wanted>>

BarrelNext ==
    \/ \E b, leaf \in Barrels : ExportAll(b, leaf)
    \/ \E e \in Entry : ExportNamed(e)
    \/ \E b \in Barrels, names \in SUBSET Names : Import(b, names)
    \/ Walk

BarrelSpec == BarrelInit /\ [][BarrelNext]_barrelVars

----------------------------------------------------------------------------
(* Properties *)

\* Where one name leads, or every name (AnyName): a statement that exposes it, or
\* else every wildcard.
Leads(c) ==
    LET entries == {e \in named : e.from = c[1] /\ c[2] \in {e.exposed, AnyName}}
        rest == {<<p[2], c[2]>> : p \in {q \in wildcard : q[1] = c[1]}}
    IN  {<<e.to, e.original>> : e \in entries}
          \cup (IF entries = {} \/ c[2] = AnyName THEN rest ELSE {})

Contexts == Cardinality(Barrels) * (Cardinality(Names) + 1)

\* The files and names that are reached in at most k statements.
Led[k \in 0..Contexts] ==
    IF k = 0 THEN {<<direct, n>> : n \in IF wanted = {} THEN {AnyName} ELSE wanted}
    ELSE LET led == Led[k - 1] IN led \cup UNION {Leads(c) : c \in led}

Credited == {c[1] : c \in Led[Contexts]}

\* No importer is credited with a file that none of its names can come from: "credit
\* only the consumers that actually import Foo from the barrel", through chains,
\* renames, mixed barrels and cycles.  And where no statement renames, an import of
\* one name is credited to every file it can come from, in whatever order the walk
\* meets them.
LeavesRight ==
    direct # NoBarrel =>
      /\ leaves \subseteq Credited
      /\ queue = <<>> /\ Cardinality(wanted) = 1 /\ (\A e \in named : e.original = e.exposed)
           => Credited \subseteq leaves

\* So is an import of several names, or of all: "Walk barrel chains to enumerate every leaf an
\* importer transitively credits" (parser/imports.py 1302).
LeavesComplete == direct # NoBarrel /\ queue = <<>> => Credited \subseteq leaves
=============================================================================
