----------------------------- MODULE TasksProofs -----------------------------
(***************************************************************************)
(* Theorems about Tasks, for every program whose bodies own their tasks    *)
(* and every slab: which allocator is the current one across the           *)
(* suspensions of nested tasks, which blocks of the slab are taken, and    *)
(* for which guards the mutex and the shared_mutex are.                    *)
(***************************************************************************)
EXTENDS Tasks, SequenceTheorems, FiniteSetTheorems, FunctionTheorems, WellFoundedInduction,
        TLAPS

------------------------------------------------------------------------------
(* The invariant.                                                          *)

Paths == Seq(Nat \ {0})
Fields == {"body", "size", "scope", "bare", "in", "index", "pc", "left", "results",
           "guards", "state"}
Phases == {"poll", "body", "failing", "return"}
Entries == [frame : Paths, quiet : BOOLEAN, restores : Scopes, from : {"poll", "body"},
            next : Nat \ {0}]

\* A frame runs a body of the program.
IsFrame(f) ==
    /\ DOMAIN f = Fields
    /\ f.body \in Bodies(program.body)
    /\ Bodies(f.body) \subseteq Bodies(program.body)
    /\ IsTask(f)
    /\ f.pc \in 0..(Len(f.body) + 1)
    /\ f.in \in Scopes
    /\ f.bare => f.in = "none"
    /\ f.index \in Nat

Types ==
    /\ IsProgram(program.body)
    /\ \A p \in DOMAIN frames : p \in Paths /\ IsFrame(frames[p])
    /\ IsFiniteSet(DOMAIN frames)
    /\ stack \in Seq(Entries)
    /\ phase \in Phases
    /\ outcome.over \in BOOLEAN
    /\ IF outcome.over THEN frames = <<>> /\ stack = <<>> ELSE Root \in DOMAIN frames

\* A frame exists while the one that awaits it does, and as long as that one has it.
Tree(fs) == \A p \in DOMAIN fs : \A n \in 0..Len(p) : SubSeq(p, 1, n) \in DOMAIN fs

Owned(fs, p) ==
    /\ fs[p].state = "suspended" /\ fs[p].pc <= Len(fs[p].body) =>
          \A i \in Nat \ {0} :
              Append(p, i) \in DOMAIN fs <=> i \in Alive(fs[p].body, fs[p].pc)
    /\ TasksOf(fs[p].body) = {} \/ fs[p].state # "suspended" =>
          \A i \in Nat \ {0} : Append(p, i) \notin DOMAIN fs

\* The polls in progress are those of one path of frames, of which the innermost
\* may be over.
Nesting ==
    /\ Len(P) = Len(stack) - 1
    /\ P \in DOMAIN frames
    /\ \A j \in DOMAIN stack : stack[j].frame = SubSeq(P, 1, j - 1)
    /\ \A j \in DOMAIN stack : j < Len(stack) => frames[stack[j].frame].state = "suspended"
    /\ F.state = "suspended" \/ phase = "return" \/ (phase = "poll" /\ F.pc = Len(F.body) + 1)

\* What has failed is about to be destroyed, and what is done has nothing to do.
Ended(p) ==
    /\ frames[p].state \in {"suspended", "done", "failed"}
    /\ frames[p].state = "done" => frames[p].pc = Len(frames[p].body) + 1
    /\ frames[p].state = "failed" =>
          /\ Polling
          /\ \/ phase = "return" /\ p = P
             \/ phase = "failing" /\ \E i \in Nat \ {0} : p = Append(P, i)

\* What fails is beyond the step that makes a slab.
Failing ==
    Polling /\ phase = "failing" => F.pc > 1 \/ (F.pc = 1 /\ F.body[1].do # "slab")

Structure ==
    /\ Types
    /\ Tree(frames)
    /\ \A p \in DOMAIN frames : Owned(frames, p) /\ Ended(p)
    /\ Polling => Nesting

------------------------------------------------------------------------------
(* Allocators: the scope of a frame is that of the innermost allocate_in   *)
(* around it.                                                              *)

Chosen(fs, p) == {n \in 0..Len(p) : fs[SubSeq(p, 1, n)].scope # "none"}
Scope(fs, p) ==
    IF Chosen(fs, p) = {} THEN "default" ELSE fs[SubSeq(p, 1, Max(Chosen(fs, p)))].scope

Restored(j) ==
    stack[j].restores =
        IF frames[stack[j].frame].scope = "none" THEN "none"
        ELSE Scope(frames, stack[j - 1].frame)

Guarded ==
    /\ Root \in DOMAIN frames => frames[Root].scope = "none"
    /\ current = IF Polling THEN Scope(frames, P) ELSE "default"
    /\ \A j \in 2..Len(stack) : Restored(j)
    /\ \A p \in DOMAIN frames : frames[p].bare \/ frames[p].in = Scope(frames, p)

------------------------------------------------------------------------------
(* The slab.                                                               *)

\* The steps of the program's body that spawn a task in which a slab lives.
Makers == {k \in StepsOf(program.body, "spawn") : ~NeedsNoSlab(program.body[k].task.body)}
SlabRoot ==
    IF HasTheSlab(program.body) THEN Root
    ELSE IF Makers = {} THEN Nobody
    ELSE <<program.body[CHOOSE k \in Makers : TRUE].child>>

Outside(p) == NeedsNoSlab(frames[p].body) /\ frames[p].scope # "slab"
Inside(p) ==
    /\ IsStrictPrefix(SlabRoot, p)
    /\ home = SlabRoot /\ home # Nobody
    /\ MakesNoSlab(frames[p].body)
MakesIt(p) ==
    /\ p = SlabRoot
    /\ HasTheSlab(frames[p].body)
    /\ frames[p].scope # "slab"
    /\ frames[p].pc <= 1 => home = Nobody
    /\ frames[p].pc > 1 /\ frames[p].state = "suspended" => home = p
    /\ p # Root => \A k \in Makers : frames[Root].pc > k
Spawner(p) ==
    /\ p = Root
    /\ ~HasTheSlab(program.body)
    /\ frames[Root].body = program.body
    /\ frames[Root].scope = "none"
    /\ \A k \in Makers : frames[Root].pc <= k => home = Nobody

SlabLives ==
    /\ home \in {Nobody, SlabRoot}
    /\ \A p \in DOMAIN frames : Outside(p) \/ Inside(p) \/ MakesIt(p) \/ Spawner(p)

InSlab(c) == {p \in DOMAIN frames : frames[p].in = "slab" /\ frames[p].size = c}

BlocksTaken ==
    \A c \in Classes :
        /\ blocks[c] = {frames[p].index : p \in InSlab(c)}
        /\ \A p, q \in InSlab(c) : frames[p].index = frames[q].index => p = q

IInv ==
    /\ Structure
    /\ Failing
    /\ Guarded
    /\ SlabLives
    /\ DOMAIN blocks = Classes
    /\ BlocksTaken

------------------------------------------------------------------------------
(* Minima, maxima and paths.                                               *)

LEMMA HasMinimum ==
    ASSUME NEW S, S \subseteq Nat, S # {}
    PROVE  Min(S) \in S /\ \A n \in S : Min(S) <= n
<1> DEFINE R == OpToRel(<, Nat)
<1>1. IsWellFoundedOn(R, Nat)
  BY NatLessThanWellFounded
<1> HIDE DEF R
<1>2. PICK m \in S : \A n \in S : ~(<<n, m>> \in R)
  BY <1>1, WFMin
<1>3. \A n \in S : <<n, m>> \in R <=> n < m
  BY DEF R, OpToRel
<1>4. \A n \in S : n \in Nat /\ ~(n < m)
  BY <1>2, <1>3
<1>5. \E x \in S : \A y \in S : x <= y
  BY <1>4
<1> QED BY <1>5 DEF Min

LEMMA HasMaximum ==
    ASSUME NEW N \in Nat, NEW S, S \subseteq 0..N, S # {}
    PROVE  Max(S) \in S
<1> DEFINE T == {n \in Nat : N - n \in S}
<1>1. T \subseteq Nat /\ T # {}
  <2>1. PICK m \in S : TRUE
    OBVIOUS
  <2>2. N - m \in Nat /\ N - (N - m) = m
    BY <2>1
  <2> QED BY <2>2
<1>2. Min(T) \in T /\ \A n \in T : Min(T) <= n
  BY <1>1, HasMinimum
<1> HIDE DEF T
<1>3. PICK m \in T : \A n \in T : m <= n
  BY <1>2
<1>4. N - m \in S /\ m \in Nat
  BY <1>3 DEF T
<1>5. ASSUME NEW y \in S PROVE N - m >= y
  <2>1. y \in 0..N /\ N - y \in Nat /\ N - (N - y) = y
    BY <1>5
  <2>2. N - y \in T
    BY <2>1 DEF T
  <2> QED BY <1>3, <1>4, <2>1, <2>2
<1>6. \E x \in S : \A y \in S : x >= y
  BY <1>4, <1>5
<1> QED BY <1>6 DEF Max

\* A path and its beginnings.
LEMMA Beginnings ==
    ASSUME NEW p \in Paths
    PROVE  /\ Len(p) \in Nat
           /\ SubSeq(p, 1, Len(p)) = p
           /\ \A n \in 0..Len(p) :
                 /\ SubSeq(p, 1, n) \in Paths
                 /\ Len(SubSeq(p, 1, n)) = n
                 /\ \A m \in 0..n : SubSeq(SubSeq(p, 1, n), 1, m) = SubSeq(p, 1, m)
           /\ SubSeq(p, 1, 0) = <<>>
<1> USE DEF Paths
<1>1. Len(p) \in Nat /\ DOMAIN p = 1..Len(p) /\ \A i \in 1..Len(p) : p[i] \in Nat \ {0}
  BY LenProperties
<1>2. \A n \in 0..Len(p) :
          /\ SubSeq(p, 1, n) \in Paths
          /\ Len(SubSeq(p, 1, n)) = n
          /\ \A i \in 1..n : SubSeq(p, 1, n)[i] = p[i]
  BY <1>1, SubSeqProperties
<1>3. SubSeq(p, 1, Len(p)) = p
  BY <1>1, <1>2, SeqEqual
<1>4. ASSUME NEW n \in 0..Len(p), NEW m \in 0..n
      PROVE  SubSeq(SubSeq(p, 1, n), 1, m) = SubSeq(p, 1, m)
  <2> DEFINE q == SubSeq(p, 1, n)
  <2>1. q \in Paths /\ Len(q) = n /\ \A i \in 1..n : q[i] = p[i]
    BY <1>2
  <2> HIDE DEF q
  <2>2. /\ SubSeq(q, 1, m) \in Paths
        /\ Len(SubSeq(q, 1, m)) = m
        /\ \A i \in 1..m : SubSeq(q, 1, m)[i] = q[i]
    BY <2>1, SubSeqProperties
  <2>3. SubSeq(q, 1, m) = SubSeq(p, 1, m)
    BY <1>1, <1>2, <2>1, <2>2, SeqEqual
  <2> QED BY <2>3 DEF q
<1>5. SubSeq(p, 1, 0) = <<>>
  BY <1>1, <1>2, EmptySeq
<1> QED BY <1>1, <1>2, <1>3, <1>4, <1>5

LEMMA ChildPath ==
    ASSUME NEW p \in Paths, NEW i \in Nat \ {0}
    PROVE  /\ Append(p, i) \in Paths
           /\ Len(Append(p, i)) = Len(p) + 1
           /\ Append(p, i) # p
           /\ SubSeq(Append(p, i), 1, Len(p) + 1) = Append(p, i)
           /\ \A n \in 0..Len(p) : SubSeq(Append(p, i), 1, n) = SubSeq(p, 1, n)
           /\ SubSeq(Append(p, i), 1, Len(p)) = p
           /\ \A q \in Paths, j \in Nat \ {0} : Append(q, j) = Append(p, i) => q = p /\ j = i
<1> USE DEF Paths
<1>1. /\ Append(p, i) \in Paths
      /\ Len(Append(p, i)) = Len(p) + 1
      /\ Len(p) \in Nat
      /\ \A n \in 1..Len(p) : Append(p, i)[n] = p[n]
      /\ Append(p, i)[Len(p) + 1] = i
  BY AppendProperties, LenProperties
<1>2. ASSUME NEW n \in 0..Len(p) PROVE SubSeq(Append(p, i), 1, n) = SubSeq(p, 1, n)
  <2>1. /\ SubSeq(p, 1, n) \in Paths
        /\ Len(SubSeq(p, 1, n)) = n
        /\ \A m \in 1..n : SubSeq(p, 1, n)[m] = p[m]
    BY <1>1, SubSeqProperties
  <2> DEFINE c == Append(p, i)
  <2>2. c \in Paths /\ Len(c) = Len(p) + 1 /\ \A m \in 1..n : c[m] = p[m]
    BY <1>1
  <2> HIDE DEF c
  <2>3. /\ SubSeq(c, 1, n) \in Paths
        /\ Len(SubSeq(c, 1, n)) = n
        /\ \A m \in 1..n : SubSeq(c, 1, n)[m] = c[m]
    BY <1>1, <2>2, SubSeqProperties
  <2>4. SubSeq(c, 1, n) = SubSeq(p, 1, n)
    BY <2>1, <2>2, <2>3, SeqEqual
  <2> QED BY <2>4 DEF c
<1>3. SubSeq(p, 1, Len(p)) = p
  BY Beginnings
<1>4. SubSeq(Append(p, i), 1, Len(p) + 1) = Append(p, i)
  BY <1>1, Beginnings
<1>5. ASSUME NEW q \in Paths, NEW j \in Nat \ {0}, Append(q, j) = Append(p, i)
      PROVE  q = p /\ j = i
  <2>1. /\ Len(Append(q, j)) = Len(q) + 1
        /\ Len(q) \in Nat
        /\ \A n \in 1..Len(q) : Append(q, j)[n] = q[n]
        /\ Append(q, j)[Len(q) + 1] = j
    BY AppendProperties, LenProperties
  <2>2. Len(q) = Len(p) /\ j = i
    BY <1>1, <1>5, <2>1
  <2>3. \A n \in 1..Len(q) : q[n] = p[n]
    BY <1>1, <1>5, <2>1, <2>2
  <2> QED BY <1>1, <2>1, <2>2, <2>3, SeqEqual
<1>6. Append(p, i) # p
  BY <1>1
<1>7. SubSeq(Append(p, i), 1, Len(p)) = p
  <2>1. Len(p) \in 0..Len(p)
    BY <1>1
  <2> QED BY <2>1, <1>2, <1>3
<1>8. /\ Append(p, i) \in Paths
      /\ Len(Append(p, i)) = Len(p) + 1
  BY <1>1
<1> HIDE DEF Paths
<1> QED BY <1>2, <1>4, <1>5, <1>6, <1>7, <1>8

LEMMA StrictPrefix ==
    ASSUME NEW p \in Paths, NEW q \in Paths
    PROVE  IsStrictPrefix(p, q) <=> Len(p) < Len(q) /\ SubSeq(q, 1, Len(p)) = p
<1>1. Len(p) \in Nat /\ Len(q) \in Nat /\ SubSeq(p, 1, Len(p)) = p /\ SubSeq(q, 1, Len(q)) = q
  BY Beginnings
<1>2. IsPrefix(p, q) <=> Len(p) <= Len(q) /\ SubSeq(q, 1, Len(p)) = p
  BY <1>1 DEF IsPrefix
<1> QED BY <1>1, <1>2 DEF IsStrictPrefix

------------------------------------------------------------------------------
(* Scopes of frames, whatever the frames.                                  *)

LEMMA ScopeIsThatOf ==
    ASSUME NEW fs, NEW p \in Paths, Chosen(fs, p) # {}
    PROVE  Max(Chosen(fs, p)) \in Chosen(fs, p) /\ Chosen(fs, p) \subseteq 0..Len(p)
<1>1. Len(p) \in Nat /\ Chosen(fs, p) \subseteq 0..Len(p)
  BY Beginnings DEF Chosen
<1> QED BY <1>1, HasMaximum

LEMMA ScopeStays ==
    ASSUME NEW fs, NEW gs, NEW p \in Paths,
           \A n \in 0..Len(p) : gs[SubSeq(p, 1, n)].scope = fs[SubSeq(p, 1, n)].scope
    PROVE  Scope(gs, p) = Scope(fs, p)
<1>1. Chosen(gs, p) = Chosen(fs, p)
  BY DEF Chosen
<1>2. CASE Chosen(fs, p) = {}
  BY <1>1, <1>2 DEF Scope
<1>3. CASE Chosen(fs, p) # {}
  <2>1. Max(Chosen(fs, p)) \in 0..Len(p)
    BY <1>3, ScopeIsThatOf
  <2> QED BY <1>1, <1>3, <2>1 DEF Scope
<1> QED BY <1>2, <1>3

LEMMA ScopeOfChild ==
    ASSUME NEW fs, NEW p \in Paths, NEW i \in Nat \ {0}
    PROVE  Scope(fs, Append(p, i)) =
              IF fs[Append(p, i)].scope = "none" THEN Scope(fs, p) ELSE fs[Append(p, i)].scope
<1> DEFINE c == Append(p, i)
<1>1. /\ Len(p) \in Nat
      /\ c \in Paths
      /\ Len(c) = Len(p) + 1
      /\ SubSeq(c, 1, Len(p) + 1) = c
      /\ \A n \in 0..Len(p) : SubSeq(c, 1, n) = SubSeq(p, 1, n)
  BY ChildPath, Beginnings
<1> HIDE DEF c
<1>4. \A n : n \in Chosen(fs, c) <=>
          n \in Chosen(fs, p) \/ (n = Len(p) + 1 /\ fs[c].scope # "none")
  <2>1. \A n : n \in 0..Len(c) <=> n \in 0..Len(p) \/ n = Len(p) + 1
    BY <1>1
  <2>2. Len(p) + 1 \notin 0..Len(p)
    BY <1>1
  <2> QED BY <1>1, <2>1, <2>2 DEF Chosen
<1>2. CASE fs[c].scope = "none"
  <2>1. Chosen(fs, c) = Chosen(fs, p)
    BY <1>2, <1>4
  <2>2. CASE Chosen(fs, p) = {}
    BY <1>2, <2>1, <2>2 DEF Scope, c
  <2>3. CASE Chosen(fs, p) # {}
    <3>1. Max(Chosen(fs, p)) \in 0..Len(p)
      BY <2>3, ScopeIsThatOf
    <3>2. Scope(fs, c) = Scope(fs, p)
      BY <1>1, <2>1, <2>3, <3>1 DEF Scope
    <3> QED BY <1>2, <3>2 DEF c
  <2> QED BY <2>2, <2>3
<1>3. CASE fs[c].scope # "none"
  <2>1. Len(c) \in Chosen(fs, c) /\ Chosen(fs, c) \subseteq 0..Len(c)
    BY <1>1, <1>3, <1>4 DEF Chosen
  <2>2. Len(c) \in Chosen(fs, c) /\ \A y \in Chosen(fs, c) : Len(c) >= y
    BY <1>1, <2>1
  <2>3. \A x \in Chosen(fs, c) : (\A y \in Chosen(fs, c) : x >= y) => x = Len(c)
    BY <1>1, <2>1
  <2>4. Max(Chosen(fs, c)) = Len(c)
    BY <2>2, <2>3 DEF Max
  <2>5. Scope(fs, c) = fs[c].scope
    BY <1>1, <2>1, <2>4 DEF Scope
  <2> QED BY <1>3, <2>5 DEF c
<1> QED BY <1>2, <1>3 DEF c

LEMMA ScopeOfRoot ==
    ASSUME NEW fs, fs[Root].scope = "none"
    PROVE  Scope(fs, Root) = "default"
<1>1. Root \in Paths /\ Len(Root) = 0
  BY EmptySeq DEF Root, Paths
<1>2. SubSeq(Root, 1, 0) = Root
  BY <1>1, Beginnings DEF Root
<1>3. \A n \in 0..Len(Root) : n = 0
  BY <1>1
<1>4. Chosen(fs, Root) = {}
  BY <1>2, <1>3 DEF Chosen
<1> QED BY <1>4 DEF Scope

LEMMA ScopeValues ==
    ASSUME NEW fs, NEW p \in Paths,
           \A n \in 0..Len(p) : fs[SubSeq(p, 1, n)].scope \in Scopes
    PROVE  /\ Scope(fs, p) \in {"default", "slab"}
           /\ Scope(fs, p) = "slab" =>
                 \E n \in 0..Len(p) : fs[SubSeq(p, 1, n)].scope = "slab"
<1>1. CASE Chosen(fs, p) = {}
  BY <1>1 DEF Scope
<1>2. CASE Chosen(fs, p) # {}
  <2>1. Max(Chosen(fs, p)) \in Chosen(fs, p)
    BY <1>2, ScopeIsThatOf
  <2>2. PICK n \in 0..Len(p) :
            Scope(fs, p) = fs[SubSeq(p, 1, n)].scope /\ fs[SubSeq(p, 1, n)].scope # "none"
    BY <1>2, <2>1 DEF Scope, Chosen
  <2> QED BY <2>2 DEF Scopes
<1> QED BY <1>1, <1>2

------------------------------------------------------------------------------
(* The children that a body has, from step to step.                        *)

LEMMA NoneAtFirst ==
    ASSUME NEW b, DOMAIN b = 1..Len(b)
    PROVE  Alive(b, 0) = {} /\ Alive(b, 1) = {}
<1>1. \A j \in StepsOf(b, "spawn") : ~(j < 0) /\ ~(j < 1)
  BY DEF StepsOf
<1> QED BY <1>1 DEF Alive

LEMMA AliveAfter ==
    ASSUME NEW b, DOMAIN b = 1..Len(b), NEW k \in DOMAIN b
    PROVE  /\ b[k].do \notin {"spawn", "join", "catch"} => Alive(b, k + 1) = Alive(b, k)
           /\ b[k].do = "spawn" => Alive(b, k + 1) = Alive(b, k) \cup {b[k].child}
           /\ b[k].do = "join" => Alive(b, k + 1) = Alive(b, k) \ Range(b[k].children)
           /\ b[k].do = "catch" => Alive(b, k + 1) = {}
<1> DEFINE Lives(j, n) == /\ j \in StepsOf(b, "spawn")
                          /\ j < n
                          /\ \A m \in (j + 1)..(n - 1) : ~Ends(b[m], b[j].child)
<1>1. \A n, i : i \in Alive(b, n) <=> \E j \in StepsOf(b, "spawn") : Lives(j, n) /\ i = b[j].child
  BY DEF Alive
<1>2. ASSUME NEW j \in StepsOf(b, "spawn")
      PROVE  Lives(j, k + 1) <=> j = k \/ (Lives(j, k) /\ ~Ends(b[k], b[j].child))
  <2>1. k \in Nat /\ j \in Nat
    BY DEF StepsOf
  <2>2. CASE j = k
    <3>1. j < k + 1 /\ (j + 1)..(k + 1 - 1) = {}
      BY <2>1, <2>2
    <3> QED BY <2>2, <3>1
  <2>3. CASE j > k
    BY <2>1, <2>3
  <2>4. CASE j < k
    <3>1. (j + 1)..(k + 1 - 1) = ((j + 1)..(k - 1)) \cup {k}
      BY <2>1, <2>4
    <3> QED BY <2>1, <2>4, <3>1
  <2> QED BY <2>1, <2>2, <2>3, <2>4
<1> HIDE DEF Lives
<1>3. \A i : i \in Alive(b, k + 1) <=>
                \/ b[k].do = "spawn" /\ i = b[k].child
                \/ i \in Alive(b, k) /\ ~Ends(b[k], i)
  BY <1>1, <1>2 DEF StepsOf
<1>4. \A i : ~Ends(b[k], i) <=> b[k].do # "catch" /\ (b[k].do = "join" => i \notin Range(b[k].children))
  BY DEF Ends
<1> QED BY <1>3, <1>4

------------------------------------------------------------------------------
(* Steps of the frame that is polled, in place.                            *)

SameTask(g, f) ==
    /\ DOMAIN g = Fields
    /\ g.body = f.body /\ g.size = f.size /\ g.scope = f.scope
    /\ g.bare = f.bare /\ g.in = f.in /\ g.index = f.index

Replaced(new) ==
    /\ DOMAIN frames' = DOMAIN frames
    /\ frames'[P] = new
    /\ \A q \in DOMAIN frames : q # P => frames'[q] = frames[q]
    /\ UNCHANGED <<program, outcome>>

\* No child comes or goes, and the poll returns if the body is over.
MovesOn(new) ==
    /\ SameTask(new, F)
    /\ F.pc <= new.pc
    /\ new.pc \in 0..(Len(F.body) + 1)
    /\ new.pc <= Len(F.body) => Alive(F.body, new.pc) = Alive(F.body, F.pc)
    /\ \/ new.state = "suspended"
       \/ /\ new.state = "done"
          /\ new.pc = Len(F.body) + 1
          /\ TasksOf(F.body) = {}
          /\ phase' = "return"
    /\ F.pc <= Len(F.body)
    /\ phase' \in Phases

LEMMA SameIsFrame ==
    ASSUME NEW f, NEW g, IsFrame(f), SameTask(g, f), g.pc \in 0..(Len(f.body) + 1)
    PROVE  IsFrame(g)
<1> QED BY DEF IsFrame, SameTask, IsTask

LEMMA PolledFrame ==
    ASSUME Structure, Polling
    PROVE  /\ P \in DOMAIN frames /\ P \in Paths /\ IsFrame(F) /\ ~outcome.over
           /\ Len(F.body) \in Nat /\ DOMAIN F.body = 1..Len(F.body)
           /\ OwnsItsTasks(F.body)
           /\ \A t \in TasksOf(F.body) : IsTask(t) /\ Bodies(t.body) \subseteq Bodies(F.body)
           /\ F.body \in Bodies(F.body)
           /\ Len(stack) \in Nat \ {0} /\ Top \in Entries /\ Root \in DOMAIN frames
<1>1. P \in DOMAIN frames /\ ~outcome.over /\ Root \in DOMAIN frames
  BY DEF Structure, Nesting, Polling, Types
<1>2. P \in Paths /\ IsFrame(F)
  BY <1>1 DEF Structure, Types, F
<1>3. F.body \in Bodies(program.body)
  BY <1>2 DEF IsFrame
<1>4. OwnsItsTasks(F.body) /\ F.body \in Bodies(F.body)
      /\ \A t \in TasksOf(F.body) : IsTask(t) /\ Bodies(t.body) \subseteq Bodies(F.body)
  BY <1>3 DEF Structure, Types, IsProgram
<1>5. F.pc \in 0..(Len(F.body) + 1)
  BY <1>2 DEF IsFrame
<1>6. Len(stack) \in Nat \ {0} /\ Top \in Entries
  <2>1. stack \in Seq(Entries) /\ stack # <<>>
    BY DEF Structure, Types, Polling
  <2>2. Len(stack) \in Nat \ {0} /\ DOMAIN stack = 1..Len(stack)
    BY <2>1, EmptySeq, LenProperties
  <2> QED BY <2>1, <2>2, ElementOfSeq DEF Top
<1>7. DOMAIN F.body = 1..Len(F.body)
  BY <1>4 DEF OwnsItsTasks
<1> QED BY <1>1, <1>2, <1>4, <1>6, <1>7

LEMMA ScopesKept ==
    ASSUME Structure, Tree(frames'),
           \A q \in DOMAIN frames \cap DOMAIN frames' : frames'[q].scope = frames[q].scope,
           NEW p \in DOMAIN frames \cap DOMAIN frames'
    PROVE  Scope(frames', p) = Scope(frames, p)
<1>1. p \in Paths
  BY DEF Structure, Types
<1>2. \A n \in 0..Len(p) : SubSeq(p, 1, n) \in DOMAIN frames \cap DOMAIN frames'
  BY DEF Structure, Tree
<1>3. \A n \in 0..Len(p) : frames'[SubSeq(p, 1, n)].scope = frames[SubSeq(p, 1, n)].scope
  BY <1>2
<1> HIDE DEF Scope
<1> QED BY <1>1, <1>3, ScopeStays

\* The polls below the innermost are of frames that exist, each once.
LEMMA StackedFrames ==
    ASSUME Structure, Polling
    PROVE  /\ Len(stack) \in Nat \ {0} /\ DOMAIN stack = 1..Len(stack)
           /\ \A j \in 1..Len(stack) :
                 /\ stack[j].frame \in DOMAIN frames
                 /\ stack[j].frame = SubSeq(P, 1, j - 1)
                 /\ Len(stack[j].frame) = j - 1
                 /\ j < Len(stack) => stack[j].frame # P
<1>1. P \in DOMAIN frames /\ P \in Paths /\ Len(stack) \in Nat \ {0}
  BY PolledFrame
<1>2. DOMAIN stack = 1..Len(stack)
  BY LenProperties DEF Structure, Types
<1>3. Len(P) = Len(stack) - 1 /\ \A j \in DOMAIN stack : stack[j].frame = SubSeq(P, 1, j - 1)
  BY DEF Structure, Nesting
<1>4. ASSUME NEW j \in 1..Len(stack)
      PROVE  /\ stack[j].frame \in DOMAIN frames
             /\ stack[j].frame = SubSeq(P, 1, j - 1)
             /\ Len(stack[j].frame) = j - 1
             /\ j < Len(stack) => stack[j].frame # P
  <2>1. j - 1 \in 0..Len(P)
    BY <1>1, <1>3
  <2>2. SubSeq(P, 1, j - 1) \in DOMAIN frames /\ Len(SubSeq(P, 1, j - 1)) = j - 1
    BY <1>1, <2>1, Beginnings DEF Structure, Tree
  <2>3. j < Len(stack) => j - 1 # Len(P)
    BY <1>1, <1>3
  <2>4. stack[j].frame = SubSeq(P, 1, j - 1)
    BY <1>2, <1>3
  <2> QED BY <2>2, <2>3, <2>4
<1> QED BY <1>1, <1>2, <1>4

LEMMA FramesInPlace ==
    ASSUME Structure, Polling, phase \in {"poll", "body"}, F.state = "suspended",
           NEW new, Replaced(new), MovesOn(new)
    PROVE  /\ Tree(frames')
           /\ \A p \in DOMAIN frames' :
                 /\ p \in Paths /\ IsFrame(frames'[p])
                 /\ Owned(frames', p)
                 /\ frames'[p].state \in {"suspended", "done"}
                 /\ frames'[p].state = "done" => frames'[p].pc = Len(frames'[p].body) + 1
<1> USE DEF Structure
<1>1. P \in DOMAIN frames /\ P \in Paths /\ IsFrame(F) /\ Len(F.body) \in Nat /\ F = frames[P]
  BY PolledFrame DEF F
<1>2. Tree(frames')
  BY DEF Tree, Replaced
<1> SUFFICES ASSUME NEW p \in DOMAIN frames'
             PROVE  /\ p \in Paths /\ IsFrame(frames'[p])
                    /\ Owned(frames', p)
                    /\ frames'[p].state \in {"suspended", "done"}
                    /\ frames'[p].state = "done" => frames'[p].pc = Len(frames'[p].body) + 1
  BY <1>2
<1>3. p \in DOMAIN frames /\ p \in Paths /\ IsFrame(frames[p]) /\ Ended(p) /\ Owned(frames, p)
  BY DEF Replaced, Types
<1>4. CASE p # P
  <2>1. frames'[p] = frames[p]
    BY <1>3, <1>4 DEF Replaced
  <2>2. Owned(frames', p)
    BY <1>3, <2>1 DEF Owned, Replaced
  <2> QED BY <1>3, <2>1, <2>2 DEF Ended
<1>5. CASE p = P
  <2>1. frames'[p] = new /\ new.body = F.body /\ IsFrame(new)
    BY <1>1, <1>5, SameIsFrame DEF MovesOn, SameTask, Replaced
  <2>2. new.pc <= Len(F.body) => F.pc <= Len(F.body) /\ Alive(F.body, new.pc) = Alive(F.body, F.pc)
    BY DEF MovesOn
  <2>3. new.state # "suspended" => TasksOf(F.body) = {}
    BY DEF MovesOn
  <2>4. Owned(frames', p)
    BY <1>1, <1>3, <1>5, <2>1, <2>2, <2>3 DEF Owned, Replaced
  <2> QED BY <1>3, <2>1, <2>4 DEF MovesOn
<1> QED BY <1>4, <1>5

LEMMA StructureInPlace ==
    ASSUME Structure, Polling, phase \in {"poll", "body"}, F.state = "suspended",
           NEW new, Replaced(new), MovesOn(new), stack' = stack
    PROVE  Structure'
<1> USE DEF Structure
<1>1. /\ P \in DOMAIN frames /\ P \in Paths /\ ~outcome.over /\ Root \in DOMAIN frames
  BY PolledFrame
<1>2. P' = P /\ Polling' /\ F' = new /\ F = frames[P] /\ program' = program
  BY <1>1 DEF P, Top, F, Polling, Replaced
<1>3. /\ Tree(frames')
      /\ \A p \in DOMAIN frames' :
            /\ p \in Paths /\ IsFrame(frames'[p])
            /\ Owned(frames', p)
            /\ frames'[p].state \in {"suspended", "done"}
            /\ frames'[p].state = "done" => frames'[p].pc = Len(frames'[p].body) + 1
  BY FramesInPlace
<1>4. Types'
  <2>1. \A f : IsFrame(f)' <=> IsFrame(f)
    BY <1>2 DEF IsFrame
  <2>2. outcome' = outcome /\ DOMAIN frames' = DOMAIN frames /\ phase' \in Phases
    BY DEF Replaced, MovesOn
  <2> QED BY <1>1, <1>2, <1>3, <2>1, <2>2 DEF Types
<1>5. \A p \in DOMAIN frames' : Ended(p)'
  BY <1>3 DEF Ended
<1>6. Nesting'
  <2>1. Nesting
    OBVIOUS
  <2>2. \A j \in DOMAIN stack : j < Len(stack) => frames'[stack[j].frame].state = "suspended"
    BY <2>1, StackedFrames DEF Nesting, Replaced
  <2>3. new.state = "suspended" \/ phase' = "return"
    BY DEF MovesOn
  <2> QED BY <1>1, <1>2, <2>1, <2>2, <2>3 DEF Nesting, Replaced
<1> QED BY <1>3, <1>4, <1>5, <1>6

LEMMA GuardedInPlace ==
    ASSUME Structure, Structure', Guarded, Polling,
           NEW new, Replaced(new), SameTask(new, F), UNCHANGED <<stack, current>>
    PROVE  Guarded'
<1>1. DOMAIN frames' = DOMAIN frames /\ P \in DOMAIN frames
  BY PolledFrame DEF Replaced
<1>2. P' = P /\ Polling' /\ stack' = stack /\ F = frames[P]
  BY DEF P, Top, F, Polling, Replaced
<1>3. \A q \in DOMAIN frames : /\ frames'[q].scope = frames[q].scope
                               /\ frames'[q].bare = frames[q].bare
                               /\ frames'[q].in = frames[q].in
  BY <1>2 DEF Replaced, SameTask
<1>4. \A q \in DOMAIN frames : Scope(frames', q) = Scope(frames, q)
  BY <1>1, <1>3, ScopesKept DEF Structure
<1>5. Root \in DOMAIN frames' => frames'[Root].scope = "none"
  BY <1>1, <1>3 DEF Guarded
<1>6. current' = Scope(frames', P)
  BY <1>1, <1>4 DEF Guarded
<1>7. ASSUME NEW j \in 2..Len(stack)
      PROVE  Restored(j)'
  <2>1. j \in 1..Len(stack) /\ j - 1 \in 1..Len(stack)
    BY StackedFrames
  <2>2. stack[j].frame \in DOMAIN frames /\ stack[j - 1].frame \in DOMAIN frames
    BY <2>1, StackedFrames
  <2>3. Restored(j)
    BY DEF Guarded
  <2> QED BY <1>2, <1>3, <1>4, <2>2, <2>3 DEF Restored
<1>8. \A p \in DOMAIN frames' : frames'[p].bare \/ frames'[p].in = Scope(frames', p)
  BY <1>1, <1>3, <1>4 DEF Guarded
<1> QED BY <1>2, <1>5, <1>6, <1>7, <1>8 DEF Guarded

\* The polled frame moves on, others stay, and there may be more.
LEMMA SlabKept ==
    ASSUME Structure, SlabLives, Polling, F.state = "suspended",
           NEW new, SameTask(new, F), F.pc <= new.pc, new.pc \in 0..(Len(F.body) + 1),
           DOMAIN frames \subseteq DOMAIN frames',
           frames'[P] = new,
           \A q \in DOMAIN frames : q # P => frames'[q] = frames[q],
           UNCHANGED <<program, home>>,
           F.pc <= 1 /\ new.pc > 1 => DoesNow(Now.do) /\ Now.do # "slab"
    PROVE  /\ SlabRoot' = SlabRoot
           /\ \A q \in DOMAIN frames : SameTask(frames'[q], frames[q])
           /\ \A p \in DOMAIN frames : (Outside(p) \/ Inside(p) \/ MakesIt(p) \/ Spawner(p))'
<1>1. /\ P \in DOMAIN frames /\ F = frames[P]
      /\ program' = program /\ Root \in DOMAIN frames
  BY PolledFrame DEF F
<1>2. Makers' = Makers /\ SlabRoot' = SlabRoot /\ home' = home
  BY <1>1 DEF Makers, SlabRoot
<1>3. \A q \in DOMAIN frames : SameTask(frames'[q], frames[q])
  <2>1. \A q \in DOMAIN frames : DOMAIN frames[q] = Fields
    BY DEF Structure, Types, IsFrame
  <2> QED BY <1>1, <2>1 DEF SameTask
<1>4. frames'[Root].pc >= frames[Root].pc /\ frames'[Root].pc \in Nat /\ frames[Root].pc \in Nat
  <2>1. frames[Root].pc \in 0..(Len(frames[Root].body) + 1)
    BY <1>1 DEF Structure, Types, IsFrame
  <2>2. frames[Root].pc \in Int /\ frames[Root].pc >= 0
    BY <2>1
  <2>3. CASE Root = P
    BY <1>1, <2>2, <2>3
  <2>4. CASE Root # P
    BY <1>1, <2>2, <2>4
  <2> QED BY <2>3, <2>4
<1>5. \A k \in Makers : k \in Nat
  <2>1. program.body \in Bodies(program.body) /\ OwnsItsTasks(program.body)
    BY DEF Structure, Types, IsProgram
  <2> QED BY <2>1 DEF Makers, StepsOf, OwnsItsTasks
<1>6. ASSUME NEW p \in DOMAIN frames
      PROVE  (Outside(p) \/ Inside(p) \/ MakesIt(p) \/ Spawner(p))'
  <2>1. /\ frames'[p].body = frames[p].body
        /\ frames'[p].scope = frames[p].scope
        /\ frames'[Root].body = frames[Root].body
        /\ frames'[Root].scope = frames[Root].scope
    BY <1>1, <1>3 DEF SameTask
  <2>2. CASE Outside(p)
    BY <2>1, <2>2 DEF Outside
  <2>3. CASE Inside(p)
    BY <1>2, <2>1, <2>3 DEF Inside
  <2>4. CASE MakesIt(p)
    <3>1. /\ frames'[p].pc <= 1 => home = Nobody
          /\ frames'[p].pc > 1 /\ frames'[p].state = "suspended" => home = p
      <4>1. CASE p # P
        BY <1>1, <2>4, <4>1 DEF MakesIt
      <4>2. CASE p = P
        <5>1. F.pc <= new.pc /\ new.pc \in 0..(Len(F.body) + 1) /\ F.pc \in 0..(Len(F.body) + 1)
              /\ frames'[p] = new /\ Len(F.body) \in Nat
          BY <4>2, PolledFrame DEF IsFrame
        <5>2. ~(F.pc <= 1 /\ new.pc > 1)
          <6> SUFFICES ASSUME F.pc <= 1, new.pc > 1 PROVE FALSE
            OBVIOUS
          <6>1. F.pc \in DOMAIN F.body /\ Now.do # "slab" /\ DOMAIN F.body = 1..Len(F.body)
            BY PolledFrame DEF DoesNow
          <6>2. F.pc = 1
            BY <5>1, <6>1
          <6>3. 1 \in StepsOf(F.body, "slab")
            BY <1>1, <2>4, <4>2 DEF MakesIt, HasTheSlab
          <6> QED BY <6>1, <6>2, <6>3 DEF StepsOf, Now
        <5> QED BY <1>1, <2>4, <4>2, <5>1, <5>2 DEF MakesIt
      <4> QED BY <4>1, <4>2
    <3>2. p # Root => \A k \in Makers : frames'[Root].pc > k
      <4>1. p # Root => \A k \in Makers : frames[Root].pc > k
        BY <2>4 DEF MakesIt
      <4>2. \A k \in Nat : frames[Root].pc > k => frames'[Root].pc > k
        BY <1>4
      <4> QED BY <1>5, <4>1, <4>2
    <3> QED BY <1>2, <2>1, <2>4, <3>1, <3>2 DEF MakesIt
  <2>5. CASE Spawner(p)
    <3>1. \A k \in Makers : frames[Root].pc <= k => home = Nobody
      BY <2>5 DEF Spawner
    <3>2. \A k \in Makers : frames'[Root].pc <= k => home = Nobody
      <4>1. \A k \in Nat : frames'[Root].pc <= k => frames[Root].pc <= k
        BY <1>4
      <4> QED BY <1>5, <3>1, <4>1
    <3> QED BY <1>1, <1>2, <2>1, <2>5, <3>2 DEF Spawner
  <2>6. Outside(p) \/ Inside(p) \/ MakesIt(p) \/ Spawner(p)
    BY DEF SlabLives
  <2> QED BY <2>2, <2>3, <2>4, <2>5, <2>6
<1> QED BY <1>2, <1>3, <1>6

LEMMA SlabInPlace ==
    ASSUME Structure, Structure', SlabLives, BlocksTaken, Polling, F.state = "suspended",
           NEW new, Replaced(new), MovesOn(new), UNCHANGED <<home, blocks>>,
           F.pc <= 1 /\ new.pc > 1 => DoesNow(Now.do) /\ Now.do # "slab"
    PROVE  SlabLives' /\ BlocksTaken'
<1>1. DOMAIN frames' = DOMAIN frames /\ program' = program /\ home' = home /\ blocks' = blocks
  BY DEF Replaced
<1>2. /\ SlabRoot' = SlabRoot
      /\ \A q \in DOMAIN frames : SameTask(frames'[q], frames[q])
      /\ \A p \in DOMAIN frames : (Outside(p) \/ Inside(p) \/ MakesIt(p) \/ Spawner(p))'
  <2>1. /\ DOMAIN frames \subseteq DOMAIN frames'
        /\ frames'[P] = new
        /\ \A q \in DOMAIN frames : q # P => frames'[q] = frames[q]
    BY DEF Replaced
  <2>2. SameTask(new, F) /\ F.pc <= new.pc /\ new.pc \in 0..(Len(F.body) + 1)
    BY DEF MovesOn
  <2> QED BY <1>1, <2>1, <2>2, SlabKept
<1>3. BlocksTaken'
  <2>1. \A c \in Classes : InSlab(c)' = InSlab(c)
    BY <1>1, <1>2 DEF InSlab, SameTask
  <2>2. \A c \in Classes : \A p \in InSlab(c) : frames'[p].index = frames[p].index
    BY <1>2 DEF InSlab, SameTask
  <2> QED BY <1>1, <2>1, <2>2 DEF BlocksTaken
<1> QED BY <1>1, <1>2, <1>3 DEF SlabLives

\* What most steps come down to.
LEMMA StepInPlace ==
    ASSUME IInv, Polling, phase \in {"poll", "body"}, F.state = "suspended",
           NEW new, Replaced(new), MovesOn(new), UNCHANGED <<stack, current, home, blocks>>,
           F.pc <= 1 /\ new.pc > 1 => DoesNow(Now.do) /\ Now.do # "slab",
           phase' = "failing" => new.pc > 1 \/ (new.pc = 1 /\ F.body[1].do # "slab")
    PROVE  IInv'
<1>1. Structure'
  BY StructureInPlace DEF IInv
<1>2. Guarded'
  BY <1>1, GuardedInPlace DEF IInv, MovesOn
<1>3. SlabLives' /\ BlocksTaken'
  BY <1>1, SlabInPlace DEF IInv
<1>4. Failing'
  <2>1. F' = new /\ new.body = F.body
    <3>1. P' = P /\ F' = frames'[P]
      BY DEF P, Top, F
    <3> QED BY <3>1 DEF Replaced, MovesOn, SameTask
  <2> QED BY <2>1 DEF Failing
<1> QED BY <1>1, <1>2, <1>3, <1>4 DEF IInv

------------------------------------------------------------------------------
(* The actions that only move the polled frame on.                         *)

LEMMA Running ==
    ASSUME Structure, Polling, phase = "body" \/ (phase = "poll" /\ F.pc <= Len(F.body))
    PROVE  F.state = "suspended" /\ F.pc \in Nat /\ F.pc \in 0..(Len(F.body) + 1)
<1>1. IsFrame(F) /\ Len(F.body) \in Nat
  BY PolledFrame
<1>2. F.pc \in Nat /\ F.pc \in 0..(Len(F.body) + 1)
  BY <1>1 DEF IsFrame
<1>3. Nesting
  BY DEF Structure
<1> QED BY <1>1, <1>2, <1>3 DEF Nesting

LEMMA Working ==
    ASSUME Structure, Polling, NEW what, DoesNow(what), phase \in {"poll", "body"}
    PROVE  /\ F.state = "suspended" /\ F.pc \in 1..Len(F.body) /\ F.pc \in DOMAIN F.body
           /\ Now.do = what /\ DoesNow(Now.do)
<1>1. Len(F.body) \in Nat /\ DOMAIN F.body = 1..Len(F.body)
  BY PolledFrame
<1> QED BY <1>1, Running DEF DoesNow

LEMMA BecomesReplaces ==
    ASSUME Structure, Polling, UNCHANGED <<program, outcome>>
    PROVE  /\ \A new : Becomes(new) => Replaced(new)
           /\ frames' = frames => Replaced(F)
<1>1. P \in DOMAIN frames /\ F = frames[P]
  BY PolledFrame DEF F
<1> QED BY <1>1 DEF Becomes, Replaced

\* The body goes on to its next step, which is no matter of children.
LEMMA Advances ==
    ASSUME IInv, Polling, phase \in {"poll", "body"}, NEW new, Replaced(new),
           UNCHANGED <<stack, current, home, blocks>>, phase' \in Phases,
           NEW what, DoesNow(what), what \notin {"spawn", "join", "catch", "slab"},
           SameTask(new, F), new.state = "suspended", new.pc = F.pc + 1
    PROVE  IInv'
<1>1. /\ F.state = "suspended" /\ F.pc \in 1..Len(F.body) /\ F.pc \in DOMAIN F.body
      /\ Now.do = what /\ DoesNow(Now.do)
  BY Working DEF IInv
<1>2. Len(F.body) \in Nat /\ DOMAIN F.body = 1..Len(F.body)
  BY PolledFrame DEF IInv
<1>3. Alive(F.body, F.pc + 1) = Alive(F.body, F.pc)
  BY <1>1, <1>2, AliveAfter DEF Now
<1>4. MovesOn(new)
  BY <1>1, <1>2, <1>3 DEF MovesOn
<1> QED BY <1>1, <1>4, StepInPlace

\* The frame stays where it is.
LEMMA Remains ==
    ASSUME IInv, Polling, phase \in {"poll", "body"}, NEW new, Replaced(new),
           UNCHANGED <<stack, current, home, blocks>>, phase' \in Phases,
           NEW what, DoesNow(what), what # "slab",
           SameTask(new, F), new.state = "suspended", new.pc = F.pc
    PROVE  IInv'
<1>1. F.state = "suspended" /\ F.pc \in 1..Len(F.body) /\ Now.do = what
  BY Working DEF IInv
<1>2. Len(F.body) \in Nat
  BY PolledFrame DEF IInv
<1>3. MovesOn(new)
  BY <1>1, <1>2 DEF MovesOn
<1>4. new.pc = 1 => F.body[1].do # "slab"
  BY <1>1 DEF Now
<1> QED BY <1>1, <1>3, <1>4, StepInPlace

\* The body is over but for its end.
LEMMA ReturnsEarly ==
    ASSUME IInv, Polling, phase = "body", NEW new, Replaced(new),
           UNCHANGED <<stack, current, home, blocks>>, phase' \in Phases,
           NEW what, DoesNow(what), what # "slab",
           SameTask(new, F), new.state = "suspended", new.pc = Len(F.body) + 1
    PROVE  IInv'
<1>1. /\ F.state = "suspended" /\ F.pc \in 1..Len(F.body)
      /\ Now.do = what /\ DoesNow(Now.do)
  BY Working DEF IInv
<1>2. Len(F.body) \in Nat
  BY PolledFrame DEF IInv
<1>3. MovesOn(new)
  BY <1>1, <1>2 DEF MovesOn
<1> QED BY <1>1, <1>3, StepInPlace

LEMMA StartStep == IInv /\ Start => IInv'
<1> SUFFICES ASSUME IInv, Start PROVE IInv'
  OBVIOUS
<1> USE DEF IInv
<1>1. /\ Polling /\ phase = "poll" /\ F.pc = 0 /\ Becomes(StepDone) /\ phase' = "body"
      /\ UNCHANGED <<program, outcome>> /\ UNCHANGED <<stack, current, home, blocks>>
  BY DEF Start, memoryVars
<1>2. /\ IsFrame(F) /\ Len(F.body) \in Nat /\ DOMAIN F.body = 1..Len(F.body)
  BY <1>1, PolledFrame
<1>3. F.state = "suspended"
  BY <1>1, <1>2, Running
<1>4. SameTask(StepDone, F) /\ StepDone.pc = 1 /\ StepDone.state = "suspended"
  BY <1>1, <1>2, <1>3 DEF StepDone, SameTask, IsFrame, Fields
<1>5. Alive(F.body, 1) = Alive(F.body, 0)
  BY <1>2, NoneAtFirst
<1>6. MovesOn(StepDone)
  BY <1>1, <1>2, <1>4, <1>5 DEF MovesOn, Phases
<1>7. Replaced(StepDone)
  BY <1>1, BecomesReplaces
<1> QED BY <1>1, <1>3, <1>4, <1>6, <1>7, StepInPlace

LEMMA PollLeafStep == IInv /\ PollLeaf => IInv'
<1> SUFFICES ASSUME IInv, PollLeaf PROVE IInv'
  OBVIOUS
<1> USE DEF IInv
<1>1. /\ Polling /\ phase = "poll" /\ DoesNow("leaf")
      /\ UNCHANGED <<program, outcome>> /\ UNCHANGED <<stack, current, home, blocks>>
  BY DEF PollLeaf, Polls, memoryVars
<1>2. /\ IsFrame(F) /\ Len(F.body) \in Nat /\ DOMAIN F = Fields
      /\ F.state = "suspended" /\ F.pc \in 1..Len(F.body) /\ Now.do = "leaf" /\ DoesNow(Now.do)
  BY <1>1, PolledFrame, Working DEF IsFrame
<1>3. ASSUME Becomes([F EXCEPT !.left = @ - 1]), phase' = "return" PROVE IInv'
  <2> DEFINE new == [F EXCEPT !.left = @ - 1]
  <2>1. SameTask(new, F) /\ new.pc = F.pc /\ new.state = "suspended"
    BY <1>2 DEF SameTask, Fields
  <2>2. Replaced(new)
    BY <1>1, <1>3, BecomesReplaces
  <2> HIDE DEF new
  <2> QED BY <1>1, <1>3, <2>1, <2>2, Remains DEF Phases
<1>4. ASSUME Becomes(Learns(Now.gives)), phase' = "body" PROVE IInv'
  <2>1. /\ SameTask(Learns(Now.gives), F) /\ Learns(Now.gives).pc = F.pc + 1
        /\ Learns(Now.gives).state = "suspended"
    BY <1>2 DEF SameTask, Fields, Learns, StepDone
  <2>2. Replaced(Learns(Now.gives))
    BY <1>1, <1>4, BecomesReplaces
  <2> QED BY <1>1, <1>4, <2>1, <2>2, Advances DEF Phases
<1>5. ASSUME F.bare, Becomes([Learns(Now.gives) EXCEPT !.state = "done"]), phase' = "return"
      PROVE  IInv'
  <2> DEFINE new == [Learns(Now.gives) EXCEPT !.state = "done"]
  <2>1. SameTask(new, F) /\ new.pc = F.pc + 1 /\ new.state = "done"
    BY <1>2 DEF SameTask, Fields, Learns, StepDone
  <2>2. Replaced(new)
    BY <1>1, <1>5, BecomesReplaces
  <2>3. Len(F.body) = 1 /\ TasksOf(F.body) = {}
    BY <1>2, <1>5 DEF IsFrame, IsTask
  <2>4. F.pc = 1 /\ new.pc = 2
    BY <1>2, <2>1, <2>3
  <2> HIDE DEF new
  <2>5. MovesOn(new)
    BY <1>2, <1>5, <2>1, <2>3, <2>4 DEF MovesOn, Phases
  <2> QED BY <1>1, <1>2, <1>5, <2>2, <2>5, StepInPlace
<1>6. \/ Becomes([F EXCEPT !.left = @ - 1]) /\ phase' = "return"
      \/ Becomes(Learns(Now.gives)) /\ phase' = "body"
      \/ F.bare /\ Becomes([Learns(Now.gives) EXCEPT !.state = "done"]) /\ phase' = "return"
  BY DEF PollLeaf
<1> QED BY <1>3, <1>4, <1>5, <1>6

LEMMA PollLockStep == IInv /\ PollLock => IInv'
<1> SUFFICES ASSUME IInv, PollLock PROVE IInv'
  OBVIOUS
<1> USE DEF IInv
<1>1. /\ Polling /\ phase = "poll" /\ DoesNow("lock")
      /\ UNCHANGED <<program, outcome>> /\ UNCHANGED <<stack, current, home, blocks>>
  BY DEF PollLock, Polls, memoryVars
<1>2. /\ IsFrame(F) /\ DOMAIN F = Fields /\ F.state = "suspended"
  BY <1>1, PolledFrame, Working DEF IsFrame
<1> DEFINE granted == [StepDone EXCEPT !.guards =
                          Append(@, [lock |-> Now.lock, mode |-> Now.mode])]
<1>3. ASSUME Becomes(granted), phase' = "body" PROVE IInv'
  <2>1. SameTask(granted, F) /\ granted.pc = F.pc + 1 /\ granted.state = "suspended"
    BY <1>2 DEF SameTask, Fields, StepDone
  <2>2. Replaced(granted)
    BY <1>1, <1>3, BecomesReplaces
  <2> HIDE DEF granted
  <2> QED BY <1>1, <1>3, <2>1, <2>2, Advances DEF Phases
<1>4. ASSUME UNCHANGED frames, phase' = "return" PROVE IInv'
  <2>1. SameTask(F, F)
    BY <1>2 DEF SameTask
  <2>2. Replaced(F)
    BY <1>1, <1>4, BecomesReplaces
  <2> QED BY <1>1, <1>2, <1>4, <2>1, <2>2, Remains DEF Phases
<1>5. (Becomes(granted) /\ phase' = "body") \/ (UNCHANGED frames /\ phase' = "return")
  BY DEF PollLock
<1> QED BY <1>3, <1>4, <1>5

LEMMA SuspendsStep == IInv /\ Suspends => IInv'
<1> SUFFICES ASSUME IInv, Suspends PROVE IInv'
  OBVIOUS
<1> USE DEF IInv
<1>1. PICK what \in Awaiting : Runs(what)
  BY DEF Suspends
<1>2. /\ Polling /\ phase = "body" /\ DoesNow(what) /\ phase' \in Phases
      /\ UNCHANGED <<program, outcome>> /\ UNCHANGED <<stack, current, home, blocks>>
  BY <1>1 DEF Suspends, Runs, memoryVars, Phases
<1>3. /\ IsFrame(F) /\ DOMAIN F = Fields /\ F.state = "suspended"
  BY <1>2, PolledFrame, Working DEF IsFrame
<1> DEFINE new == [F EXCEPT !.left = IF Now.do = "leaf" THEN Now.pending ELSE 0]
<1>4. SameTask(new, F) /\ new.pc = F.pc /\ new.state = "suspended"
  BY <1>3 DEF SameTask, Fields
<1>5. Becomes(new)
  BY DEF Suspends
<1> HIDE DEF new
<1>6. Replaced(new)
  BY <1>2, <1>5, BecomesReplaces
<1> QED BY <1>1, <1>2, <1>4, <1>6, Remains DEF Awaiting

LEMMA ThrowsStep == IInv /\ Throws => IInv'
<1> SUFFICES ASSUME IInv, Throws PROVE IInv'
  OBVIOUS
<1> USE DEF IInv
<1>1. /\ Polling /\ phase = "body" /\ DoesNow("throw") /\ phase' \in Phases /\ UNCHANGED frames
      /\ UNCHANGED <<program, outcome>> /\ UNCHANGED <<stack, current, home, blocks>>
  BY DEF Throws, Runs, memoryVars, Phases
<1>2. DOMAIN F = Fields /\ F.state = "suspended"
  BY <1>1, PolledFrame, Working DEF IsFrame
<1>3. SameTask(F, F)
  BY <1>2 DEF SameTask
<1>4. Replaced(F)
  BY <1>1, BecomesReplaces
<1> QED BY <1>1, <1>2, <1>3, <1>4, Remains

LEMMA UnlocksStep == IInv /\ Unlocks => IInv'
<1> SUFFICES ASSUME IInv, Unlocks PROVE IInv'
  OBVIOUS
<1> USE DEF IInv
<1>1. /\ Polling /\ phase = "body" /\ DoesNow("unlock") /\ phase' \in Phases
      /\ UNCHANGED <<program, outcome>> /\ UNCHANGED <<stack, current, home, blocks>>
  BY DEF Unlocks, Runs, memoryVars, Structure, Types
<1>2. DOMAIN F = Fields /\ F.state = "suspended"
  BY <1>1, PolledFrame, Working DEF IsFrame
<1>3. ASSUME NEW new, Becomes(new), SameTask(new, F), new.pc = F.pc + 1, new.state = "suspended"
      PROVE  IInv'
  <2>1. Replaced(new)
    BY <1>1, <1>3, BecomesReplaces
  <2> QED BY <1>1, <1>3, <2>1, Advances
<1>4. PICK last : Becomes(StepDone) \/ Becomes([StepDone EXCEPT !.guards = RemoveAt(@, last)])
  BY Zenon DEF Unlocks
<1> DEFINE less == [StepDone EXCEPT !.guards = RemoveAt(@, last)]
<1>5. SameTask(less, F) /\ less.pc = F.pc + 1 /\ less.state = "suspended"
  BY <1>2 DEF SameTask, Fields, StepDone
<1>6. SameTask(StepDone, F) /\ StepDone.pc = F.pc + 1 /\ StepDone.state = "suspended"
  BY <1>2 DEF SameTask, Fields, StepDone
<1>7. Becomes(StepDone) \/ Becomes(less)
  BY <1>4
<1> HIDE DEF less
<1> QED BY <1>3, <1>5, <1>6, <1>7

LEMMA TriesStep == IInv /\ Tries => IInv'
<1> SUFFICES ASSUME IInv, Tries PROVE IInv'
  OBVIOUS
<1> USE DEF IInv
<1>1. /\ Polling /\ phase = "body" /\ DoesNow("try") /\ phase' \in Phases
      /\ UNCHANGED <<program, outcome>> /\ UNCHANGED <<stack, current, home, blocks>>
  BY DEF Tries, Runs, memoryVars, Structure, Types
<1>2. DOMAIN F = Fields /\ F.state = "suspended"
  BY <1>1, PolledFrame, Working DEF IsFrame
<1>3. ASSUME NEW new, Becomes(new), SameTask(new, F), new.pc = F.pc + 1, new.state = "suspended"
      PROVE  IInv'
  <2>1. Replaced(new)
    BY <1>1, <1>3, BecomesReplaces
  <2> QED BY <1>1, <1>3, <2>1, Advances
<1> DEFINE held == [Learns(<<1>>) EXCEPT
                       !.guards = Append(@, [lock |-> Now.lock, mode |-> Now.mode])]
<1>4. SameTask(held, F) /\ held.pc = F.pc + 1 /\ held.state = "suspended"
  BY <1>2 DEF SameTask, Fields, Learns, StepDone
<1>5. /\ SameTask(Learns(<<0>>), F) /\ Learns(<<0>>).pc = F.pc + 1
      /\ Learns(<<0>>).state = "suspended"
  BY <1>2 DEF SameTask, Fields, Learns, StepDone
<1>6. Becomes(held) \/ Becomes(Learns(<<0>>))
  BY DEF Tries
<1> HIDE DEF held
<1> QED BY <1>3, <1>4, <1>5, <1>6

LEMMA ComputesStep == IInv /\ Computes => IInv'
<1> SUFFICES ASSUME IInv, Computes PROVE IInv'
  OBVIOUS
<1> USE DEF IInv
<1>1. /\ Polling /\ phase = "body" /\ phase' \in Phases
      /\ UNCHANGED <<program, outcome>> /\ UNCHANGED <<stack, current, home, blocks>>
  BY DEF Computes, memoryVars, Structure, Types
<1>2. IsFrame(F) /\ DOMAIN F = Fields
  BY <1>1, PolledFrame DEF IsFrame
<1>3. ASSUME NEW what \in {"load", "learn", "find"}, DoesNow(what), NEW values,
             Becomes(Learns(values))
      PROVE  IInv'
  <2>1. /\ SameTask(Learns(values), F) /\ Learns(values).pc = F.pc + 1
        /\ Learns(values).state = "suspended"
    BY <1>1, <1>2, <1>3, Working DEF SameTask, Fields, Learns, StepDone
  <2>2. Replaced(Learns(values))
    BY <1>1, <1>3, BecomesReplaces
  <2> QED BY <1>1, <1>3, <2>1, <2>2, Advances
<1>4. ASSUME NEW what \in {"sum", "return results", "return", "find"}, DoesNow(what),
             NEW values, Becomes(Returns(values))
      PROVE  IInv'
  <2>1. /\ SameTask(Returns(values), F) /\ Returns(values).pc = Len(F.body) + 1
        /\ Returns(values).state = "suspended"
    BY <1>1, <1>2, <1>4, Working DEF SameTask, Fields, Returns
  <2>2. Replaced(Returns(values))
    BY <1>1, <1>4, BecomesReplaces
  <2> QED BY <1>1, <1>4, <2>1, <2>2, ReturnsEarly
<1>5. ASSUME DoesNow("find"), Becomes(StepDone) PROVE IInv'
  <2>1. SameTask(StepDone, F) /\ StepDone.pc = F.pc + 1 /\ StepDone.state = "suspended"
    BY <1>1, <1>2, <1>5, Working DEF SameTask, Fields, StepDone
  <2>2. Replaced(StepDone)
    BY <1>1, <1>5, BecomesReplaces
  <2> QED BY <1>1, <1>5, <2>1, <2>2, Advances
<1>6. \/ DoesNow("load") /\ Becomes(Learns(<<data[Now.key]>>))
      \/ DoesNow("learn") /\ Becomes(Learns(<<Now.value>>))
      \/ \E sum : DoesNow("sum") /\ Becomes(Returns(<<sum>>))
      \/ DoesNow("return results") /\ Becomes(Returns(F.results))
      \/ DoesNow("return") /\ Becomes(Returns(Now.value))
      \/ DoesNow("find") /\ Becomes(StepDone)
      \/ DoesNow("find") /\ Becomes(Returns(<<data[Now.key]>>))
  BY DEF Computes
<1> QED BY <1>3, <1>4, <1>5, <1>6

LEMMA WritesStep == IInv /\ Writes => IInv'
<1> SUFFICES ASSUME IInv, Writes PROVE IInv'
  OBVIOUS
<1> USE DEF IInv
<1>1. /\ Polling /\ phase = "body" /\ phase' \in Phases /\ Becomes(StepDone)
      /\ UNCHANGED <<program, outcome>> /\ UNCHANGED <<stack, current, home, blocks>>
  BY DEF Writes, memoryVars, Structure, Types
<1>2. PICK what \in {"store next", "set", "say"} : DoesNow(what)
  BY DEF Writes
<1>3. IsFrame(F) /\ DOMAIN F = Fields
  BY <1>1, PolledFrame DEF IsFrame
<1>4. SameTask(StepDone, F) /\ StepDone.pc = F.pc + 1 /\ StepDone.state = "suspended"
  BY <1>1, <1>2, <1>3, Working DEF SameTask, Fields, StepDone
<1>5. Replaced(StepDone)
  BY <1>1, BecomesReplaces
<1> QED BY <1>1, <1>2, <1>4, <1>5, Advances

------------------------------------------------------------------------------
(* The initial states.                                                     *)

LEMMA NewFrame ==
    ASSUME NEW task, NEW allocator, NEW index,
           IsTask(task), allocator \in Scopes, task.bare => allocator = "none", index \in Nat,
           task.body \in Bodies(program.body),
           Bodies(task.body) \subseteq Bodies(program.body)
    PROVE  LET f == Frame(task, allocator, index) IN
           /\ IsFrame(f)
           /\ f.body = task.body /\ f.scope = task.scope /\ f.size = task.size
           /\ f.bare = task.bare /\ f.in = allocator /\ f.index = index
           /\ f.state = "suspended" /\ f.pc = (IF task.bare THEN 1 ELSE 0)
<1> DEFINE f == Frame(task, allocator, index)
<1>1. /\ f.body = task.body /\ f.scope = task.scope /\ f.size = task.size
      /\ f.bare = task.bare /\ f.in = allocator /\ f.index = index
      /\ f.state = "suspended" /\ f.pc = (IF task.bare THEN 1 ELSE 0)
      /\ DOMAIN f = Fields
  BY DEF Frame, Fields
<1> HIDE DEF f
<1>2. f.pc \in 0..(Len(f.body) + 1)
  BY <1>1
<1>3. IsTask(f)
  BY <1>1 DEF IsTask
<1> QED BY <1>1, <1>2, <1>3 DEF IsFrame, f

LEMMA IInvInit == Init => IInv
<1> SUFFICES ASSUME Init PROVE IInv
  OBVIOUS
<1> DEFINE root == Frame(Task(program.body), "default", 0)
<1>1. /\ frames = [p \in {Root} |-> root] /\ stack = <<>> /\ phase = "poll" /\ current = "default"
      /\ home = Nobody /\ blocks = [c \in Classes |-> {}] /\ outcome.over = FALSE
  BY DEF Init
<1>2. IsProgram(program.body)
  <2>1. PICK name \in Families : program \in Family(name, MaxTasks)
    BY DEF Init
  <2> QED BY <2>1, ProgramsAssumption
<1>3. /\ program.body \in Bodies(program.body)
      /\ OwnsItsTasks(program.body)
  BY <1>2 DEF IsProgram
<1>4. /\ IsFrame(root)
      /\ root.body = program.body /\ root.scope = "none" /\ root.bare = FALSE
      /\ root.in = "default" /\ root.state = "suspended" /\ root.pc = 0
  <2> DEFINE task == Task(program.body)
  <2>1. /\ task.body = program.body /\ task.scope = "none" /\ task.bare = FALSE
        /\ task.size = "small"
    BY DEF Task, TaskIn
  <2> HIDE DEF task
  <2>2. IsTask(task)
    BY <2>1 DEF IsTask, Scopes, Classes
  <2>3. "default" \in Scopes /\ 0 \in Nat
    BY DEF Scopes
  <2>4. /\ IsFrame(Frame(task, "default", 0))
        /\ Frame(task, "default", 0).body = task.body
        /\ Frame(task, "default", 0).scope = task.scope
        /\ Frame(task, "default", 0).bare = task.bare
        /\ Frame(task, "default", 0).in = "default"
        /\ Frame(task, "default", 0).state = "suspended"
        /\ Frame(task, "default", 0).pc = (IF task.bare THEN 1 ELSE 0)
    BY <1>3, <2>1, <2>2, <2>3, NewFrame
  <2> QED BY <2>1, <2>4 DEF task
<1> HIDE DEF root
<1>5. DOMAIN frames = {Root} /\ frames[Root] = root
  BY <1>1
<1>6. Root \in Paths /\ Len(Root) = 0 /\ SubSeq(Root, 1, 0) = Root
  <2>1. Root \in Paths /\ Len(Root) = 0
    BY EmptySeq DEF Root, Paths
  <2> QED BY <2>1, Beginnings DEF Root
<1>7. Types
  <2>1. IsFiniteSet(DOMAIN frames)
    BY <1>5, FS_Singleton
  <2>2. stack \in Seq(Entries)
    BY <1>1
  <2> QED BY <1>1, <1>2, <1>4, <1>5, <1>6, <2>1, <2>2 DEF Types, Phases
<1>8. Tree(frames)
  <2>1. \A n \in 0..Len(Root) : n = 0
    BY <1>6
  <2> QED BY <1>5, <1>6, <2>1 DEF Tree
<1>9. Owned(frames, Root)
  <2>1. \A i \in Nat \ {0} : Append(Root, i) \notin DOMAIN frames
    BY <1>5, <1>6, ChildPath
  <2>2. Alive(program.body, 0) = {}
    BY <1>3, NoneAtFirst DEF OwnsItsTasks
  <2> QED BY <1>4, <1>5, <2>1, <2>2 DEF Owned
<1>10. Structure
  <2>1. Ended(Root)
    BY <1>4, <1>5 DEF Ended
  <2>2. ~Polling
    BY <1>1 DEF Polling
  <2> QED BY <1>5, <1>7, <1>8, <1>9, <2>1, <2>2 DEF Structure
<1>11. Guarded
  <2>1. 2..Len(stack) = {}
    BY <1>1
  <2>2. Scope(frames, Root) = "default"
    BY <1>4, <1>5, ScopeOfRoot
  <2>3. ~Polling
    BY <1>1 DEF Polling
  <2> QED BY <1>1, <1>4, <1>5, <2>1, <2>2, <2>3 DEF Guarded
<1>12. SlabLives
  <2>1. CASE HasTheSlab(program.body)
    <3>1. SlabRoot = Root
      BY <2>1 DEF SlabRoot
    <3>2. MakesIt(Root)
      BY <1>1, <1>4, <1>5, <2>1, <3>1 DEF MakesIt
    <3> QED BY <1>1, <1>5, <3>2 DEF SlabLives
  <2>2. CASE ~HasTheSlab(program.body)
    <3>1. Spawner(Root)
      BY <1>1, <1>4, <1>5, <2>2 DEF Spawner
    <3> QED BY <1>1, <1>5, <3>1 DEF SlabLives
  <2> QED BY <2>1, <2>2
<1>13. DOMAIN blocks = Classes /\ BlocksTaken
  <2>1. \A c \in Classes : InSlab(c) = {}
    BY <1>4, <1>5 DEF InSlab
  <2> QED BY <1>1, <2>1 DEF BlocksTaken
<1>14. Failing
  BY <1>1 DEF Failing
<1> QED BY <1>10, <1>11, <1>12, <1>13, <1>14 DEF IInv

LEMMA NextOnPath ==
    ASSUME NEW p \in Paths, NEW n \in Nat, n < Len(p)
    PROVE  p[n + 1] \in Nat \ {0} /\ SubSeq(p, 1, n + 1) = Append(SubSeq(p, 1, n), p[n + 1])
<1>1. Len(p) \in Nat /\ \A i \in 1..Len(p) : p[i] \in Nat \ {0}
  BY LenProperties DEF Paths
<1>2. p[n + 1] \in Nat \ {0} /\ n \in 0..Len(p) /\ n + 1 \in 0..Len(p)
  BY <1>1
<1> DEFINE q == SubSeq(p, 1, n)
           i == p[n + 1]
           r == SubSeq(p, 1, n + 1)
<1>3. q \in Paths /\ Len(q) = n /\ r \in Paths /\ Len(r) = n + 1
  BY <1>2, Beginnings
<1>4. (\A m \in 1..n : q[m] = p[m]) /\ (\A m \in 1..(n + 1) : r[m] = p[m])
  BY <1>1, <1>2, SubSeqProperties DEF Paths
<1>5. i \in Nat \ {0}
  BY <1>2
<1> HIDE DEF q, r
<1>6. /\ Append(q, i) \in Paths /\ Len(Append(q, i)) = n + 1
      /\ \A m \in 1..n : Append(q, i)[m] = q[m]
      /\ Append(q, i)[n + 1] = i
  BY <1>3, <1>5, AppendProperties DEF Paths
<1>7. \A m \in 1..(n + 1) : m \in 1..n \/ m = n + 1
  OBVIOUS
<1>8. \A m \in 1..(n + 1) : Append(q, i)[m] = r[m]
  BY <1>4, <1>6, <1>7
<1>9. r = Append(q, i)
  BY <1>3, <1>6, <1>8, SeqEqual DEF Paths
<1> QED BY <1>2, <1>9 DEF q, r

------------------------------------------------------------------------------
(* Polls and their returns, which leave the frames alone.                  *)

LEMMA SameFrames ==
    ASSUME IInv, UNCHANGED <<program, frames, home, blocks, outcome>>,
           stack' \in Seq(Entries), phase' \in Phases, ~outcome.over,
           \A p \in DOMAIN frames : Ended(p)',
           Polling' => Nesting', Failing',
           current' = IF Polling' THEN Scope(frames, P') ELSE "default",
           \A j \in 2..Len(stack') : Restored(j)'
    PROVE  IInv'
<1> USE DEF IInv
<1>1. \A f : IsFrame(f)' <=> IsFrame(f)
  BY DEF IsFrame
<1>2. Types'
  BY <1>1 DEF Structure, Types
<1>3. Structure'
  <2>1. Tree(frames') /\ \A p \in DOMAIN frames : Owned(frames', p)
    BY DEF Structure
  <2> QED BY <1>2, <2>1 DEF Structure
<1>4. Guarded'
  <2>1. /\ Root \in DOMAIN frames' => frames'[Root].scope = "none"
        /\ \A p \in DOMAIN frames' : frames'[p].bare \/ frames'[p].in = Scope(frames', p)
    BY DEF Guarded
  <2>2. current' = IF Polling' THEN Scope(frames', P') ELSE "default"
    OBVIOUS
  <2> QED BY <2>1, <2>2 DEF Guarded
<1>5. SlabLives'
  <2>1. SlabRoot' = SlabRoot /\ Makers' = Makers
    BY DEF SlabRoot, Makers
  <2>2. \A p : /\ Outside(p)' <=> Outside(p)
               /\ Inside(p)' <=> Inside(p)
               /\ MakesIt(p)' <=> MakesIt(p)
               /\ Spawner(p)' <=> Spawner(p)
    BY <2>1 DEF Outside, Inside, MakesIt, Spawner
  <2> QED BY <2>1, <2>2 DEF SlabLives
<1>6. BlocksTaken' /\ DOMAIN blocks' = Classes
  <2>1. \A c : InSlab(c)' = InSlab(c)
    BY DEF InSlab
  <2> QED BY <2>1 DEF BlocksTaken
<1> QED BY <1>3, <1>4, <1>5, <1>6

LEMMA BlockOnPollsStep == IInv /\ BlockOnPolls => IInv'
<1> SUFFICES ASSUME IInv, BlockOnPolls PROVE IInv'
  OBVIOUS
<1> USE DEF IInv
<1> DEFINE e == Entry(Root, FALSE, "none", "poll")
<1>1. /\ UNCHANGED <<program, frames, home, blocks, outcome>> /\ current' = current
      /\ ~Polling /\ ~outcome.over /\ phase' = "poll" /\ stack' = <<e>>
  BY DEF BlockOnPolls, memoryVars
<1>2. Root \in Paths /\ Len(Root) = 0 /\ SubSeq(Root, 1, 0) = Root
  <2>1. Root \in Paths /\ Len(Root) = 0
    BY EmptySeq DEF Root, Paths
  <2> QED BY <2>1, Beginnings DEF Root
<1>3. e \in Entries /\ e.frame = Root
  BY <1>2 DEF Entry, Entries, Scopes
<1> HIDE DEF e
<1>4. stack' \in Seq(Entries) /\ Len(stack') = 1 /\ DOMAIN stack' = {1} /\ stack'[1] = e
  BY <1>1, <1>3
<1>5. P' = Root /\ Polling' /\ Root \in DOMAIN frames
  BY <1>1, <1>3, <1>4 DEF P, Top, Polling, Structure, Types
<1>6. \A p \in DOMAIN frames : frames[p].state # "failed" /\ Ended(p)
  BY <1>1 DEF Structure, Ended
<1>7. \A p \in DOMAIN frames : Ended(p)'
  BY <1>1, <1>6 DEF Ended
<1>8. Nesting'
  <2>1. F' = frames[Root]
    BY <1>1, <1>5 DEF F
  <2>2. frames[Root].state = "suspended" \/ frames[Root].pc = Len(frames[Root].body) + 1
    BY <1>5, <1>6 DEF Ended
  <2>3. Len(P') = Len(stack') - 1 /\ P' \in DOMAIN frames'
    BY <1>1, <1>2, <1>4, <1>5
  <2>4. \A j \in DOMAIN stack' : j = 1 /\ stack'[j].frame = SubSeq(P', 1, j - 1)
    <3>1. stack'[1].frame = Root /\ SubSeq(P', 1, 0) = Root
      BY <1>2, <1>3, <1>4, <1>5
    <3>2. \A j \in DOMAIN stack' : j = 1 /\ j - 1 = 0
      BY <1>4
    <3> QED BY <3>1, <3>2
  <2>5. \A j \in DOMAIN stack' : ~(j < Len(stack'))
    BY <1>4, <2>4
  <2>6. F'.state = "suspended" \/ (phase' = "poll" /\ F'.pc = Len(F'.body) + 1)
    BY <1>1, <2>1, <2>2
  <2> QED BY <2>3, <2>4, <2>5, <2>6 DEF Nesting
<1>9. current' = IF Polling' THEN Scope(frames, P') ELSE "default"
  BY <1>1, <1>5, ScopeOfRoot DEF Guarded
<1>10. 2..Len(stack') = {} /\ Failing'
  BY <1>1, <1>4 DEF Failing
<1> QED BY <1>1, <1>4, <1>5, <1>7, <1>8, <1>9, <1>10, SameFrames DEF Phases

LEMMA PollReturnsStep == IInv /\ PollReturns => IInv'
<1> SUFFICES ASSUME IInv, PollReturns PROVE IInv'
  OBVIOUS
<1> USE DEF IInv
<1> DEFINE n == Len(stack)
<1>1. /\ UNCHANGED <<program, frames, home, blocks, outcome>>
      /\ Polling /\ phase = "return" /\ P # Root
      /\ stack' = SubSeq(stack, 1, Len(stack) - 1)
      /\ current' = IF Top.restores = "none" THEN current ELSE Top.restores
      /\ phase' = IF F.state = "failed" THEN "failing" ELSE Top.from
  BY DEF PollReturns, memoryVars
<1>2. /\ P \in DOMAIN frames /\ P \in Paths /\ ~outcome.over /\ n \in Nat \ {0} /\ Top \in Entries
      /\ F = frames[P] /\ Len(P) = n - 1 /\ Top = stack[n]
  BY <1>1, PolledFrame DEF Structure, Nesting, F, Top
<1>3. n - 1 \in Nat \ {0}
  <2>1. Len(P) = 0 => P = Root
    BY <1>2, EmptySeq DEF Paths, Root
  <2> QED BY <1>1, <1>2, <2>1
<1>4. /\ stack' \in Seq(Entries) /\ Len(stack') = n - 1 /\ DOMAIN stack' = 1..(n - 1)
      /\ \A j \in 1..(n - 1) : stack'[j] = stack[j]
  <2>1. stack \in Seq(Entries)
    BY DEF Structure, Types
  <2> QED BY <1>1, <1>2, <1>3, <2>1, SubSeqProperties
<1>5. /\ \A j \in 1..n :
            /\ stack[j].frame \in DOMAIN frames
            /\ stack[j].frame = SubSeq(P, 1, j - 1)
            /\ Len(stack[j].frame) = j - 1
            /\ j < n => frames[stack[j].frame].state = "suspended"
      /\ DOMAIN stack = 1..n
  BY <1>1, StackedFrames DEF Structure, Nesting
<1>6. P' = stack[n - 1].frame /\ Polling' /\ F' = frames[P']
  <2>1. P' = stack'[n - 1].frame
    BY <1>4 DEF P, Top
  <2>2. n - 1 \in 1..(n - 1)
    BY <1>3
  <2>3. stack' # <<>>
    BY <1>3, <1>4, EmptySeq
  <2> QED BY <1>1, <1>4, <2>1, <2>2, <2>3 DEF Polling, F
<1> HIDE DEF n
<1>7. /\ P' \in DOMAIN frames /\ Len(P') = n - 2 /\ P' = SubSeq(P, 1, n - 2)
      /\ P' \in Paths /\ F'.state = "suspended"
  <2>1. n - 1 \in 1..n /\ n - 1 < n /\ (n - 1) - 1 = n - 2
    BY <1>2, <1>3
  <2>2. P' \in DOMAIN frames
    BY <1>5, <1>6, <2>1
  <2> QED BY <1>5, <1>6, <2>1, <2>2 DEF Structure, Types
<1>8. P[n - 1] \in Nat \ {0} /\ P = Append(P', P[n - 1])
  <2>1. n - 2 \in Nat /\ n - 2 < Len(P) /\ (n - 2) + 1 = n - 1
    BY <1>2, <1>3
  <2>2. P[n - 1] \in Nat \ {0} /\ SubSeq(P, 1, n - 1) = Append(SubSeq(P, 1, n - 2), P[n - 1])
    BY <1>2, <2>1, NextOnPath
  <2>3. SubSeq(P, 1, n - 1) = P
    BY <1>2, Beginnings
  <2> QED BY <1>7, <2>2, <2>3
<1>9. phase' \in Phases
  BY <1>1, <1>2 DEF Entries, Phases
<1>10. ASSUME NEW p \in DOMAIN frames PROVE Ended(p)'
  <2>1. Ended(p)
    BY DEF Structure
  <2>2. frames[p].state = "failed" => p = P /\ phase' = "failing"
    BY <1>1, <1>2, <2>1 DEF Ended
  <2>3. frames[p].state = "failed" => \E i \in Nat \ {0} : p = Append(P', i)
    BY <1>8, <2>2
  <2> QED BY <1>1, <1>6, <2>1, <2>2, <2>3 DEF Ended
<1>11. Nesting'
  <2>1. \A j \in 1..(n - 1) : stack[j].frame = SubSeq(P', 1, j - 1)
    <3>1. \A j \in 1..(n - 1) : j \in 1..n /\ j - 1 \in 0..(n - 2)
      BY <1>2, <1>3
    <3>2. n - 2 \in 0..Len(P)
      BY <1>2, <1>3
    <3>3. \A m \in 0..(n - 2) : SubSeq(P', 1, m) = SubSeq(P, 1, m)
      BY <1>2, <1>7, <3>2, Beginnings
    <3> QED BY <1>5, <3>1, <3>3
  <2>2. \A j \in 1..(n - 1) : frames[stack[j].frame].state = "suspended"
    <3>1. \A j \in 1..(n - 1) : j \in 1..n /\ j < n
      BY <1>2, <1>3
    <3> QED BY <1>5, <3>1
  <2>3. Len(P') = (n - 1) - 1
    BY <1>2, <1>7
  <2> QED BY <1>1, <1>4, <1>6, <1>7, <2>1, <2>2, <2>3 DEF Nesting
<1>12. current' = Scope(frames, P')
  <2>1. Scope(frames, P) = IF F.scope = "none" THEN Scope(frames, P') ELSE F.scope
    <3>1. P' \in Paths /\ P[n - 1] \in Nat \ {0}
      BY <1>7, <1>8
    <3>2. LET c == Append(P', P[n - 1]) IN
          Scope(frames, c) = IF frames[c].scope = "none" THEN Scope(frames, P')
                             ELSE frames[c].scope
      BY <3>1, ScopeOfChild
    <3>3. F = frames[P]
      BY DEF F
    <3> QED BY <1>8, <3>2, <3>3
  <2>2. current = Scope(frames, P)
    BY <1>1 DEF Guarded
  <2>3. n \in 2..Len(stack) /\ Restored(n)
    BY <1>2, <1>3 DEF n, Guarded
  <2>4. Top.restores = IF F.scope = "none" THEN "none" ELSE Scope(frames, P')
    BY <1>2, <1>6, <2>3 DEF Restored, P
  <2>5. Scope(frames, P') # "none"
    <3>1. \A m \in 0..Len(P') : SubSeq(P', 1, m) \in DOMAIN frames
      BY <1>7 DEF Structure, Tree
    <3>2. \A m \in 0..Len(P') : frames[SubSeq(P', 1, m)].scope \in Scopes
      BY <3>1 DEF Structure, Types, IsFrame, IsTask
    <3> QED BY <1>7, <3>2, ScopeValues
  <2> QED BY <1>1, <2>1, <2>2, <2>4, <2>5
<1>13. ASSUME NEW j \in 2..Len(stack') PROVE Restored(j)'
  <2>1. j \in 2..n /\ j \in 1..(n - 1) /\ j - 1 \in 1..(n - 1)
    BY <1>2, <1>3, <1>4
  <2>2. Restored(j)
    BY <2>1 DEF Guarded, n
  <2> QED BY <1>1, <1>4, <2>1, <2>2 DEF Restored
<1>14. Failing'
  <2>1. Owned(frames, P') /\ IsFrame(F') /\ OwnsItsTasks(F'.body)
    BY <1>6, <1>7 DEF Structure, Types, IsFrame, IsProgram
  <2>2. DOMAIN F'.body = 1..Len(F'.body) /\ Len(F'.body) \in Nat /\ F'.pc \in 0..(Len(F'.body) + 1)
    BY <2>1 DEF OwnsItsTasks, IsFrame
  <2>3. TasksOf(F'.body) # {} /\ (F'.pc <= Len(F'.body) => P[n - 1] \in Alive(F'.body, F'.pc))
    BY <1>2, <1>6, <1>7, <1>8, <2>1 DEF Owned
  <2>4. Len(F'.body) # 0
    BY <2>2, <2>3 DEF TasksOf, StepsOf
  <2>5. F'.pc # 0 /\ (F'.pc <= Len(F'.body) => F'.pc # 1)
    BY <2>2, <2>3, NoneAtFirst
  <2>6. F'.pc > 1
    BY <2>2, <2>4, <2>5
  <2> QED BY <2>6 DEF Failing
<1> QED BY <1>1, <1>2, <1>4, <1>6, <1>9, <1>10, <1>11, <1>12, <1>13, <1>14, SameFrames

LEMMA BlockOnReturnsStep == IInv /\ BlockOnReturns => IInv'
<1> SUFFICES ASSUME IInv, BlockOnReturns PROVE IInv'
  OBVIOUS
<1> USE DEF IInv
<1>1. /\ UNCHANGED <<program, home, blocks, current, phase>> /\ stack' = <<>>
      /\ Polling /\ phase = "return" /\ P = Root
  BY DEF BlockOnReturns, memoryVars
<1>2. /\ Root \in DOMAIN frames /\ ~outcome.over /\ F = frames[Root] /\ current = "default"
  BY <1>1, PolledFrame, ScopeOfRoot DEF F, Guarded
<1>3. ~Polling' /\ stack' \in Seq(Entries) /\ Len(stack') = 0 /\ 2..Len(stack') = {}
  BY <1>1 DEF Polling
<1>4. CASE F.state = "suspended"
  <2>1. UNCHANGED <<frames, outcome>>
    BY <1>4 DEF BlockOnReturns
  <2>2. \A p \in DOMAIN frames : Ended(p)'
    <3>1. \A p \in DOMAIN frames : Ended(p)
      BY DEF Structure
    <3> QED BY <1>1, <1>2, <1>4, <2>1, <3>1 DEF Ended
  <2>3. phase \in Phases /\ Failing'
    BY <1>3 DEF Structure, Types, Failing
  <2> QED BY <1>1, <1>2, <1>3, <2>1, <2>2, <2>3, SameFrames
<1>5. CASE F.state # "suspended"
  <2>1. frames' = <<>> /\ outcome'.over = TRUE
    BY <1>5 DEF BlockOnReturns
  <2>2. DOMAIN frames' = {}
    BY <2>1
  <2>3. Root \in Paths /\ Len(Root) = 0 /\ SubSeq(Root, 1, 0) = Root
    <3>1. Root \in Paths /\ Len(Root) = 0
      BY EmptySeq DEF Root, Paths
    <3> QED BY <3>1, Beginnings DEF Root
  <2>4. ASSUME NEW p \in DOMAIN frames PROVE p = Root
    <3>1. p \in Paths
      BY DEF Structure, Types
    <3>2. CASE Len(p) = 0
      BY <3>1, <3>2, EmptySeq DEF Paths, Root
    <3>3. CASE Len(p) # 0
      <4>1. 0 \in Nat /\ 0 < Len(p) /\ 1 \in 0..Len(p) /\ Len(p) \in Nat /\ 0 + 1 = 1
        BY <3>1, <3>3, Beginnings
      <4>2. p[1] \in Nat \ {0} /\ SubSeq(p, 1, 1) = Append(SubSeq(p, 1, 0), p[1])
        BY <3>1, <4>1, NextOnPath
      <4>3. SubSeq(p, 1, 0) = Root
        BY <3>1, Beginnings DEF Root
      <4>4. Append(Root, p[1]) \in DOMAIN frames
        BY <4>1, <4>2, <4>3 DEF Structure, Tree
      <4>5. Owned(frames, Root)
        BY <1>2 DEF Structure
      <4> QED BY <1>2, <1>5, <4>2, <4>4, <4>5 DEF Owned
    <3> QED BY <3>2, <3>3
  <2>5. \A c \in Classes : InSlab(c) = {}
    <3>1. frames[Root].bare \/ frames[Root].in = "default"
      BY <1>2, ScopeOfRoot DEF Guarded
    <3>2. frames[Root].bare => frames[Root].in = "none"
      BY <1>2 DEF Structure, Types, IsFrame
    <3> QED BY <2>4, <3>1, <3>2 DEF InSlab
  <2>6. Structure'
    <3>1. IsFiniteSet(DOMAIN frames')
      BY <2>2, FS_EmptySet
    <3>2. Types'
      BY <1>1, <1>3, <2>1, <2>2, <3>1 DEF Structure, Types
    <3> QED BY <1>3, <2>2, <3>2 DEF Structure, Tree
  <2>7. Guarded'
    BY <1>1, <1>2, <1>3, <2>2 DEF Guarded
  <2>8. SlabLives'
    <3>1. SlabRoot' = SlabRoot
      BY <1>1 DEF SlabRoot, Makers
    <3> QED BY <1>1, <2>2, <3>1 DEF SlabLives
  <2>9. DOMAIN blocks' = Classes /\ BlocksTaken'
    <3>1. \A c \in Classes : InSlab(c)' = {}
      BY <2>2 DEF InSlab
    <3> QED BY <1>1, <2>5, <3>1 DEF BlocksTaken
  <2>10. Failing'
    BY <1>3 DEF Failing
  <2> QED BY <2>6, <2>7, <2>8, <2>9, <2>10
<1> QED BY <1>4, <1>5

------------------------------------------------------------------------------
(* Polls of children.                                                      *)

\* What the body can poll is there.
LEMMA AliveChild ==
    ASSUME Structure, Polling, F.state = "suspended", F.pc <= Len(F.body),
           NEW i \in Alive(F.body, F.pc)
    PROVE  i \in Nat \ {0} /\ Child(i) \in DOMAIN frames
<1>1. P \in DOMAIN frames /\ OwnsItsTasks(F.body) /\ F = frames[P]
  BY PolledFrame DEF F
<1>2. i \in Nat \ {0}
  BY <1>1 DEF Alive, OwnsItsTasks
<1>3. Owned(frames, P)
  BY <1>1 DEF Structure
<1> QED BY <1>1, <1>2, <1>3 DEF Owned, Child

LEMMA PushStep ==
    ASSUME IInv, Polling, phase \in {"poll", "body"}, F.state = "suspended",
           NEW new, Replaced(new), MovesOn(new), new.state = "suspended",
           UNCHANGED <<home, blocks>>,
           F.pc <= 1 /\ new.pc > 1 => DoesNow(Now.do) /\ Now.do # "slab",
           NEW i \in Alive(F.body, F.pc), NEW quiet \in BOOLEAN,
           NEW polling \in Seq(Entries), Len(polling) = Len(stack),
           \A j \in 1..Len(stack) : /\ polling[j].frame = stack[j].frame
                                    /\ polling[j].restores = stack[j].restores,
           Push(i, quiet, polling)
    PROVE  IInv'
<1> USE DEF IInv
<1> DEFINE n == Len(stack)
           c == Child(i)
           scope == frames[c].scope
           e == Entry(c, quiet, IF scope = "none" THEN "none" ELSE current, phase)
<1>1. /\ P \in DOMAIN frames /\ P \in Paths /\ ~outcome.over /\ n \in Nat \ {0}
      /\ Root \in DOMAIN frames /\ F = frames[P] /\ Len(F.body) \in Nat
  BY PolledFrame DEF F
<1>2. i \in Nat \ {0} /\ c \in DOMAIN frames
  <2>1. F.pc <= Len(F.body)
    BY DEF MovesOn
  <2> QED BY <2>1, AliveChild
<1>3. /\ c \in Paths /\ Len(c) = Len(P) + 1 /\ c # P /\ SubSeq(c, 1, Len(P) + 1) = c
      /\ \A m \in 0..Len(P) : SubSeq(c, 1, m) = SubSeq(P, 1, m)
  BY <1>1, <1>2, ChildPath DEF Child
<1>4. Len(P) = n - 1
  BY DEF Structure, Nesting
<1>5. /\ program' = program /\ outcome' = outcome /\ DOMAIN frames' = DOMAIN frames
      /\ \A q \in DOMAIN frames : q # P => frames'[q] = frames[q]
      /\ frames'[P] = new
  BY DEF Replaced
<1>6. /\ Tree(frames')
      /\ \A p \in DOMAIN frames' :
            /\ p \in Paths /\ IsFrame(frames'[p])
            /\ Owned(frames', p)
            /\ frames'[p].state \in {"suspended", "done"}
            /\ frames'[p].state = "done" => frames'[p].pc = Len(frames'[p].body) + 1
  BY FramesInPlace
<1>7. \A q \in DOMAIN frames : /\ frames'[q].scope = frames[q].scope
                               /\ frames'[q].bare = frames[q].bare
                               /\ frames'[q].in = frames[q].in
  BY <1>1, <1>5 DEF MovesOn, SameTask
<1>8. \A q \in DOMAIN frames : Scope(frames', q) = Scope(frames, q)
  BY <1>5, <1>6, <1>7, ScopesKept
<1>9. current = Scope(frames, P) /\ current \in Scopes
  <2>1. current = Scope(frames, P)
    BY DEF Guarded
  <2>2. \A m \in 0..Len(P) : SubSeq(P, 1, m) \in DOMAIN frames
    BY <1>1 DEF Structure, Tree
  <2>3. \A m \in 0..Len(P) : frames[SubSeq(P, 1, m)].scope \in Scopes
    BY <2>2 DEF Structure, Types, IsFrame, IsTask
  <2> QED BY <1>1, <2>1, <2>3, ScopeValues DEF Scopes
<1>10. /\ e \in Entries /\ e.frame = c
       /\ e.restores = IF scope = "none" THEN "none" ELSE current
  BY <1>3, <1>9 DEF Entry, Entries, Scopes
<1>11. /\ stack' = Append(polling, e) /\ phase' = "poll"
       /\ current' = IF scope = "none" THEN current ELSE scope
  BY DEF Push
<1> HIDE DEF e, c
<1>12. /\ stack' \in Seq(Entries) /\ Len(stack') = n + 1 /\ DOMAIN stack' = 1..(n + 1)
       /\ \A j \in 1..n : /\ stack'[j].frame = stack[j].frame
                          /\ stack'[j].restores = stack[j].restores
       /\ stack'[n + 1] = e
  <2>1. /\ stack' \in Seq(Entries) /\ Len(stack') = n + 1
        /\ \A j \in 1..n : stack'[j] = polling[j]
        /\ stack'[n + 1] = e
    BY <1>10, <1>11, AppendProperties
  <2>2. DOMAIN stack' = 1..(n + 1)
    BY <2>1, LenProperties
  <2> QED BY <2>1, <2>2
<1>13. P' = c /\ Polling' /\ F' = frames[c]
  <2>1. stack' # <<>>
    BY <1>1, <1>12, EmptySeq
  <2>2. P' = c
    BY <1>10, <1>12 DEF P, Top
  <2> QED BY <1>2, <1>3, <1>5, <2>1, <2>2 DEF Polling, F
<1>14. \A j \in 1..n : /\ stack[j].frame \in DOMAIN frames
                       /\ stack[j].frame = SubSeq(P, 1, j - 1)
  BY StackedFrames
<1>15. Types'
  <2>1. \A f : IsFrame(f)' <=> IsFrame(f)
    BY <1>5 DEF IsFrame
  <2> QED BY <1>1, <1>5, <1>6, <1>11, <1>12, <2>1 DEF Structure, Types, Phases
<1>16. Nesting'
  <2>1. \A j \in 1..(n + 1) : j \in 1..n \/ j = n + 1
    BY <1>1
  <2>2. \A j \in 1..n : stack'[j].frame = SubSeq(c, 1, j - 1)
    <3>1. \A j \in 1..n : j - 1 \in 0..Len(P)
      BY <1>1, <1>4
    <3> QED BY <1>3, <1>12, <1>14, <3>1
  <2>3. stack'[n + 1].frame = SubSeq(c, 1, (n + 1) - 1)
    <3>1. (n + 1) - 1 = Len(P) + 1
      BY <1>1, <1>4
    <3> QED BY <1>3, <1>10, <1>12, <3>1
  <2>4. \A j \in 1..n : frames'[stack'[j].frame].state = "suspended"
    <3>1. \A j \in 1..n : stack[j].frame # P => frames[stack[j].frame].state = "suspended"
      <4>1. \A j \in 1..n : stack[j].frame # P => j < n
        <5>1. stack[n].frame = P
          BY DEF P, Top
        <5> QED BY <1>1, <5>1
      <4>2. DOMAIN stack = 1..n
        BY LenProperties DEF Structure, Types
      <4> QED BY <4>1, <4>2 DEF Structure, Nesting
    <3>2. \A j \in 1..n : /\ stack'[j].frame = stack[j].frame
                           /\ stack[j].frame \in DOMAIN frames
      BY <1>12, <1>14
    <3> QED BY <1>5, <3>1, <3>2
  <2>5. frames[c].state = "suspended" \/ frames[c].pc = Len(frames[c].body) + 1
    <3>1. frames'[c] = frames[c]
      BY <1>2, <1>3, <1>5
    <3> QED BY <1>2, <1>5, <1>6, <3>1
  <2>6. Len(P') = Len(stack') - 1 /\ P' \in DOMAIN frames'
    BY <1>1, <1>2, <1>3, <1>4, <1>5, <1>12, <1>13
  <2>7. \A j \in DOMAIN stack' : stack'[j].frame = SubSeq(P', 1, j - 1)
    BY <1>12, <1>13, <2>1, <2>2, <2>3
  <2>8. \A j \in DOMAIN stack' : j < Len(stack') => frames'[stack'[j].frame].state = "suspended"
    <3>1. \A j \in 1..(n + 1) : j < n + 1 => j \in 1..n
      BY <1>1
    <3> QED BY <1>12, <2>4, <3>1
  <2>9. F'.state = "suspended" \/ (phase' = "poll" /\ F'.pc = Len(F'.body) + 1)
    BY <1>11, <1>13, <2>5
  <2> QED BY <2>6, <2>7, <2>8, <2>9 DEF Nesting
<1>17. Structure'
  <2>1. \A p \in DOMAIN frames' : Ended(p)'
    BY <1>6 DEF Ended
  <2> QED BY <1>6, <1>15, <1>16, <2>1 DEF Structure
<1>18. Guarded'
  <2>1. Scope(frames, c) = IF scope = "none" THEN Scope(frames, P) ELSE scope
    BY <1>1, <1>2, ScopeOfChild DEF c, Child
  <2>2. current' = Scope(frames', P')
    BY <1>2, <1>8, <1>9, <1>11, <1>13, <2>1
  <2>3. ASSUME NEW j \in 2..n PROVE Restored(j)'
    <3>1. j \in 1..n /\ j - 1 \in 1..n
      BY <1>1
    <3>2. Restored(j)
      BY DEF Guarded
    <3> QED BY <1>7, <1>8, <1>12, <1>14, <3>1, <3>2 DEF Restored
  <2>4. ASSUME NEW j, j = n + 1 PROVE Restored(j)'
    <3>1. (n + 1) - 1 = n /\ n \in 1..n
      BY <1>1
    <3>2. stack'[n].frame = P
      BY <1>12, <3>1 DEF P, Top
    <3>3. stack'[n + 1].frame = c
      BY <1>10, <1>12
    <3>4. /\ stack'[n + 1].restores = IF scope = "none" THEN "none" ELSE current
          /\ frames'[c].scope = scope
      BY <1>2, <1>7, <1>10, <1>12
    <3>5. Scope(frames', P) = current
      BY <1>1, <1>8, <1>9
    <3>6. stack'[(n + 1) - 1].frame = P
      BY <3>1, <3>2
    <3>7. stack'[n + 1].restores =
             IF frames'[stack'[n + 1].frame].scope = "none" THEN "none"
             ELSE Scope(frames', stack'[(n + 1) - 1].frame)
      BY <3>3, <3>4, <3>5, <3>6
    <3> QED BY <2>4, <3>7 DEF Restored
  <2>5. \A j \in 2..Len(stack') : j \in 2..n \/ j = n + 1
    BY <1>1, <1>12
  <2>6. Root \in DOMAIN frames' => frames'[Root].scope = "none"
    BY <1>1, <1>7 DEF Guarded
  <2>7. \A p \in DOMAIN frames' : frames'[p].bare \/ frames'[p].in = Scope(frames', p)
    BY <1>5, <1>7, <1>8 DEF Guarded
  <2>8. \A j \in 2..Len(stack') : Restored(j)'
    BY <2>3, <2>4, <2>5
  <2>9. current' = IF Polling' THEN Scope(frames', P') ELSE "default"
    BY <1>13, <2>2
  <2> QED BY <2>6, <2>7, <2>8, <2>9 DEF Guarded
<1>19. SlabLives' /\ BlocksTaken'
  BY <1>17, SlabInPlace
<1>20. Failing'
  BY <1>11 DEF Failing
<1> QED BY <1>17, <1>18, <1>19, <1>20

LEMMA PollsOnceStep == IInv /\ PollsOnce => IInv'
<1> SUFFICES ASSUME IInv, PollsOnce PROVE IInv'
  OBVIOUS
<1> USE DEF IInv
<1>1. /\ Polling /\ phase = "body" /\ DoesNow("poll") /\ Becomes(StepDone)
      /\ Push(Now.child, TRUE, stack)
      /\ UNCHANGED <<program, outcome>> /\ UNCHANGED <<home, blocks>>
  BY DEF PollsOnce, Runs, memoryVars
<1>2. /\ F.state = "suspended" /\ F.pc \in 1..Len(F.body) /\ F.pc \in DOMAIN F.body
      /\ Now.do = "poll" /\ DoesNow(Now.do)
  BY <1>1, Working
<1>3. /\ IsFrame(F) /\ DOMAIN F = Fields /\ Len(F.body) \in Nat /\ DOMAIN F.body = 1..Len(F.body)
      /\ OwnsItsTasks(F.body)
  BY <1>1, PolledFrame DEF IsFrame
<1>4. SameTask(StepDone, F) /\ StepDone.pc = F.pc + 1 /\ StepDone.state = "suspended"
  BY <1>2, <1>3 DEF SameTask, Fields, StepDone
<1>5. Replaced(StepDone)
  BY <1>1, BecomesReplaces
<1>6. Alive(F.body, F.pc + 1) = Alive(F.body, F.pc)
  BY <1>2, <1>3, AliveAfter DEF Now
<1>7. phase' \in Phases
  BY <1>1 DEF Push, Phases
<1>8. MovesOn(StepDone)
  BY <1>2, <1>3, <1>4, <1>6, <1>7 DEF MovesOn
<1>9. Now.child \in Alive(F.body, F.pc)
  BY <1>2, <1>3 DEF OwnsItsTasks, StepsOf, Now
<1>10. stack \in Seq(Entries)
  BY DEF Structure, Types
<1> QED BY <1>1, <1>2, <1>4, <1>5, <1>8, <1>9, <1>10, PushStep

LEMMA PollChildStep == IInv /\ PollChild => IInv'
<1> SUFFICES ASSUME IInv, PollChild PROVE IInv'
  OBVIOUS
<1> USE DEF IInv
<1> DEFINE n == Len(stack)
<1>1. /\ Polling /\ phase = "poll" /\ DoesNow("join") /\ Top.next <= Len(Joined)
      /\ UNCHANGED <<program, outcome>> /\ UNCHANGED <<home, blocks>> /\ frames' = frames
      /\ \/ Push(Joined[Top.next], Top.quiet, NextPolled)
         \/ stack' = NextPolled /\ UNCHANGED <<current, phase>>
  BY DEF PollChild, Polls, memoryVars
<1>2. /\ F.state = "suspended" /\ F.pc \in 1..Len(F.body) /\ F.pc \in DOMAIN F.body
      /\ Now.do = "join" /\ DoesNow(Now.do)
  BY <1>1, Working
<1>3. /\ IsFrame(F) /\ DOMAIN F = Fields /\ Len(F.body) \in Nat /\ OwnsItsTasks(F.body)
      /\ Top \in Entries /\ n \in Nat \ {0} /\ Top = stack[n] /\ ~outcome.over
      /\ P \in DOMAIN frames /\ F = frames[P]
  BY <1>1, PolledFrame DEF IsFrame, Top, F
<1>4. Joined[Top.next] \in Alive(F.body, F.pc)
  <2>1. /\ DOMAIN Now.children = 1..Len(Now.children)
        /\ Range(Now.children) \subseteq Alive(F.body, F.pc)
    BY <1>2, <1>3 DEF OwnsItsTasks, StepsOf, Now
  <2>2. Top.next \in 1..Len(Joined)
    BY <1>1, <1>3 DEF Entries
  <2> QED BY <2>1, <2>2 DEF Joined, Range
<1>5. /\ NextPolled \in Seq(Entries) /\ Len(NextPolled) = n
      /\ \A j \in 1..n : /\ NextPolled[j].frame = stack[j].frame
                         /\ NextPolled[j].restores = stack[j].restores
  <2>1. stack \in Seq(Entries) /\ DOMAIN stack = 1..n /\ \A j \in 1..n : stack[j] \in Entries
    BY LenProperties DEF Structure, Types
  <2>2. n \in 1..n /\ [stack[n] EXCEPT !.next = @ + 1] \in Entries
    BY <1>3 DEF Entries
  <2>3. NextPolled = [stack EXCEPT ![n] = [stack[n] EXCEPT !.next = @ + 1]]
    BY DEF NextPolled
  <2>4. /\ NextPolled \in Seq(Entries) /\ Len(NextPolled) = n
        /\ \A j \in 1..n : NextPolled[j] =
              IF j = n THEN [stack[n] EXCEPT !.next = @ + 1] ELSE stack[j]
    BY <2>1, <2>2, <2>3, ExceptSeq
  <2>5. /\ [stack[n] EXCEPT !.next = @ + 1].frame = stack[n].frame
        /\ [stack[n] EXCEPT !.next = @ + 1].restores = stack[n].restores
    BY <2>1, <2>2 DEF Entries
  <2> QED BY <2>4, <2>5
<1> HIDE DEF NextPolled
<1>6. CASE Push(Joined[Top.next], Top.quiet, NextPolled)
  <2>1. phase' \in Phases /\ phase' = "poll"
    BY <1>6 DEF Push, Phases
  <2>2. SameTask(F, F)
    BY <1>3 DEF SameTask
  <2>3. Replaced(F)
    BY <1>1, BecomesReplaces
  <2>4. MovesOn(F)
    BY <1>2, <1>3, <2>1, <2>2 DEF MovesOn
  <2>5. Top.quiet \in BOOLEAN
    BY <1>3 DEF Entries
  <2>6. ~(F.pc <= 1 /\ F.pc > 1)
    BY <1>2
  <2> QED BY <1>1, <1>2, <1>4, <1>5, <1>6, <2>3, <2>4, <2>5, <2>6, PushStep
<1>7. CASE stack' = NextPolled /\ UNCHANGED <<current, phase>>
  <2>1. stack' \in Seq(Entries) /\ Len(stack') = n /\ DOMAIN stack' = 1..n /\ DOMAIN stack = 1..n
    BY <1>5, <1>7, LenProperties DEF Structure, Types
  <2>2. P' = P /\ Polling' /\ F' = F
    <3>1. stack' # <<>>
      BY <1>3, <2>1, EmptySeq
    <3>2. stack'[n].frame = stack[n].frame
      BY <1>3, <1>5, <1>7
    <3> QED BY <1>1, <1>3, <2>1, <3>1, <3>2 DEF P, Top, F, Polling
  <2>3. \A j \in 1..n : /\ stack'[j].frame = stack[j].frame
                        /\ stack'[j].restores = stack[j].restores
    BY <1>5, <1>7
  <2>4. Nesting'
    BY <1>1, <1>3, <1>7, <2>1, <2>2, <2>3 DEF Structure, Nesting
  <2>5. \A p \in DOMAIN frames : Ended(p)'
    BY <1>1, <1>7, <2>2 DEF Structure, Ended
  <2>6. ASSUME NEW j \in 2..n PROVE Restored(j)'
    <3>1. j \in 1..n /\ j - 1 \in 1..n
      BY <1>3
    <3>2. Restored(j)
      BY DEF Guarded
    <3> QED BY <1>1, <2>3, <3>1, <3>2 DEF Restored
  <2>7. current' = Scope(frames, P')
    BY <1>1, <1>7, <2>2 DEF Guarded
  <2>8. phase' \in Phases /\ Failing'
    BY <1>1, <1>7 DEF Structure, Types, Failing
  <2> QED BY <1>1, <1>3, <2>1, <2>2, <2>4, <2>5, <2>6, <2>7, <2>8, SameFrames
<1> QED BY <1>1, <1>6, <1>7

------------------------------------------------------------------------------
(* Frames that are destroyed, with all that are awaited in them.           *)

\* The children in I of the frame that is polled, and what is below them.
Gone(I) ==
    {q \in DOMAIN frames : /\ Len(P) < Len(q)
                           /\ SubSeq(q, 1, Len(P)) = P
                           /\ q[Len(P) + 1] \in I}

\* What is at or below a child.
LEMMA FromChild ==
    ASSUME NEW p \in Paths, NEW q \in Paths, NEW i \in Nat \ {0}
    PROVE  q = Append(p, i) \/ IsStrictPrefix(Append(p, i), q)
              <=> Len(p) < Len(q) /\ SubSeq(q, 1, Len(p)) = p /\ q[Len(p) + 1] = i
<1> DEFINE c == Append(p, i)
<1>1. /\ c \in Paths /\ Len(c) = Len(p) + 1 /\ SubSeq(c, 1, Len(p)) = p /\ c[Len(p) + 1] = i
      /\ SubSeq(c, 1, Len(p) + 1) = c
      /\ Len(p) \in Nat /\ Len(q) \in Nat /\ SubSeq(q, 1, Len(q)) = q
      /\ \A r \in Paths, j \in Nat \ {0} : Append(r, j) = c => r = p /\ j = i
  <2>1. c[Len(p) + 1] = i
    BY AppendProperties DEF Paths
  <2> QED BY <2>1, ChildPath, Beginnings
<1>2. q = c \/ IsStrictPrefix(c, q) <=> Len(p) < Len(q) /\ SubSeq(q, 1, Len(p) + 1) = c
  <2>1. IsStrictPrefix(c, q) <=> Len(c) < Len(q) /\ SubSeq(q, 1, Len(c)) = c
    BY <1>1, StrictPrefix
  <2>2. Len(q) = Len(p) + 1 => SubSeq(q, 1, Len(p) + 1) = q
    BY <1>1
  <2>3. Len(c) = Len(p) + 1 /\ SubSeq(c, 1, Len(p) + 1) = c /\ Len(p) \in Nat /\ Len(q) \in Nat
    BY <1>1
  <2> HIDE DEF c
  <2>4. CASE Len(q) = Len(p) + 1
    BY <2>1, <2>2, <2>3, <2>4
  <2>5. CASE Len(q) # Len(p) + 1
    BY <2>1, <2>3, <2>5
  <2> QED BY <2>4, <2>5
<1>3. ASSUME Len(p) < Len(q)
      PROVE  /\ SubSeq(q, 1, Len(p) + 1) = Append(SubSeq(q, 1, Len(p)), q[Len(p) + 1])
             /\ SubSeq(q, 1, Len(p)) \in Paths /\ q[Len(p) + 1] \in Nat \ {0}
  <2>1. Len(p) \in 0..Len(q)
    BY <1>1, <1>3
  <2> QED BY <1>1, <1>3, <2>1, NextOnPath, Beginnings
<1>4. ASSUME Len(p) < Len(q)
      PROVE  SubSeq(q, 1, Len(p) + 1) = c <=> SubSeq(q, 1, Len(p)) = p /\ q[Len(p) + 1] = i
  BY <1>1, <1>3, <1>4
<1> QED BY <1>2, <1>4

LEMMA NobodyIsNoPath == Nobody \notin Paths
<1>1. Len(Nobody) = 1 /\ Nobody[1] = 0
  BY DEF Nobody
<1>2. \A p \in Seq(Nat \ {0}) : Len(p) = 1 => p[1] \in Nat \ {0}
  BY ElementOfSeq
<1> QED BY <1>1, <1>2 DEF Paths

\* Whole branches go, of children of the polled frame.
LEMMA Branches ==
    ASSUME Structure, Polling, NEW I \in SUBSET (Nat \ {0})
    PROVE  /\ \A q \in DOMAIN frames : q \in Paths
           /\ P \notin Gone(I)
           /\ \A q \in DOMAIN frames : \A n \in 0..Len(q) :
                 SubSeq(q, 1, n) \in Gone(I) => q \in Gone(I)
           /\ \A n \in 0..Len(P) : SubSeq(P, 1, n) \notin Gone(I)
           /\ \A q \in DOMAIN frames : \A i \in Nat \ {0} :
                 Append(q, i) \in Gone(I) => q \in Gone(I) \/ (q = P /\ i \in I)
           /\ \A i \in I : Child(i) \in DOMAIN frames => Child(i) \in Gone(I)
<1>1. P \in DOMAIN frames /\ P \in Paths /\ Len(P) \in Nat
  BY PolledFrame, Beginnings
<1>2. ASSUME NEW q \in DOMAIN frames PROVE q \in Paths /\ Len(q) \in Nat
  BY <1>2, Beginnings DEF Structure, Types
<1>3. P \notin Gone(I)
  BY <1>1 DEF Gone
<1>4. ASSUME NEW q \in DOMAIN frames, NEW n \in 0..Len(q), SubSeq(q, 1, n) \in Gone(I)
      PROVE  q \in Gone(I)
  <2> DEFINE b == SubSeq(q, 1, n)
  <2>1. b \in Paths /\ Len(b) = n /\ \A m \in 0..n : SubSeq(b, 1, m) = SubSeq(q, 1, m)
    BY <1>2, Beginnings
  <2>2. \A m \in 1..n : b[m] = q[m]
    BY <1>2, SubSeqProperties DEF Paths
  <2>3. Len(P) < Len(b) /\ SubSeq(b, 1, Len(P)) = P /\ b[Len(P) + 1] \in I
    BY <1>4 DEF Gone
  <2> HIDE DEF b
  <2>4. Len(P) \in 0..n /\ Len(P) + 1 \in 1..n /\ Len(P) < Len(q)
    BY <1>1, <1>2, <2>1, <2>3
  <2> QED BY <2>1, <2>2, <2>3, <2>4 DEF Gone
<1>5. \A n \in 0..Len(P) : SubSeq(P, 1, n) \notin Gone(I)
  BY <1>1, <1>3, <1>4
<1>6. ASSUME NEW q \in DOMAIN frames, NEW i \in Nat \ {0}, Append(q, i) \in Gone(I)
      PROVE  q \in Gone(I) \/ (q = P /\ i \in I)
  <2> DEFINE c == Append(q, i)
  <2>1. /\ c \in Paths /\ Len(c) = Len(q) + 1 /\ \A m \in 0..Len(q) : SubSeq(c, 1, m) = SubSeq(q, 1, m)
        /\ SubSeq(q, 1, Len(q)) = q /\ Len(q) \in Nat
    BY <1>2, ChildPath, Beginnings
  <2>2. /\ \A m \in 1..Len(q) : c[m] = q[m]
        /\ c[Len(q) + 1] = i
    BY <1>2, AppendProperties DEF Paths
  <2>3. Len(P) < Len(c) /\ SubSeq(c, 1, Len(P)) = P /\ c[Len(P) + 1] \in I
    BY <1>6 DEF Gone
  <2> HIDE DEF c
  <2>4. CASE Len(P) = Len(q)
    <3>1. Len(q) \in 0..Len(q)
      BY <2>1
    <3> QED BY <2>1, <2>2, <2>3, <2>4, <3>1
  <2>5. CASE Len(P) # Len(q)
    <3>1. Len(P) < Len(q)
      <4>1. Len(P) \in Nat /\ Len(q) \in Nat /\ Len(P) < Len(q) + 1
        BY <1>1, <2>1, <2>3
      <4> QED BY <2>5, <4>1
    <3>2. Len(P) \in 0..Len(q) /\ Len(P) + 1 \in 1..Len(q)
      BY <1>1, <2>1, <3>1
    <3> QED BY <2>1, <2>2, <2>3, <3>1, <3>2 DEF Gone
  <2> QED BY <2>4, <2>5
<1>7. ASSUME NEW i \in I, Child(i) \in DOMAIN frames
      PROVE  Child(i) \in Gone(I)
  BY <1>1, <1>2, <1>7, FromChild DEF Gone, Child
<1> QED BY <1>2, <1>3, <1>4, <1>5, <1>6, <1>7

LEMMA DestroyStep ==
    ASSUME IInv, Polling, F.state = "suspended", phase # "return",
           NEW I \in SUBSET (Nat \ {0}), phase = "failing" => I = Nat \ {0},
           NEW new, NEW ls, Destroy(Gone(I), new, ls), SameTask(new, F),
           F.pc <= new.pc, new.pc \in 0..(Len(F.body) + 1),
           new.state \in {"suspended", "done", "failed"},
           new.state = "suspended" /\ new.pc <= Len(F.body) =>
              \A i \in Nat \ {0} : Child(i) \in DOMAIN frames /\ i \notin I
                                      <=> i \in Alive(F.body, new.pc),
           new.state # "suspended" => I = Nat \ {0} /\ phase' = "return",
           new.state = "done" => new.pc = Len(F.body) + 1,
           new.state = "suspended" /\ new.pc > 1 =>
              F.pc > 1 \/ (F.pc = 1 /\ F.body[1].do # "slab"),
           phase' \in Phases, phase' # "failing",
           UNCHANGED <<program, outcome, stack, current>>,
           home' = home \/ (home = P /\ home' = Nobody /\ I = Nat \ {0} /\ new.state # "suspended")
    PROVE  IInv'
<1> USE DEF IInv
<1> DEFINE S == Gone(I)
<1>1. /\ P \in DOMAIN frames /\ P \in Paths /\ ~outcome.over /\ Root \in DOMAIN frames
      /\ IsFrame(F) /\ F = frames[P] /\ Len(F.body) \in Nat
      /\ \A q \in DOMAIN frames : q \in Paths /\ IsFrame(frames[q])
  BY PolledFrame DEF F, Structure, Types
<1>2. /\ P \notin S
      /\ \A q \in DOMAIN frames : \A n \in 0..Len(q) : SubSeq(q, 1, n) \in S => q \in S
      /\ \A n \in 0..Len(P) : SubSeq(P, 1, n) \notin S
      /\ \A q \in DOMAIN frames : \A i \in Nat \ {0} :
            Append(q, i) \in S => q \in S \/ (q = P /\ i \in I)
      /\ \A i \in I : Child(i) \in DOMAIN frames => Child(i) \in S
  BY Branches
<1>3. Root \notin S
  <2>1. SubSeq(P, 1, 0) = Root /\ 0 \in 0..Len(P)
    BY <1>1, Beginnings DEF Root
  <2> QED BY <1>2, <2>1
<1>4. S \subseteq DOMAIN frames
  BY DEF Gone
<1> HIDE DEF S
<1>5. /\ DOMAIN frames' = DOMAIN frames \ S
      /\ frames'[P] = new
      /\ \A q \in DOMAIN frames \ S : q # P => frames'[q] = frames[q]
      /\ blocks' = Freed(S)
  <2>1. /\ frames' = [q \in DOMAIN frames \ S |-> IF q = P THEN new ELSE frames[q]]
        /\ blocks' = Freed(S)
    BY DEF Destroy, S
  <2> QED BY <1>1, <1>2, <2>1
<1>6. P' = P /\ Polling' /\ F' = new
  BY <1>5 DEF P, Top, F, Polling
<1>7. \A q \in DOMAIN frames \ S : SameTask(frames'[q], frames[q])
  BY <1>1, <1>5 DEF SameTask, IsFrame
<1>8. new.body = F.body /\ IsFrame(new)
  BY <1>1, SameIsFrame DEF SameTask
<1>9. Types'
  <2>1. \A f : IsFrame(f)' <=> IsFrame(f)
    BY DEF IsFrame
  <2>2. IsFiniteSet(DOMAIN frames')
    <3>1. IsFiniteSet(DOMAIN frames)
      BY DEF Structure, Types
    <3>2. IsFiniteSet(DOMAIN frames \ S)
      BY <3>1, FS_Difference
    <3> QED BY <1>5, <3>2
  <2>3. \A p \in DOMAIN frames' : p \in Paths /\ IsFrame(frames'[p])
    BY <1>1, <1>5, <1>8
  <2> QED BY <1>1, <1>3, <1>5, <2>1, <2>2, <2>3 DEF Structure, Types
<1>10. Tree(frames')
  <2> SUFFICES ASSUME NEW p \in DOMAIN frames', NEW n \in 0..Len(p)
               PROVE  SubSeq(p, 1, n) \in DOMAIN frames'
    BY DEF Tree
  <2>1. p \in DOMAIN frames /\ p \notin S /\ SubSeq(p, 1, n) \in DOMAIN frames
    BY <1>5 DEF Structure, Tree
  <2> QED BY <1>2, <1>5, <2>1
<1>11. ASSUME NEW p \in DOMAIN frames' PROVE Owned(frames', p)
  <2>1. p \in DOMAIN frames \ S /\ Owned(frames, p)
    BY <1>5 DEF Structure
  <2>2. CASE p # P
    <3>1. \A i \in Nat \ {0} : Append(p, i) \in DOMAIN frames' <=> Append(p, i) \in DOMAIN frames
      BY <1>2, <1>5, <2>1, <2>2
    <3> QED BY <1>5, <2>1, <2>2, <3>1 DEF Owned
  <2>3. CASE p = P
    <3>1. \A i \in Nat \ {0} : Append(P, i) \in DOMAIN frames'
                                  <=> Child(i) \in DOMAIN frames /\ i \notin I
      BY <1>1, <1>2, <1>5 DEF Child
    <3>2. TasksOf(F.body) = {} => \A i \in Nat \ {0} : Append(P, i) \notin DOMAIN frames
      BY <1>1, <2>1, <2>3 DEF Owned
    <3>3. frames'[p] = new
      BY <1>5, <2>3
    <3> QED BY <1>8, <2>3, <3>1, <3>2, <3>3 DEF Owned, Child
  <2> QED BY <2>2, <2>3
<1>12. ASSUME NEW p \in DOMAIN frames' PROVE Ended(p)'
  <2>1. p \in DOMAIN frames \ S /\ Ended(p)
    BY <1>5 DEF Structure
  <2>2. CASE p # P
    <3>1. frames[p].state # "failed"
      <4> SUFFICES ASSUME frames[p].state = "failed" PROVE FALSE
        OBVIOUS
      <4>1. PICK i \in Nat \ {0} : phase = "failing" /\ p = Append(P, i)
        BY <2>1 DEF Ended
      <4> QED BY <1>2, <2>1, <4>1 DEF Child
    <3> QED BY <1>5, <2>1, <2>2, <3>1 DEF Ended
  <2>3. CASE p = P
    BY <1>5, <1>6, <1>8, <2>3 DEF Ended
  <2> QED BY <2>2, <2>3
<1>13. Nesting'
  <2>1. Nesting
    BY DEF Structure
  <2>2. \A j \in DOMAIN stack : j < Len(stack) => frames'[stack[j].frame].state = "suspended"
    <3>1. Len(stack) \in Nat \ {0} /\ DOMAIN stack = 1..Len(stack) /\ Len(P) = Len(stack) - 1
      BY <2>1, StackedFrames DEF Nesting
    <3>2. \A j \in 1..Len(stack) : j - 1 \in 0..Len(P)
      BY <3>1
    <3>3. \A j \in 1..Len(stack) :
              /\ stack[j].frame \in DOMAIN frames \ S
              /\ j < Len(stack) => stack[j].frame # P
      <4>1. \A j \in 1..Len(stack) : SubSeq(P, 1, j - 1) \notin S
        BY <1>2, <3>2
      <4> QED BY <4>1, StackedFrames
    <3> QED BY <1>5, <2>1, <3>1, <3>3 DEF Nesting
  <2> QED BY <1>1, <1>2, <1>5, <1>6, <2>1, <2>2 DEF Nesting
<1>14. Structure'
  BY <1>9, <1>10, <1>11, <1>12, <1>13 DEF Structure
<1>15. Guarded'
  <2>1. \A q \in DOMAIN frames \ S : /\ frames'[q].scope = frames[q].scope
                                     /\ frames'[q].bare = frames[q].bare
                                     /\ frames'[q].in = frames[q].in
    BY <1>7 DEF SameTask
  <2>2. \A q \in DOMAIN frames \ S : Scope(frames', q) = Scope(frames, q)
    BY <1>5, <1>10, <2>1, ScopesKept
  <2>3. current' = Scope(frames', P)
    BY <1>1, <1>2, <2>2 DEF Guarded
  <2>4. ASSUME NEW j \in 2..Len(stack) PROVE Restored(j)'
    <3>1. Len(stack) \in Nat \ {0} /\ Len(P) = Len(stack) - 1
      BY StackedFrames DEF Structure, Nesting
    <3>2. /\ j \in 1..Len(stack) /\ j - 1 \in 1..Len(stack)
          /\ j - 1 \in 0..Len(P) /\ (j - 1) - 1 \in 0..Len(P)
      BY <3>1
    <3>3. stack[j].frame \in DOMAIN frames \ S /\ stack[j - 1].frame \in DOMAIN frames \ S
      <4>1. SubSeq(P, 1, j - 1) \notin S /\ SubSeq(P, 1, (j - 1) - 1) \notin S
        BY <1>2, <3>2
      <4> QED BY <3>2, <4>1, StackedFrames
    <3>4. Restored(j)
      BY DEF Guarded
    <3> QED BY <2>1, <2>2, <3>3, <3>4 DEF Restored
  <2>5. \A p \in DOMAIN frames' : frames'[p].bare \/ frames'[p].in = Scope(frames', p)
    BY <1>5, <2>1, <2>2 DEF Guarded
  <2>6. frames'[Root].scope = "none"
    BY <1>1, <1>3, <2>1 DEF Guarded
  <2> QED BY <1>6, <2>3, <2>4, <2>5, <2>6 DEF Guarded
<1>16. SlabLives'
  <2>1. Makers' = Makers /\ SlabRoot' = SlabRoot
    BY DEF Makers, SlabRoot
  <2>2. home' \in {Nobody, SlabRoot}
    BY DEF SlabLives
  <2>3. frames'[Root].pc >= frames[Root].pc /\ frames'[Root].pc \in Int /\ frames[Root].pc \in Int
    <3>1. frames[Root].pc \in 0..(Len(frames[Root].body) + 1)
      BY <1>1 DEF IsFrame
    <3>2. frames[Root].pc \in Int /\ new.pc \in Int
      BY <3>1
    <3>3. CASE Root = P
      BY <1>1, <1>5, <3>2, <3>3
    <3>4. CASE Root # P
      BY <1>1, <1>3, <1>5, <3>2, <3>4
    <3> QED BY <3>3, <3>4
  <2>4. \A k \in Makers : k \in Nat
    <3>1. program.body \in Bodies(program.body) /\ OwnsItsTasks(program.body)
      BY DEF Structure, Types, IsProgram
    <3> QED BY <3>1 DEF Makers, StepsOf, OwnsItsTasks
  <2>5. ASSUME NEW p \in DOMAIN frames'
        PROVE  (Outside(p) \/ Inside(p) \/ MakesIt(p) \/ Spawner(p))'
    <3>1. /\ p \in DOMAIN frames \ S
          /\ frames'[p].body = frames[p].body
          /\ frames'[p].scope = frames[p].scope
          /\ frames'[Root].body = frames[Root].body
          /\ frames'[Root].scope = frames[Root].scope
      BY <1>1, <1>3, <1>5, <1>7 DEF SameTask
    <3>2. CASE Outside(p)
      BY <3>1, <3>2 DEF Outside
    <3>3. CASE Inside(p)
      <4>1. home' = home
        <5> SUFFICES ASSUME home = P, I = Nat \ {0} PROVE FALSE
          OBVIOUS
        <5>1. IsStrictPrefix(P, p) /\ p \in Paths
          BY <1>1, <3>1, <3>3 DEF Inside
        <5>2. Len(P) < Len(p) /\ SubSeq(p, 1, Len(P)) = P /\ Len(P) \in Nat /\ Len(p) \in Nat
          BY <1>1, <5>1, StrictPrefix, Beginnings
        <5>3. p[Len(P) + 1] \in Nat \ {0}
          BY <5>1, <5>2, NextOnPath
        <5> QED BY <3>1, <5>2, <5>3 DEF Gone, S
      <4> QED BY <2>1, <3>1, <3>3, <4>1 DEF Inside
    <3>4. CASE MakesIt(p)
      <4>1. /\ frames'[p].pc <= 1 => home' = Nobody
            /\ frames'[p].pc > 1 /\ frames'[p].state = "suspended" => home' = p
        <5>1. CASE p # P
          <6>1. frames'[p] = frames[p]
            BY <1>5, <3>1, <5>1
          <6>2. home' = home
            <7> SUFFICES ASSUME home = P PROVE FALSE
              OBVIOUS
            <7>1. P # Nobody
              BY <1>1, NobodyIsNoPath
            <7> QED BY <3>4, <5>1, <7>1 DEF MakesIt, SlabLives
          <6> QED BY <3>4, <6>1, <6>2 DEF MakesIt
        <5>2. CASE p = P
          <6>1. frames'[p] = new /\ F.pc \in Int /\ new.pc \in Int
            <7>1. F.pc \in 0..(Len(F.body) + 1)
              BY <1>1 DEF IsFrame
            <7> QED BY <1>5, <5>2, <7>1
          <6>2. 1 \in StepsOf(F.body, "slab")
            BY <1>1, <3>4, <5>2 DEF MakesIt, HasTheSlab
          <6>3. new.state = "suspended" /\ new.pc > 1 => F.pc > 1
            BY <6>2 DEF StepsOf
          <6>4. new.pc <= 1 => home = Nobody
            BY <1>1, <3>4, <5>2, <6>1 DEF MakesIt
          <6>5. new.pc > 1 /\ new.state = "suspended" => home = P /\ home' = home
            BY <1>1, <3>4, <5>2, <6>3 DEF MakesIt
          <6> QED BY <5>2, <6>1, <6>4, <6>5
        <5> QED BY <5>1, <5>2
      <4>2. p # Root => \A k \in Makers : frames'[Root].pc > k
        <5>1. p # Root => \A k \in Makers : frames[Root].pc > k
          BY <3>4 DEF MakesIt
        <5>2. \A k \in Nat : frames[Root].pc > k => frames'[Root].pc > k
          BY <2>3
        <5> QED BY <2>4, <5>1, <5>2
      <4> QED BY <2>1, <3>1, <3>4, <4>1, <4>2 DEF MakesIt
    <3>5. CASE Spawner(p)
      <4>1. \A k \in Makers : frames[Root].pc <= k => home = Nobody
        BY <3>5 DEF Spawner
      <4>2. \A k \in Nat : frames'[Root].pc <= k => frames[Root].pc <= k
        BY <2>3
      <4>3. \A k \in Makers : frames'[Root].pc <= k => home' = Nobody
        BY <2>4, <4>1, <4>2
      <4> QED BY <2>1, <3>1, <3>5, <4>3 DEF Spawner
    <3>6. Outside(p) \/ Inside(p) \/ MakesIt(p) \/ Spawner(p)
      BY <3>1 DEF SlabLives
    <3> QED BY <3>2, <3>3, <3>4, <3>5, <3>6
  <2> QED BY <2>1, <2>2, <2>5 DEF SlabLives
<1>17. DOMAIN blocks' = Classes /\ BlocksTaken'
  <2>1. \A c \in Classes : InSlab(c)' = InSlab(c) \ S
    BY <1>5, <1>7 DEF InSlab, SameTask
  <2>2. \A c \in Classes : \A p \in InSlab(c) \ S : frames'[p].index = frames[p].index
    BY <1>7 DEF InSlab, SameTask
  <2>3. ASSUME NEW c \in Classes
        PROVE  blocks'[c] = blocks[c] \ {frames[p].index : p \in InSlab(c) \cap S}
    <3>1. {q \in S : frames[q].in = "slab" /\ frames[q].size = c} = InSlab(c) \cap S
      BY <1>4 DEF InSlab
    <3> QED BY <1>5, <3>1 DEF Freed
  <2>4. ASSUME NEW c \in Classes
        PROVE  /\ blocks'[c] = {frames'[p].index : p \in InSlab(c)'}
               /\ \A p, q \in InSlab(c)' : frames'[p].index = frames'[q].index => p = q
    <3>1. /\ blocks[c] = {frames[p].index : p \in InSlab(c)}
          /\ \A p, q \in InSlab(c) : frames[p].index = frames[q].index => p = q
      BY DEF BlocksTaken
    <3>2. blocks'[c] = {frames[p].index : p \in InSlab(c) \ S}
      BY <2>3, <3>1
    <3> QED BY <2>1, <2>2, <3>1, <3>2
  <2>5. DOMAIN blocks' = Classes
    BY <1>5 DEF Freed
  <2> QED BY <2>4, <2>5 DEF BlocksTaken
<1>18. Failing'
  BY DEF Failing
<1> QED BY <1>14, <1>15, <1>16, <1>17, <1>18

LEMMA AllBelow ==
    ASSUME Structure, Polling
    PROVE  Below(P) = Gone(Nat \ {0})
<1>1. P \in Paths /\ \A q \in DOMAIN frames : q \in Paths
  BY PolledFrame DEF Structure, Types
<1>2. ASSUME NEW q \in DOMAIN frames
      PROVE  IsStrictPrefix(P, q) <=>
                Len(P) < Len(q) /\ SubSeq(q, 1, Len(P)) = P /\ q[Len(P) + 1] \in Nat \ {0}
  <2>1. Len(P) \in Nat /\ q \in Paths
    BY <1>1, Beginnings
  <2>2. Len(P) < Len(q) => q[Len(P) + 1] \in Nat \ {0}
    BY <2>1, NextOnPath
  <2> QED BY <1>1, <2>1, <2>2, StrictPrefix
<1> QED BY <1>2 DEF Below, Gone

LEMMA LeavesStep ==
    ASSUME IInv, Polling, F.state = "suspended", NEW state,
           \/ state = "done" /\ phase = "body" /\ F.pc > Len(F.body)
           \/ state = "failed" /\ phase = "failing",
           Leaves(state)
    PROVE  IInv'
<1> USE DEF IInv
<1> DEFINE new == [F EXCEPT !.state = state, !.guards = <<>>]
           ls == ReleaseAll(locks, F.guards)
<1>1. /\ Destroy(Gone(Nat \ {0}), new, ls)
      /\ home' = (IF home = P THEN Nobody ELSE home) /\ phase' = "return"
      /\ UNCHANGED <<program, outcome, stack, current>>
  BY AllBelow DEF Leaves
<1>2. IsFrame(F) /\ DOMAIN F = Fields /\ Len(F.body) \in Nat
  BY PolledFrame DEF IsFrame
<1>3. SameTask(new, F) /\ new.pc = F.pc /\ new.state = state
  BY <1>2 DEF SameTask, Fields
<1>4. F.pc \in 0..(Len(F.body) + 1)
  BY <1>2 DEF IsFrame
<1>5. state = "done" => new.pc = Len(F.body) + 1
  BY <1>2, <1>3, <1>4
<1>6. phase # "return" /\ state \in {"done", "failed"} /\ phase' \in Phases /\ phase' # "failing"
  BY <1>1 DEF Phases
<1>7. home' = home \/ (home = P /\ home' = Nobody)
  BY <1>1
<1>8. F.pc <= new.pc
  BY <1>3, <1>4
<1> HIDE DEF new, ls
<1> QED BY <1>1, <1>3, <1>4, <1>5, <1>6, <1>7, <1>8, DestroyStep

LEMMA BodyEndsStep == IInv /\ (BodyEnds \/ BodyThrows) => IInv'
<1>1. ASSUME IInv, BodyEnds PROVE IInv'
  <2>1. Polling /\ phase = "body" /\ F.pc > Len(F.body) /\ Leaves("done")
    BY <1>1 DEF BodyEnds
  <2>2. F.state = "suspended"
    BY <1>1, <2>1, Running DEF IInv
  <2> QED BY <1>1, <2>1, <2>2, LeavesStep
<1>2. ASSUME IInv, BodyThrows PROVE IInv'
  <2>1. Polling /\ phase = "failing" /\ Leaves("failed")
    BY <1>2 DEF BodyThrows
  <2>2. F.state = "suspended"
    BY <1>2, <2>1 DEF IInv, Structure, Nesting
  <2> QED BY <1>2, <2>1, <2>2, LeavesStep
<1> QED BY <1>1, <1>2

LEMMA BodyCatchesStep == IInv /\ BodyCatches => IInv'
<1> SUFFICES ASSUME IInv, BodyCatches PROVE IInv'
  OBVIOUS
<1> USE DEF IInv
<1> DEFINE h == Min(Handlers)
           new == [F EXCEPT !.pc = h + 1, !.guards = <<>>]
           ls == ReleaseAll(locks, F.guards)
<1>1. /\ Polling /\ phase = "failing" /\ Handlers # {} /\ phase' = "body"
      /\ UNCHANGED <<program, outcome, stack, current>> /\ home' = home
  BY DEF BodyCatches
<1>2. Destroy(Gone(Nat \ {0}), new, ls)
  BY <1>1, AllBelow DEF BodyCatches
<1>3. /\ IsFrame(F) /\ DOMAIN F = Fields /\ Len(F.body) \in Nat /\ F.state = "suspended"
      /\ DOMAIN F.body = 1..Len(F.body)
  BY <1>1, PolledFrame DEF IsFrame, Structure, Nesting
<1>4. F.pc \in 0..(Len(F.body) + 1) /\ F.pc >= 1
  BY <1>1, <1>3 DEF IsFrame, Failing
<1>5. h \in Handlers
  <2>1. Handlers \subseteq Nat
    BY <1>3, <1>4 DEF Handlers
  <2> QED BY <1>1, <2>1, HasMinimum
<1> HIDE DEF h
<1>6. h \in Nat /\ F.pc <= h /\ h <= Len(F.body) /\ h \in DOMAIN F.body /\ F.body[h].do = "catch"
  BY <1>3, <1>4, <1>5 DEF Handlers
<1>7. Alive(F.body, h + 1) = {}
  BY <1>3, <1>6, AliveAfter
<1>8. SameTask(new, F) /\ new.pc = h + 1 /\ new.state = "suspended"
  BY <1>3 DEF SameTask, Fields
<1> HIDE DEF new, ls
<1>9. F.pc <= new.pc /\ new.pc \in 0..(Len(F.body) + 1)
  BY <1>3, <1>4, <1>6, <1>8
<1>10. phase # "return" /\ phase' \in Phases /\ phase' # "failing"
  BY <1>1 DEF Phases
<1>11. F.pc > 1 \/ (F.pc = 1 /\ F.body[1].do # "slab")
  BY <1>1 DEF Failing
<1>12. \A i \in Nat \ {0} : Child(i) \in DOMAIN frames /\ i \notin (Nat \ {0})
                              <=> i \in Alive(F.body, new.pc)
  BY <1>7, <1>8
<1> QED BY <1>1, <1>2, <1>3, <1>8, <1>9, <1>10, <1>11, <1>12, DestroyStep

LEMMA JoinEndsStep == IInv /\ JoinEnds => IInv'
<1> SUFFICES ASSUME IInv, JoinEnds PROVE IInv'
  OBVIOUS
<1> USE DEF IInv
<1> DEFINE I == Range(Now.children)
           gone == UNION {{p} \cup Below(p) : p \in {Child(Joined[i]) : i \in DOMAIN Joined}}
<1>1. /\ Polling /\ phase = "poll" /\ DoesNow("join")
      /\ UNCHANGED <<program, outcome, stack, current>> /\ home' = home
  BY DEF JoinEnds, Polls
<1>2. /\ F.state = "suspended" /\ F.pc \in 1..Len(F.body) /\ F.pc \in DOMAIN F.body
      /\ Now.do = "join" /\ DoesNow(Now.do)
  BY <1>1, Working
<1>3. /\ IsFrame(F) /\ DOMAIN F = Fields /\ Len(F.body) \in Nat /\ OwnsItsTasks(F.body)
      /\ DOMAIN F.body = 1..Len(F.body) /\ P \in DOMAIN frames /\ P \in Paths /\ F = frames[P]
  BY <1>1, PolledFrame DEF IsFrame, F
<1>4. \/ \E values : Destroy(gone, Learns(values), locks) /\ phase' = "body"
      \/ phase' = "return" /\ UNCHANGED <<frames, blocks>>
  BY DEF JoinEnds
<1>5. I \subseteq Alive(F.body, F.pc)
  BY <1>2, <1>3 DEF OwnsItsTasks, StepsOf, Now
<1>6. \A i \in I : i \in Nat \ {0} /\ Child(i) \in DOMAIN frames
  BY <1>1, <1>2, <1>3, <1>5, AliveChild
<1>7. gone = Gone(I)
  <2>1. \A q : q \in gone <=> \E i \in I : q = Child(i) \/ q \in Below(Child(i))
    BY DEF Joined, Range
  <2>2. ASSUME NEW q \in DOMAIN frames, NEW i \in I
        PROVE  q = Child(i) \/ q \in Below(Child(i))
                  <=> Len(P) < Len(q) /\ SubSeq(q, 1, Len(P)) = P /\ q[Len(P) + 1] = i
    <3>1. q \in Paths /\ i \in Nat \ {0}
      BY <1>6 DEF Structure, Types
    <3> QED BY <1>3, <3>1, FromChild DEF Child, Below
  <2>3. \A q : q \in gone => q \in DOMAIN frames
    BY <1>6, <2>1 DEF Below
  <2> HIDE DEF gone
  <2>4. \A q \in DOMAIN frames : q \in gone <=> q \in Gone(I)
    BY <2>1, <2>2 DEF Gone
  <2>5. Gone(I) \subseteq DOMAIN frames
    BY DEF Gone
  <2> QED BY <2>3, <2>4, <2>5
<1> HIDE DEF gone
<1>8. ASSUME NEW values, Destroy(gone, Learns(values), locks), phase' = "body" PROVE IInv'
  <2> DEFINE new == Learns(values)
  <2>1. SameTask(new, F) /\ new.pc = F.pc + 1 /\ new.state = "suspended"
    BY <1>2, <1>3 DEF SameTask, Fields, Learns, StepDone
  <2>2. Alive(F.body, F.pc + 1) = Alive(F.body, F.pc) \ I
    BY <1>2, <1>3, AliveAfter DEF Now
  <2>3. \A i \in Nat \ {0} : Child(i) \in DOMAIN frames <=> i \in Alive(F.body, F.pc)
    <3>1. Owned(frames, P)
      BY <1>3 DEF Structure
    <3> QED BY <1>2, <1>3, <3>1 DEF Owned, Child
  <2>4. Destroy(Gone(I), new, locks)
    BY <1>7, <1>8
  <2> HIDE DEF new
  <2>5. F.pc <= new.pc /\ new.pc \in 0..(Len(F.body) + 1)
    BY <1>2, <1>3, <2>1
  <2>6. F.pc > 1 \/ (F.pc = 1 /\ F.body[1].do # "slab")
    BY <1>2 DEF Now
  <2>7. I \in SUBSET (Nat \ {0})
    BY <1>6
  <2>8. phase # "return" /\ phase # "failing" /\ phase' \in Phases /\ phase' # "failing"
    BY <1>1, <1>8 DEF Phases
  <2>9. \A i \in Nat \ {0} : Child(i) \in DOMAIN frames /\ i \notin I
                               <=> i \in Alive(F.body, new.pc)
    BY <2>1, <2>2, <2>3
  <2> HIDE DEF I
  <2> QED BY <1>1, <1>2, <2>1, <2>4, <2>5, <2>6, <2>7, <2>8, <2>9, DestroyStep
<1>9. ASSUME phase' = "return", UNCHANGED <<frames, blocks>> PROVE IInv'
  <2>1. SameTask(F, F)
    BY <1>3 DEF SameTask
  <2>2. Replaced(F)
    BY <1>1, <1>9, BecomesReplaces
  <2> QED BY <1>1, <1>2, <1>9, <2>1, <2>2, Remains DEF Phases
<1> QED BY <1>4, <1>8, <1>9

------------------------------------------------------------------------------
(* The slab, and the frames in it.                                         *)

LEMMA NoSlabNoFrames ==
    ASSUME Structure, Guarded, SlabLives, home = Nobody, NEW c
    PROVE  InSlab(c) = {}
<1> SUFFICES ASSUME NEW p \in InSlab(c) PROVE FALSE
  OBVIOUS
<1>1. p \in DOMAIN frames /\ p \in Paths /\ frames[p].in = "slab" /\ IsFrame(frames[p])
  BY DEF InSlab, Structure, Types
<1>2. Scope(frames, p) = "slab"
  BY <1>1 DEF Guarded, IsFrame
<1>3. \A n \in 0..Len(p) : SubSeq(p, 1, n) \in DOMAIN frames
  BY <1>1 DEF Structure, Tree
<1>4. \A n \in 0..Len(p) : frames[SubSeq(p, 1, n)].scope \in Scopes
  BY <1>3 DEF Structure, Types, IsFrame, IsTask
<1>5. PICK n \in 0..Len(p) : frames[SubSeq(p, 1, n)].scope = "slab"
  BY <1>1, <1>2, <1>4, ScopeValues
<1> DEFINE q == SubSeq(p, 1, n)
<1>6. q \in DOMAIN frames /\ frames[q].scope = "slab"
  BY <1>3, <1>5
<1> HIDE DEF q
<1> QED BY <1>6 DEF SlabLives, Outside, Inside, MakesIt, Spawner

\* Who makes the slab is where it lives, and has not made one before.
LEMMA SlabMaker ==
    ASSUME IInv, Polling, phase = "body", DoesNow("slab")
    PROVE  MakesIt(P) /\ F.pc = 1 /\ home = Nobody
<1> USE DEF IInv
<1>1. /\ F.state = "suspended" /\ F.pc \in 1..Len(F.body) /\ F.pc \in DOMAIN F.body
      /\ Now.do = "slab"
  BY Working
<1>2. P \in DOMAIN frames /\ F = frames[P] /\ F.body \in Bodies(F.body)
  BY PolledFrame DEF F
<1>3. F.pc \in StepsOf(F.body, "slab")
  BY <1>1 DEF StepsOf, Now
<1>4. ~MakesNoSlab(F.body)
  BY <1>2, <1>3 DEF MakesNoSlab
<1>5. ~Spawner(P)
  <2> SUFFICES ASSUME Spawner(P) PROVE FALSE
    OBVIOUS
  <2>1. F.body = program.body /\ ~HasTheSlab(program.body)
    BY <1>2 DEF Spawner
  <2>2. HasOneSlab(program.body)
    BY DEF Structure, Types, IsProgram
  <2> QED BY <1>3, <2>1, <2>2 DEF HasOneSlab
<1>6. MakesIt(P)
  BY <1>2, <1>4, <1>5 DEF SlabLives, Outside, Inside, NeedsNoSlab
<1>7. F.pc = 1
  BY <1>2, <1>3, <1>6 DEF MakesIt, HasTheSlab
<1> QED BY <1>2, <1>6, <1>7 DEF MakesIt

LEMMA MakesSlabStep == IInv /\ MakesSlab => IInv'
<1> SUFFICES ASSUME IInv, MakesSlab PROVE IInv'
  OBVIOUS
<1> USE DEF IInv
<1>1. /\ Polling /\ phase = "body" /\ DoesNow("slab") /\ Becomes(StepDone)
      /\ home' = P /\ blocks' = [c \in Classes |-> {}]
      /\ UNCHANGED <<program, outcome, stack, current, phase>>
  BY DEF MakesSlab, Runs
<1>2. MakesIt(P) /\ F.pc = 1 /\ home = Nobody
  BY <1>1, SlabMaker
<1>3. /\ F.state = "suspended" /\ F.pc \in 1..Len(F.body) /\ F.pc \in DOMAIN F.body
      /\ Now.do = "slab"
  BY <1>1, Working
<1>4. /\ IsFrame(F) /\ DOMAIN F = Fields /\ Len(F.body) \in Nat /\ DOMAIN F.body = 1..Len(F.body)
      /\ P \in DOMAIN frames /\ F = frames[P] /\ Root \in DOMAIN frames
  BY <1>1, PolledFrame DEF IsFrame, F
<1>5. SameTask(StepDone, F) /\ StepDone.pc = F.pc + 1 /\ StepDone.state = "suspended"
  BY <1>3, <1>4 DEF SameTask, Fields, StepDone
<1>6. Replaced(StepDone)
  BY <1>1, BecomesReplaces
<1>7. Alive(F.body, F.pc + 1) = Alive(F.body, F.pc)
  BY <1>3, <1>4, AliveAfter DEF Now
<1>8. MovesOn(StepDone)
  BY <1>1, <1>3, <1>4, <1>5, <1>7 DEF MovesOn, Phases
<1>9. Structure'
  BY <1>1, <1>3, <1>6, <1>8, StructureInPlace
<1>10. Guarded'
  BY <1>1, <1>5, <1>6, <1>9, GuardedInPlace
<1>11. /\ DOMAIN frames' = DOMAIN frames /\ frames'[P] = StepDone
       /\ \A q \in DOMAIN frames : q # P => frames'[q] = frames[q]
  BY <1>6 DEF Replaced
<1>12. \A q \in DOMAIN frames : SameTask(frames'[q], frames[q])
  <2>1. \A q \in DOMAIN frames : DOMAIN frames[q] = Fields
    BY DEF Structure, Types, IsFrame
  <2> QED BY <1>4, <1>5, <1>11, <2>1 DEF SameTask
<1>13. SlabLives'
  <2>1. Makers' = Makers /\ SlabRoot' = SlabRoot /\ home' = SlabRoot
    <3>1. Makers' = Makers /\ SlabRoot' = SlabRoot
      BY <1>1 DEF Makers, SlabRoot
    <3>2. P = SlabRoot
      BY <1>2 DEF MakesIt
    <3> QED BY <1>1, <3>1, <3>2
  <2> SUFFICES ASSUME NEW p \in DOMAIN frames
               PROVE  (Outside(p) \/ Inside(p) \/ MakesIt(p) \/ Spawner(p))'
    BY <1>11, <2>1 DEF SlabLives
  <2>2. /\ frames'[p].body = frames[p].body
        /\ frames'[p].scope = frames[p].scope
    BY <1>12 DEF SameTask
  <2>3. CASE p = P
    <3>1. frames'[p].pc = 2 /\ home' = p
      BY <1>1, <1>2, <1>5, <1>11, <2>3
    <3>2. p # Root => \A k \in Makers : frames'[Root].pc > k
      BY <1>2, <1>4, <1>11, <2>3 DEF MakesIt
    <3>3. p = SlabRoot /\ HasTheSlab(frames[p].body) /\ frames[p].scope # "slab"
      BY <1>2, <2>3 DEF MakesIt
    <3>4. MakesIt(p)'
      BY <2>1, <2>2, <3>1, <3>2, <3>3 DEF MakesIt
    <3> QED BY <3>4
  <2>4. CASE p # P
    <3>1. Outside(p) \/ Spawner(p)
      BY <1>2, <2>4 DEF SlabLives, Inside, MakesIt
    <3>2. CASE Outside(p)
      BY <2>2, <3>2 DEF Outside
    <3>3. CASE Spawner(p)
      <4>1. p = Root /\ P # Root
        BY <2>4, <3>3 DEF Spawner
      <4>2. \A k \in Makers : frames[Root].pc > k
        BY <1>2, <4>1 DEF MakesIt
      <4>3. \A k \in Makers : k \in Nat
        <5>1. program.body \in Bodies(program.body) /\ OwnsItsTasks(program.body)
          BY DEF Structure, Types, IsProgram
        <5> QED BY <5>1 DEF Makers, StepsOf, OwnsItsTasks
      <4>4. frames'[Root] = frames[Root] /\ frames[Root].pc \in Int
        <5>1. frames[Root].pc \in 0..(Len(frames[Root].body) + 1)
          BY <1>4 DEF Structure, Types, IsFrame
        <5> QED BY <1>4, <1>11, <4>1, <5>1
      <4>5. \A k \in Makers : ~(frames'[Root].pc <= k)
        BY <4>2, <4>3, <4>4
      <4> QED BY <1>1, <2>1, <2>2, <3>3, <4>1, <4>5 DEF Spawner
    <3> QED BY <3>1, <3>2, <3>3
  <2> QED BY <2>3, <2>4
<1>14. DOMAIN blocks' = Classes /\ BlocksTaken'
  <2>1. \A c \in Classes : InSlab(c)' = InSlab(c)
    BY <1>11, <1>12 DEF InSlab, SameTask
  <2>2. \A c \in Classes : InSlab(c) = {}
    BY <1>2, NoSlabNoFrames
  <2> QED BY <1>1, <2>1, <2>2 DEF BlocksTaken
<1>15. Failing'
  BY <1>1 DEF Failing
<1> QED BY <1>9, <1>10, <1>13, <1>14, <1>15

LEMMA BlockIsFree ==
    ASSUME NEW c, HasBlock(c)
    PROVE  Block(c) \in Nat /\ Block(c) \notin blocks[c]
<1> DEFINE w == Min(WordsNotFull(c))
           b == Min(FreeBits(c, w))
<1>1. WordBits \in Nat
  BY ConstantsAssumption
<1>2. WordsNotFull(c) \subseteq Nat /\ WordsNotFull(c) # {}
  BY DEF HasBlock, WordsNotFull, Words
<1>3. w \in WordsNotFull(c) /\ w \in Nat
  BY <1>2, HasMinimum
<1> HIDE DEF w
<1>4. FreeBits(c, w) # {} /\ FreeBits(c, w) \subseteq Nat
  BY <1>1, <1>3 DEF WordsNotFull, FreeBits
<1>5. b \in FreeBits(c, w) /\ b \in Nat
  BY <1>4, HasMinimum
<1>6. Block(c) = w * WordBits + b
  BY DEF Block, w
<1> HIDE DEF b
<1>7. w * WordBits + b \notin blocks[c]
  BY <1>5 DEF FreeBits
<1>8. w * WordBits + b \in Nat
  BY <1>1, <1>3, <1>5
<1> QED BY <1>6, <1>7, <1>8

LEMMA SlabRootIsPath == IsProgram(program.body) /\ SlabRoot # Nobody => SlabRoot \in Paths
<1> SUFFICES ASSUME IsProgram(program.body), SlabRoot # Nobody PROVE SlabRoot \in Paths
  OBVIOUS
<1>1. Root \in Paths
  BY EmptySeq DEF Root, Paths
<1>2. CASE HasTheSlab(program.body)
  BY <1>1, <1>2 DEF SlabRoot
<1>3. CASE ~HasTheSlab(program.body)
  <2>1. Makers # {} /\ SlabRoot = <<program.body[CHOOSE k \in Makers : TRUE].child>>
    BY <1>3 DEF SlabRoot
  <2>2. PICK k \in Makers : SlabRoot = <<program.body[k].child>>
    BY <2>1
  <2>3. program.body[k].child \in Nat \ {0}
    BY <2>2 DEF Makers, IsProgram, OwnsItsTasks
  <2> QED BY <2>2, <2>3 DEF Paths
<1> QED BY <1>2, <1>3

\* A task that is spawned outside the slab, in it, or to make it.
LEMMA SlabOfChild ==
    ASSUME IInv, Polling, phase = "body", DoesNow("spawn"), Now.child \in Nat \ {0},
           UNCHANGED <<program, home>>,
           frames'[Root].pc = (IF P = Root THEN F.pc + 1 ELSE frames[Root].pc),
           NEW nf, frames'[Child(Now.child)] = nf, nf.body = Now.task.body,
           nf.scope = Now.task.scope, nf.pc \in {0, 1}
    PROVE  \A d : d = Child(Now.child) => (Outside(d) \/ Inside(d) \/ MakesIt(d))'
<1> USE DEF IInv
<1> DEFINE task == Now.task
           c == Child(Now.child)
<1>1. /\ F.state = "suspended" /\ F.pc \in 1..Len(F.body) /\ F.pc \in DOMAIN F.body
      /\ Now.do = "spawn"
  BY Working
<1>2. /\ P \in DOMAIN frames /\ P \in Paths /\ F = frames[P] /\ F.body \in Bodies(F.body)
      /\ \A t \in TasksOf(F.body) : Bodies(t.body) \subseteq Bodies(F.body)
      /\ Len(F.body) \in Nat
  BY PolledFrame DEF F
<1>3. F.pc \in StepsOf(F.body, "spawn") /\ task \in TasksOf(F.body)
  BY <1>1 DEF StepsOf, TasksOf, Now
<1>4. Bodies(task.body) \subseteq Bodies(F.body)
  BY <1>2, <1>3
<1>5. Makers' = Makers /\ SlabRoot' = SlabRoot /\ home' = home
  BY DEF Makers, SlabRoot
<1>6. \A d : d = c => frames'[d].body = task.body /\ frames'[d].scope = task.scope
                      /\ frames'[d].pc \in {0, 1}
  OBVIOUS
<1>7. c \in Paths /\ Len(c) = Len(P) + 1 /\ Len(P) \in Nat
      /\ SubSeq(c, 1, Len(P)) = P /\ \A n \in 0..Len(P) : SubSeq(c, 1, n) = SubSeq(P, 1, n)
  BY <1>2, ChildPath, Beginnings DEF Child
<1> SUFFICES ASSUME NEW d, d = c
             PROVE  (Outside(d) \/ Inside(d) \/ MakesIt(d))'
  OBVIOUS
<1> HIDE DEF c, task
<1>8. CASE Outside(P)
  <2>1. MakesNoSlab(F.body) /\ \A b \in Bodies(F.body) : \A t \in TasksOf(b) : t.scope # "slab"
    BY <1>2, <1>8 DEF Outside, NeedsNoSlab
  <2>2. NeedsNoSlab(task.body) /\ task.scope # "slab"
    BY <1>2, <1>3, <1>4, <2>1 DEF NeedsNoSlab, MakesNoSlab
  <2> QED BY <1>6, <2>2 DEF Outside
<1>9. CASE Inside(P)
  <2>1. MakesNoSlab(task.body)
    BY <1>2, <1>4, <1>9 DEF Inside, MakesNoSlab
  <2>2. SlabRoot \in Paths /\ IsStrictPrefix(SlabRoot, P) /\ home = SlabRoot /\ home # Nobody
    BY <1>9, SlabRootIsPath DEF Inside, Structure, Types
  <2>3. Len(SlabRoot) < Len(P) /\ SubSeq(P, 1, Len(SlabRoot)) = SlabRoot /\ Len(SlabRoot) \in Nat
    BY <1>2, <2>2, StrictPrefix, Beginnings
  <2>4. Len(SlabRoot) < Len(c) /\ SubSeq(c, 1, Len(SlabRoot)) = SlabRoot
    BY <1>7, <2>3
  <2>5. IsStrictPrefix(SlabRoot, c)
    BY <1>7, <2>2, <2>4, StrictPrefix
  <2> QED BY <1>5, <1>6, <2>1, <2>2, <2>5 DEF Inside
<1>10. CASE MakesIt(P)
  <2>1. P = SlabRoot /\ HasTheSlab(F.body)
    BY <1>2, <1>10 DEF MakesIt
  <2>2. F.pc # 1
    BY <1>1, <2>1 DEF HasTheSlab, StepsOf, Now
  <2>3. home = P
    BY <1>1, <1>2, <1>10, <2>2 DEF MakesIt
  <2>4. MakesNoSlab(task.body)
    BY <1>3, <2>1 DEF HasTheSlab
  <2>5. IsStrictPrefix(SlabRoot, c)
    BY <1>2, <1>7, <2>1, StrictPrefix
  <2>6. P # Nobody
    BY <1>2, NobodyIsNoPath
  <2> QED BY <1>5, <1>6, <2>1, <2>3, <2>4, <2>5, <2>6 DEF Inside
<1>11. CASE Spawner(P)
  <2>1. P = Root /\ F.body = program.body /\ ~HasTheSlab(program.body)
        /\ \A k \in Makers : F.pc <= k => home = Nobody
    BY <1>2, <1>11 DEF Spawner
  <2>2. /\ task.scope # "slab"
        /\ \A k, l \in Makers : k = l
        /\ \A k \in Makers : HasTheSlab(program.body[k].task.body)
    <3>1. HasOneSlab(program.body)
      BY DEF Structure, Types, IsProgram
    <3> QED BY <1>3, <2>1, <3>1 DEF HasOneSlab, Makers
  <2>3. CASE F.pc \in Makers
    <3>1. home = Nobody
      BY <1>1, <2>1, <2>3
    <3>2. SlabRoot = <<Now.child>>
      <4>1. SlabRoot = <<program.body[CHOOSE k \in Makers : TRUE].child>>
        BY <2>1, <2>3 DEF SlabRoot
      <4>2. (CHOOSE k \in Makers : TRUE) = F.pc
        BY <2>2, <2>3
      <4> QED BY <2>1, <4>1, <4>2 DEF Now
    <3>3. c = SlabRoot
      BY <2>1, <3>2 DEF c, Child, Root
    <3>4. HasTheSlab(task.body)
      BY <2>1, <2>2, <2>3 DEF task, Now
    <3>5. \A k \in Makers : frames'[Root].pc > k
      <4>1. frames'[Root].pc = F.pc + 1 /\ F.pc \in Nat
        BY <1>1, <2>1
      <4>2. \A k \in Makers : k = F.pc
        BY <2>2, <2>3
      <4> QED BY <4>1, <4>2
    <3>6. ~(frames'[d].pc > 1)
      BY <1>6
    <3> QED BY <1>5, <1>6, <2>2, <3>1, <3>3, <3>4, <3>5, <3>6 DEF MakesIt
  <2>4. CASE F.pc \notin Makers
    <3>1. NeedsNoSlab(task.body)
      BY <1>3, <2>1, <2>4 DEF Makers, task, Now
    <3> QED BY <1>6, <2>2, <3>1 DEF Outside
  <2> QED BY <2>3, <2>4
<1> QED BY <1>2, <1>8, <1>9, <1>10, <1>11 DEF SlabLives

Allocator == IF Now.task.scope = "none" THEN current ELSE Now.task.scope
Spawned(index) == Frame(Now.task, IF Now.task.bare THEN "none" ELSE Allocator, index)

\* A task function is called, and its frame is where its scope says.
LEMMA SpawnedStep ==
    ASSUME IInv, Polling, phase = "body", DoesNow("spawn"),
           NEW index \in Nat,
           DOMAIN frames' = DOMAIN frames \cup {Child(Now.child)},
           frames'[Child(Now.child)] = Spawned(index),
           frames'[P] = StepDone,
           \A q \in DOMAIN frames : q # P => frames'[q] = frames[q],
           \/ UNCHANGED blocks /\ Spawned(index).in # "slab"
           \/ /\ blocks' = [blocks EXCEPT ![Now.task.size] = @ \cup {index}]
              /\ Spawned(index).in = "slab" /\ index \notin blocks[Now.task.size],
           UNCHANGED <<program, outcome, stack, current, phase, home>>
    PROVE  IInv'
<1> USE DEF IInv
<1> DEFINE task == Now.task
           i == Now.child
           child == Child(Now.child)
           allocator == Allocator
           nf == Spawned(index)
<1>1. /\ F.state = "suspended" /\ F.pc \in 1..Len(F.body) /\ F.pc \in DOMAIN F.body
      /\ Now.do = "spawn" /\ DoesNow(Now.do)
  BY Working
<1>2. /\ P \in DOMAIN frames /\ P \in Paths /\ F = frames[P] /\ IsFrame(F) /\ DOMAIN F = Fields
      /\ OwnsItsTasks(F.body) /\ Len(F.body) \in Nat /\ DOMAIN F.body = 1..Len(F.body)
      /\ F.body \in Bodies(program.body)
      /\ ~outcome.over /\ Root \in DOMAIN frames
      /\ \A q \in DOMAIN frames : q \in Paths /\ IsFrame(frames[q])
  BY PolledFrame DEF F, IsFrame, Structure, Types
<1>3. F.pc \in StepsOf(F.body, "spawn") /\ task \in TasksOf(F.body)
  BY <1>1 DEF StepsOf, TasksOf, Now
<1>4. /\ IsTask(task) /\ task.body \in Bodies(program.body)
      /\ Bodies(task.body) \subseteq Bodies(program.body)
  <2>1. IsTask(task) /\ task.body \in Bodies(F.body) /\ Bodies(task.body) \subseteq Bodies(F.body)
    BY <1>2, <1>3 DEF Structure, Types, IsProgram
  <2> QED BY <1>2, <2>1 DEF IsFrame
<1>5. i \in Nat \ {0} /\ i \notin Alive(F.body, F.pc)
  BY <1>2, <1>3 DEF OwnsItsTasks, Now
<1> HIDE DEF i
<1>6. /\ child = Append(P, i) /\ child \in Paths /\ Len(child) = Len(P) + 1 /\ Len(P) \in Nat
      /\ SubSeq(child, 1, Len(P) + 1) = child
      /\ \A n \in 0..Len(P) : SubSeq(child, 1, n) = SubSeq(P, 1, n)
      /\ SubSeq(child, 1, Len(P)) = P
      /\ \A q \in Paths, j \in Nat \ {0} : Append(q, j) = child => q = P /\ j = i
  <2>1. child = Append(P, i)
    BY DEF Child, i
  <2>2. P \in Paths /\ i \in Nat \ {0} /\ Len(P) \in Nat
    BY <1>2, <1>5, Beginnings
  <2>3. LET c == Append(P, i) IN
        /\ c \in Paths /\ Len(c) = Len(P) + 1
        /\ SubSeq(c, 1, Len(P) + 1) = c
        /\ \A n \in 0..Len(P) : SubSeq(c, 1, n) = SubSeq(P, 1, n)
        /\ SubSeq(c, 1, Len(P)) = P
        /\ \A q \in Paths, j \in Nat \ {0} : Append(q, j) = c => q = P /\ j = i
    BY <2>2, ChildPath
  <2> HIDE DEF child
  <2> QED BY <2>1, <2>2, <2>3
<1> HIDE DEF child
<1>7. child \notin DOMAIN frames
  <2>1. Owned(frames, P)
    BY <1>2 DEF Structure
  <2> QED BY <1>1, <1>2, <1>5, <1>6, <2>1 DEF Owned
<1>8. /\ current = Scope(frames, P) /\ current \in {"default", "slab"}
  <2>1. \A m \in 0..Len(P) : SubSeq(P, 1, m) \in DOMAIN frames
    BY <1>2 DEF Structure, Tree
  <2>2. \A m \in 0..Len(P) : frames[SubSeq(P, 1, m)].scope \in Scopes
    BY <2>1 DEF Structure, Types, IsFrame, IsTask
  <2> QED BY <1>2, <2>2, ScopeValues DEF Guarded
<1>9. allocator \in {"default", "slab"}
  BY <1>4, <1>8 DEF IsTask, Scopes, Allocator
<1>10. /\ IsFrame(nf) /\ nf.body = task.body /\ nf.scope = task.scope /\ nf.size = task.size
       /\ nf.bare = task.bare /\ nf.in = (IF task.bare THEN "none" ELSE allocator)
       /\ nf.index = index /\ nf.state = "suspended" /\ nf.pc = (IF task.bare THEN 1 ELSE 0)
  <2> DEFINE in == IF task.bare THEN "none" ELSE allocator
  <2>1. in \in Scopes /\ (task.bare => in = "none")
    BY <1>9 DEF Scopes
  <2>2. nf = Frame(task, in, index)
    BY DEF Spawned
  <2> HIDE DEF in, task, nf
  <2>3. /\ IsFrame(nf) /\ nf.body = task.body /\ nf.scope = task.scope /\ nf.size = task.size
        /\ nf.bare = task.bare /\ nf.in = in
        /\ nf.index = index /\ nf.state = "suspended" /\ nf.pc = (IF task.bare THEN 1 ELSE 0)
    BY <1>4, <2>1, <2>2, NewFrame
  <2> QED BY <2>3 DEF in
<1> HIDE DEF nf
<1>11. SameTask(StepDone, F) /\ StepDone.pc = F.pc + 1 /\ StepDone.state = "suspended"
  BY <1>1, <1>2 DEF SameTask, Fields, StepDone
<1>12. StepDone.body = F.body /\ IsFrame(StepDone) /\ StepDone.pc \in 0..(Len(F.body) + 1)
  <2>1. StepDone.pc \in 0..(Len(F.body) + 1)
    BY <1>1, <1>2, <1>11
  <2> QED BY <1>2, <1>11, <2>1, SameIsFrame DEF SameTask
<1>13. /\ DOMAIN frames' = DOMAIN frames \cup {child} /\ frames'[child] = nf
       /\ frames'[P] = StepDone
       /\ \A q \in DOMAIN frames : q # P => frames'[q] = frames[q]
  BY DEF child, nf
<1> HIDE DEF task
<1>14. P' = P /\ Polling' /\ F' = StepDone
  BY <1>13 DEF P, Top, F, Polling
<1>15. \A q \in DOMAIN frames : SameTask(frames'[q], frames[q])
  BY <1>2, <1>11, <1>13 DEF SameTask, IsFrame
<1>16. Types'
  <2>1. \A f : IsFrame(f)' <=> IsFrame(f)
    BY DEF IsFrame
  <2>2. IsFiniteSet(DOMAIN frames')
    <3>1. IsFiniteSet(DOMAIN frames)
      BY DEF Structure, Types
    <3>2. IsFiniteSet(DOMAIN frames \cup {child})
      BY <3>1, FS_AddElement
    <3> QED BY <1>13, <3>2
  <2>3. ASSUME NEW p \in DOMAIN frames' PROVE p \in Paths /\ IsFrame(frames'[p])
    <3>1. CASE p = child
      BY <1>6, <1>10, <1>13, <3>1
    <3>2. CASE p = P
      BY <1>2, <1>12, <1>13, <3>2
    <3>3. CASE p # child /\ p # P
      BY <1>2, <1>13, <3>3
    <3> QED BY <3>1, <3>2, <3>3
  <2> QED BY <1>2, <1>13, <2>1, <2>2, <2>3 DEF Structure, Types
<1>17. Tree(frames')
  <2>1. ASSUME NEW p \in DOMAIN frames, NEW n \in 0..Len(p)
        PROVE  SubSeq(p, 1, n) \in DOMAIN frames'
    BY <1>13, <2>1 DEF Structure, Tree
  <2>2. ASSUME NEW n \in 0..Len(child) PROVE SubSeq(child, 1, n) \in DOMAIN frames'
    <3>1. n \in 0..Len(P) \/ n = Len(P) + 1
      BY <1>6
    <3> QED BY <1>2, <1>6, <1>13, <2>1, <3>1
  <2> QED BY <1>13, <2>1, <2>2 DEF Tree
<1>18. ASSUME NEW p \in DOMAIN frames' PROVE Owned(frames', p)
  <2>1. CASE p = child
    <3>1. \A j \in Nat \ {0} : Append(child, j) \notin DOMAIN frames'
      <4> SUFFICES ASSUME NEW j \in Nat \ {0}, Append(child, j) \in DOMAIN frames' PROVE FALSE
        OBVIOUS
      <4>1. /\ Append(child, j) # child /\ SubSeq(Append(child, j), 1, Len(child)) = child
            /\ Len(Append(child, j)) = Len(child) + 1 /\ Len(child) \in Nat
        <5>1. child \in Paths
          BY <1>6
        <5> QED BY <5>1, ChildPath, Beginnings
      <4>2. Append(child, j) \in DOMAIN frames /\ Len(child) \in 0..Len(Append(child, j))
        <5>1. Append(child, j) \in DOMAIN frames
          BY <1>13, <4>1
        <5>2. \A m \in Nat : m \in 0..(m + 1)
          OBVIOUS
        <5>3. Len(child) \in 0..Len(Append(child, j))
          BY <4>1, <5>2
        <5> QED BY <5>1, <5>3
      <4>3. SubSeq(Append(child, j), 1, Len(child)) \in DOMAIN frames
        BY <4>2 DEF Structure, Tree
      <4> QED BY <1>7, <4>1, <4>3
    <3>2. Alive(nf.body, 0) = {} /\ Alive(nf.body, 1) = {}
      <4>1. OwnsItsTasks(nf.body)
        BY <1>4, <1>10 DEF Structure, Types, IsProgram
      <4> QED BY <4>1, NoneAtFirst DEF OwnsItsTasks
    <3> QED BY <1>10, <1>13, <2>1, <3>1, <3>2 DEF Owned
  <2>2. CASE p = P
    <3>1. Alive(F.body, F.pc + 1) = Alive(F.body, F.pc) \cup {i}
      BY <1>1, <1>2, AliveAfter DEF Now, i
    <3>2. Owned(frames, P)
      BY <1>2 DEF Structure
    <3>3. \A j \in Nat \ {0} : Append(P, j) \in DOMAIN frames <=> j \in Alive(F.body, F.pc)
      BY <1>1, <1>2, <3>2 DEF Owned
    <3>4. \A j \in Nat \ {0} : Append(P, j) \in DOMAIN frames'
                                  <=> j \in Alive(F.body, F.pc + 1)
      BY <1>2, <1>6, <1>13, <3>1, <3>3
    <3> QED BY <1>3, <1>11, <1>12, <1>13, <2>2, <3>4 DEF Owned
  <2>3. CASE p \in DOMAIN frames /\ p # P
    <3>1. Owned(frames, p) /\ frames'[p] = frames[p] /\ p \in Paths
      BY <1>2, <1>13, <2>3 DEF Structure
    <3>2. \A j \in Nat \ {0} : Append(p, j) \in DOMAIN frames' <=> Append(p, j) \in DOMAIN frames
      BY <1>6, <1>13, <2>3, <3>1
    <3> QED BY <3>1, <3>2 DEF Owned
  <2> QED BY <1>13, <2>1, <2>2, <2>3
<1>19. ASSUME NEW p \in DOMAIN frames' PROVE Ended(p)'
  <2>1. \A q \in DOMAIN frames : Ended(q)
    BY DEF Structure
  <2>2. CASE p \in DOMAIN frames /\ p # P
    BY <1>13, <2>1, <2>2 DEF Ended
  <2>3. CASE p = child \/ p = P
    BY <1>10, <1>11, <1>13, <2>3 DEF Ended
  <2> QED BY <1>13, <2>2, <2>3
<1>20. Nesting'
  <2>1. Nesting
    BY DEF Structure
  <2>2. \A j \in DOMAIN stack : j < Len(stack) => frames'[stack[j].frame].state = "suspended"
    <3>1. DOMAIN stack = 1..Len(stack) /\ \A j \in 1..Len(stack) : stack[j].frame \in DOMAIN frames
      BY StackedFrames
    <3> QED BY <1>11, <1>13, <2>1, <3>1 DEF Nesting
  <2> QED BY <1>2, <1>11, <1>13, <1>14, <2>1, <2>2 DEF Nesting
<1>21. Structure'
  BY <1>16, <1>17, <1>18, <1>19, <1>20 DEF Structure
<1>22. Guarded'
  <2>1. \A q \in DOMAIN frames : /\ frames'[q].scope = frames[q].scope
                                 /\ frames'[q].bare = frames[q].bare
                                 /\ frames'[q].in = frames[q].in
    BY <1>15 DEF SameTask
  <2>2. \A q \in DOMAIN frames : Scope(frames', q) = Scope(frames, q)
    BY <1>13, <1>17, <2>1, ScopesKept
  <2>3. current' = Scope(frames', P)
    BY <1>2, <1>8, <2>2
  <2>4. ASSUME NEW j \in 2..Len(stack) PROVE Restored(j)'
    <3>1. j \in 1..Len(stack) /\ j - 1 \in 1..Len(stack)
      BY StackedFrames
    <3>2. stack[j].frame \in DOMAIN frames /\ stack[j - 1].frame \in DOMAIN frames
      BY <3>1, StackedFrames
    <3>3. Restored(j)
      BY DEF Guarded
    <3> QED BY <2>1, <2>2, <3>2, <3>3 DEF Restored
  <2>5. frames'[child].bare \/ frames'[child].in = Scope(frames', child)
    <3>1. Scope(frames', child) =
             IF frames'[child].scope = "none" THEN Scope(frames', P) ELSE frames'[child].scope
      <4>1. P \in Paths /\ i \in Nat \ {0} /\ child = Append(P, i)
        BY <1>2, <1>5, <1>6
      <4>2. \A fs : Scope(fs, Append(P, i)) =
                       IF fs[Append(P, i)].scope = "none" THEN Scope(fs, P)
                       ELSE fs[Append(P, i)].scope
        BY <4>1, ScopeOfChild
      <4> QED BY <4>1, <4>2
    <3>2. Scope(frames', P) = current
      BY <1>2, <1>8, <2>2
    <3> QED BY <1>10, <1>13, <3>1, <3>2 DEF task, allocator, Allocator
  <2>6. \A p \in DOMAIN frames' : frames'[p].bare \/ frames'[p].in = Scope(frames', p)
    <3>1. \A p \in DOMAIN frames : frames'[p].bare \/ frames'[p].in = Scope(frames', p)
      <4>1. \A p \in DOMAIN frames : frames[p].bare \/ frames[p].in = Scope(frames, p)
        BY DEF Guarded
      <4> QED BY <2>1, <2>2, <4>1
    <3> QED BY <1>13, <2>5, <3>1
  <2>7. frames'[Root].scope = "none"
    BY <1>2, <2>1 DEF Guarded
  <2> QED BY <1>14, <2>3, <2>4, <2>6, <2>7 DEF Guarded
<1>23. SlabLives'
  <2>1. ~(F.pc <= 1 /\ StepDone.pc > 1) \/ (DoesNow(Now.do) /\ Now.do # "slab")
    BY <1>1
  <2>2. /\ SlabRoot' = SlabRoot
        /\ \A p \in DOMAIN frames : (Outside(p) \/ Inside(p) \/ MakesIt(p) \/ Spawner(p))'
    <3>1. DOMAIN frames \subseteq DOMAIN frames' /\ F.pc <= StepDone.pc
      BY <1>1, <1>11, <1>13
    <3>2. StepDone.pc \in 0..(Len(F.body) + 1)
      BY <1>12
    <3> QED BY <1>1, <1>11, <1>13, <2>1, <3>1, <3>2, SlabKept
  <2>3. \A d : d = child => (Outside(d) \/ Inside(d) \/ MakesIt(d))'
    <3>1. frames'[Root].pc = (IF P = Root THEN F.pc + 1 ELSE frames[Root].pc)
      BY <1>2, <1>11, <1>13
    <3>2. frames'[Child(Now.child)] = nf
      BY DEF nf
    <3>3. nf.body = Now.task.body /\ nf.scope = Now.task.scope /\ nf.pc \in {0, 1}
      BY <1>10 DEF task
    <3>4. Now.child \in Nat \ {0}
      BY <1>5 DEF i
    <3>5. \A d : d = Child(Now.child) => (Outside(d) \/ Inside(d) \/ MakesIt(d))'
      BY <3>1, <3>2, <3>3, <3>4, SlabOfChild
    <3> QED BY <3>5 DEF child
  <2>4. home' \in {Nobody, SlabRoot'}
    BY <2>2 DEF SlabLives
  <2> QED BY <1>13, <2>2, <2>3, <2>4 DEF SlabLives
<1>24. DOMAIN blocks' = Classes /\ BlocksTaken'
  <2>1. nf.size \in Classes /\ nf.size = Now.task.size
    BY <1>4, <1>10 DEF IsTask, task
  <2>2. /\ DOMAIN blocks' = Classes
        /\ \A c \in Classes : blocks'[c] = IF nf.in = "slab" /\ nf.size = c
                                          THEN blocks[c] \cup {index} ELSE blocks[c]
        /\ nf.in = "slab" => index \notin blocks[nf.size]
    BY <2>1 DEF nf
  <2> SUFFICES ASSUME NEW c \in Classes
               PROVE  /\ blocks'[c] = {frames'[p].index : p \in InSlab(c)'}
                      /\ \A p, q \in InSlab(c)' : frames'[p].index = frames'[q].index => p = q
    BY <2>2 DEF BlocksTaken
  <2>3. \A p \in DOMAIN frames : /\ frames'[p].in = frames[p].in
                                /\ frames'[p].size = frames[p].size
                                /\ frames'[p].index = frames[p].index
    BY <1>15 DEF SameTask
  <2>4. frames'[child].in = nf.in /\ frames'[child].size = nf.size /\ frames'[child].index = index
    BY <1>10, <1>13
  <2>5. \A p : p \in InSlab(c)' <=>
                p \in InSlab(c) \/ (p = child /\ nf.in = "slab" /\ nf.size = c)
    BY <1>7, <1>13, <2>3, <2>4 DEF InSlab
  <2>6. \A p \in InSlab(c) : frames'[p].index = frames[p].index
    BY <2>3 DEF InSlab
  <2>7. /\ \A b : b \in blocks[c] <=> \E p \in InSlab(c) : b = frames[p].index
        /\ \A p, q \in InSlab(c) : frames[p].index = frames[q].index => p = q
    BY DEF BlocksTaken
  <2>8. \A b : b \in blocks'[c] <=> \E p \in InSlab(c)' : b = frames'[p].index
    BY <2>2, <2>4, <2>5, <2>6, <2>7
  <2>9. \A p, q \in InSlab(c)' : frames'[p].index = frames'[q].index => p = q
    BY <2>2, <2>4, <2>5, <2>6, <2>7
  <2> QED BY <2>8, <2>9
<1>25. Failing'
  BY DEF Failing
<1> QED BY <1>21, <1>22, <1>23, <1>24, <1>25

LEMMA SpawnsStep == IInv /\ Spawns => IInv'
<1> SUFFICES ASSUME IInv, Spawns PROVE IInv'
  OBVIOUS
<1> USE DEF IInv
<1> DEFINE task == Now.task
           index == IF task.bare THEN 0
                    ELSE IF Allocator = "slab" THEN Block(task.size) ELSE 0
           child == Child(Now.child)
<1>1. /\ Polling /\ phase = "body" /\ DoesNow("spawn")
      /\ UNCHANGED <<program, outcome, stack, current, home>>
  BY DEF Spawns, Runs
<1>2. CASE task.bare \/ Allocator = "default" \/ HasBlock(task.size)
  <2>1. /\ frames' = [q \in DOMAIN frames \cup {child} |->
                         IF q = child THEN Spawned(index)
                         ELSE IF q = P THEN StepDone ELSE frames[q]]
        /\ blocks' = IF task.bare \/ Allocator = "default" THEN blocks
                     ELSE [blocks EXCEPT ![task.size] = @ \cup
                              {IF Allocator = "slab" THEN Block(task.size) ELSE 0}]
        /\ UNCHANGED phase
    BY <1>2 DEF Spawns, Spawned, Allocator
  <2>2. task \in TasksOf(F.body) /\ IsTask(task) /\ Now.child \in Nat \ {0}
    <3>1. F.pc \in StepsOf(F.body, "spawn") /\ task \in TasksOf(F.body)
      BY <1>1, Working DEF StepsOf, TasksOf, Now
    <3> QED BY <1>1, <3>1, PolledFrame DEF OwnsItsTasks, Now
  <2>3. Allocator \in {"default", "slab"}
    <3>1. P \in DOMAIN frames /\ P \in Paths /\ current = Scope(frames, P)
      BY <1>1, PolledFrame DEF Guarded
    <3>2. \A m \in 0..Len(P) : SubSeq(P, 1, m) \in DOMAIN frames
      BY <3>1 DEF Structure, Tree
    <3>3. \A m \in 0..Len(P) : frames[SubSeq(P, 1, m)].scope \in Scopes
      BY <3>2 DEF Structure, Types, IsFrame, IsTask
    <3>4. current \in {"default", "slab"}
      BY <3>1, <3>3, ScopeValues
    <3> QED BY <2>2, <3>4 DEF Scopes, IsTask, Allocator
  <2>4. /\ index \in Nat
        /\ \/ UNCHANGED blocks /\ (task.bare \/ Allocator = "default")
           \/ /\ blocks' = [blocks EXCEPT ![task.size] = @ \cup {index}]
              /\ ~task.bare /\ Allocator = "slab" /\ index \notin blocks[task.size]
    <3>1. HasBlock(task.size) => Block(task.size) \in Nat /\ Block(task.size) \notin blocks[task.size]
      BY BlockIsFree
    <3> QED BY <1>2, <2>1, <2>3, <3>1
  <2>5. Spawned(index).in = (IF task.bare THEN "none" ELSE Allocator)
    BY DEF Frame, Spawned
  <2>6. P \in DOMAIN frames /\ child # P
    BY <1>1, <2>2, PolledFrame, ChildPath DEF Child
  <2> HIDE DEF index
  <2>7. \/ UNCHANGED blocks /\ Spawned(index).in # "slab"
        \/ /\ blocks' = [blocks EXCEPT ![Now.task.size] = @ \cup {index}]
           /\ Spawned(index).in = "slab" /\ index \notin blocks[Now.task.size]
    BY <2>4, <2>5
  <2> HIDE DEF child
  <2>8. child \notin DOMAIN frames => /\ DOMAIN frames' = DOMAIN frames \cup {child}
                                     /\ frames'[child] = Spawned(index)
                                     /\ frames'[P] = StepDone
                                     /\ \A q \in DOMAIN frames : q # P => frames'[q] = frames[q]
    BY <2>1, <2>6
  <2>9. child \notin DOMAIN frames
    <3>1. /\ P \in DOMAIN frames /\ F = frames[P] /\ F.state = "suspended" /\ F.pc <= Len(F.body)
          /\ F.pc \in StepsOf(F.body, "spawn") /\ OwnsItsTasks(F.body)
      BY <1>1, PolledFrame, Working DEF F, StepsOf, Now
    <3>2. Owned(frames, P) /\ Now.child \notin Alive(F.body, F.pc)
      BY <3>1 DEF Structure, OwnsItsTasks, Now
    <3> QED BY <2>2, <3>1, <3>2 DEF Owned, Child, child
  <2>10. /\ DOMAIN frames' = DOMAIN frames \cup {Child(Now.child)}
         /\ frames'[Child(Now.child)] = Spawned(index)
         /\ frames'[P] = StepDone
         /\ \A q \in DOMAIN frames : q # P => frames'[q] = frames[q]
    BY <2>8, <2>9 DEF child
  <2>11. UNCHANGED <<program, outcome, stack, current, phase, home>> /\ index \in Nat
    BY <1>1, <2>1, <2>4
  <2> QED BY <1>1, <2>7, <2>10, <2>11, SpawnedStep
<1>3. CASE ~(task.bare \/ Allocator = "default" \/ HasBlock(task.size))
  <2>1. phase' = "failing" /\ UNCHANGED <<frames, blocks>>
    BY <1>3 DEF Spawns, Allocator
  <2>2. DOMAIN F = Fields /\ F.state = "suspended"
    BY <1>1, PolledFrame, Working DEF IsFrame
  <2>3. SameTask(F, F)
    BY <2>2 DEF SameTask
  <2>4. Replaced(F)
    BY <1>1, <2>1, BecomesReplaces
  <2> QED BY <1>1, <2>1, <2>2, <2>3, <2>4, Remains DEF Phases
<1> QED BY <1>2, <1>3

------------------------------------------------------------------------------
(* The theorems.                                                           *)

LEMMA Stutters == IInv /\ UNCHANGED vars => IInv'
<1> SUFFICES ASSUME IInv, UNCHANGED vars PROVE IInv'
  OBVIOUS
<1>1. UNCHANGED <<program, frames, stack, phase, current, home, blocks, outcome>>
  BY DEF vars, memoryVars
<1>2. P' = P /\ F' = F /\ (Polling' <=> Polling)
  BY <1>1 DEF P, Top, F, Polling
<1>3. Structure'
  <2>1. \A f : IsFrame(f)' <=> IsFrame(f)
    BY <1>1 DEF IsFrame
  <2>2. Types'
    BY <1>1, <2>1 DEF IInv, Structure, Types
  <2>3. \A p : Ended(p)' <=> Ended(p)
    BY <1>1, <1>2 DEF Ended
  <2>4. Nesting' <=> Nesting
    BY <1>1, <1>2 DEF Nesting
  <2> QED BY <1>1, <1>2, <2>2, <2>3, <2>4 DEF IInv, Structure
<1>4. Failing' /\ Guarded'
  <2>1. \A j : Restored(j)' <=> Restored(j)
    BY <1>1 DEF Restored
  <2> QED BY <1>1, <1>2, <2>1 DEF IInv, Failing, Guarded
<1>5. SlabLives'
  <2>1. SlabRoot' = SlabRoot /\ Makers' = Makers
    BY <1>1 DEF SlabRoot, Makers
  <2>2. \A p : /\ Outside(p)' <=> Outside(p)
               /\ Inside(p)' <=> Inside(p)
               /\ MakesIt(p)' <=> MakesIt(p)
               /\ Spawner(p)' <=> Spawner(p)
    BY <1>1, <2>1 DEF Outside, Inside, MakesIt, Spawner
  <2> QED BY <1>1, <2>1, <2>2 DEF IInv, SlabLives
<1>6. DOMAIN blocks' = Classes /\ BlocksTaken'
  <2>1. \A c : InSlab(c)' = InSlab(c)
    BY <1>1 DEF InSlab
  <2> QED BY <1>1, <2>1 DEF IInv, BlocksTaken
<1> QED BY <1>3, <1>4, <1>5, <1>6 DEF IInv

LEMMA IInvStep == IInv /\ [Next]_vars => IInv'
<1> SUFFICES ASSUME IInv, [Next]_vars PROVE IInv'
  OBVIOUS
<1>1. CASE BlockOnPolls
  BY <1>1, BlockOnPollsStep
<1>2. CASE BlockOnReturns
  BY <1>2, BlockOnReturnsStep
<1>3. CASE Start
  BY <1>3, StartStep
<1>4. CASE PollLeaf
  BY <1>4, PollLeafStep
<1>5. CASE PollLock
  BY <1>5, PollLockStep
<1>6. CASE PollChild
  BY <1>6, PollChildStep
<1>7. CASE PollReturns
  BY <1>7, PollReturnsStep
<1>8. CASE JoinEnds
  BY <1>8, JoinEndsStep
<1>9. CASE Suspends
  BY <1>9, SuspendsStep
<1>10. CASE BodyEnds \/ BodyThrows
  BY <1>10, BodyEndsStep
<1>11. CASE BodyCatches
  BY <1>11, BodyCatchesStep
<1>12. CASE Throws
  BY <1>12, ThrowsStep
<1>13. CASE Spawns
  BY <1>13, SpawnsStep
<1>14. CASE MakesSlab
  BY <1>14, MakesSlabStep
<1>15. CASE PollsOnce
  BY <1>15, PollsOnceStep
<1>16. CASE Unlocks
  BY <1>16, UnlocksStep
<1>17. CASE Tries
  BY <1>17, TriesStep
<1>18. CASE Computes
  BY <1>18, ComputesStep
<1>19. CASE Writes
  BY <1>19, WritesStep
<1>20. CASE UNCHANGED vars
  BY <1>20, Stutters
<1> QED
  BY <1>1, <1>2, <1>3, <1>4, <1>5, <1>6, <1>7, <1>8, <1>9, <1>10, <1>11, <1>12, <1>13, <1>14,
     <1>15, <1>16, <1>17, <1>18, <1>19, <1>20 DEF Next

\* The invariant: the frames are a tree that the bodies own, along one path of
\* which the polls nest, each in the allocator of the scopes around it, and the
\* slab lives above all that are in it.
THEOREM Invariance == Spec => []IInv
<1> QED BY IInvInit, IInvStep, PTL DEF Spec

\* Every frame is in the allocator of the innermost allocate_in around its call,
\* whatever was suspended, cancelled or thrown in between, and between two polls
\* of block_on the default allocator is the current one.
THEOREM AllocatorsNest == Spec => []FramesWhereTheyBelong
<1>1. IInv => FramesWhereTheyBelong
  <2> SUFFICES ASSUME IInv PROVE FramesWhereTheyBelong
    OBVIOUS
  <2>1. \A p \in DOMAIN frames : frames[p].bare \/ frames[p].in = Scope(frames, p)
    BY DEF IInv, Guarded
  <2>2. Polling \/ current = "default"
    BY DEF IInv, Guarded
  <2> QED BY <2>1, <2>2 DEF FramesWhereTheyBelong, Scope, Chosen
<1> QED BY <1>1, Invariance, PTL

\* A block of the slab is taken if and only if one frame is in it, and no frame
\* is left in a slab that is gone.
THEOREM BlocksAreThoseOfFrames == Spec => []BlocksMatchFrames
<1>1. IInv => BlocksMatchFrames
  <2> SUFFICES ASSUME IInv, NEW c \in Classes
               PROVE  /\ blocks[c] = {frames[p].index : p \in InSlab(c)}
                      /\ Cardinality(blocks[c]) = Cardinality(InSlab(c))
                      /\ home = Nobody => InSlab(c) = {}
    BY DEF BlocksMatchFrames, InSlab
  <2>1. /\ blocks[c] = {frames[p].index : p \in InSlab(c)}
        /\ \A p, q \in InSlab(c) : frames[p].index = frames[q].index => p = q
    BY DEF IInv, BlocksTaken
  <2>2. IsFiniteSet(InSlab(c))
    <3>1. IsFiniteSet(DOMAIN frames) /\ InSlab(c) \in SUBSET DOMAIN frames
      BY DEF IInv, Structure, Types, InSlab
    <3> QED BY <3>1, FS_Subset
  <2>3. ExistsBijection(InSlab(c), blocks[c])
    <3> DEFINE f == [p \in InSlab(c) |-> frames[p].index]
    <3>1. f \in Bijection(InSlab(c), blocks[c])
      BY <2>1 DEF Bijection, Injection, Surjection, IsInjective
    <3> QED BY <3>1 DEF ExistsBijection
  <2>4. Cardinality(blocks[c]) = Cardinality(InSlab(c))
    BY <2>2, <2>3, FS_Bijection
  <2>5. home = Nobody => InSlab(c) = {}
    BY NoSlabNoFrames DEF IInv
  <2> QED BY <2>1, <2>4, <2>5
<1> QED BY <1>1, Invariance, PTL

------------------------------------------------------------------------------
(* The locks.                                                              *)

GuardRecords == {g \in [lock : LockNames, mode : {"read", "write"}] : IsGuard(g)}
Waiters == [frame : Paths, mode : {"read", "write"}, quiet : BOOLEAN]
LockStates == [readers : Int, writer : BOOLEAN, queue : Seq(Waiters), served : SUBSET Paths]
Locks == [LockNames -> LockStates]

\* Where the frames have guards, and which: those of G that are of one lock.
Places(fs) == UNION {{<<p, i>> : i \in DOMAIN fs[p].guards} : p \in DOMAIN fs}
Kinds(fs) == [g \in Places(fs) |-> fs[g[1]].guards[g[2]]]
Held(K, G, lock, mode) == {g \in G : K[g] = [lock |-> lock, mode |-> mode]}

\* The mutex is locked for one guard or for one waiter that it was given to, and
\* who waits for it, or has just been given it, is among those that may.
MutexOK(l, held, waits) ==
    /\ l.writer = (held # {} \/ l.served # {})
    /\ \A g, h \in held : g = h
    /\ \A p, q \in l.served : p = q
    /\ held = {} \/ l.served = {}
    /\ l.served \subseteq waits
    /\ \A i \in DOMAIN l.queue : l.queue[i].frame \in waits \ l.served
    /\ \A i, j \in DOMAIN l.queue : l.queue[i].frame = l.queue[j].frame => i = j

\* The shared_mutex counts its guards.
SharedOK(l, write, read) ==
    /\ l.writer = (write # {})
    /\ \A g, h \in write : g = h
    /\ IsFiniteSet(read) /\ l.readers = Cardinality(read)

\* What holds of the locks while the guards in G are there, and, if counted,
\* as long as the shared_mutex counts all of its guards.
Settled(ls, K, G, waits, counted) ==
    /\ ls \in Locks
    /\ MutexOK(ls["mutex"], Held(K, G, "mutex", "write"), waits)
    /\ counted => SharedOK(ls["shared_mutex"], Held(K, G, "shared_mutex", "write"),
                           Held(K, G, "shared_mutex", "read"))

\* A frame waits for the mutex as long as its body stays at that step.
OnStack == {stack[j].frame : j \in DOMAIN stack}
AwaitsMutex(f) ==
    /\ f.state = "suspended"
    /\ f.pc \in DOMAIN f.body /\ f.body[f.pc].do = "lock" /\ f.body[f.pc].lock = "mutex"
Waits(p) ==
    /\ AwaitsMutex(frames[p])
    /\ p \in OnStack => p = P /\ phase \in {"poll", "return"}
Waiting == {p \in DOMAIN frames : Waits(p)}

\* The step that shared_mutex does not count: a waiter that was served takes its
\* guard.
TakesUncounted ==
    Polls("lock") /\ Now.lock = "shared_mutex" /\ P \in locks["shared_mutex"].served

\* The invariant of the locks: of the mutex alone, or, as long as TakesUncounted
\* was not taken, of both.  A body that has not begun or is over has no guard.
LInv(counted) ==
    /\ \A p \in DOMAIN frames :
          /\ frames[p].guards \in Seq(GuardRecords)
          /\ frames[p].pc <= 1 \/ frames[p].state # "suspended" => frames[p].guards = <<>>
    /\ Settled(locks, Kinds(frames), Places(frames), Waiting, counted)

\* The steps at which the frame that is polled takes a lock, or waits for it.
LockBecomes(new) == locks' = [locks EXCEPT ![Now.lock] = new]
QueueBecomes(queue) == locks' = [locks EXCEPT ![Now.lock].queue = queue]
MayTake(taken, counted) ==
    LET l == locks[Now.lock] IN
    \/ /\ P \in l.served /\ taken = [l EXCEPT !.served = @ \ {P}]
       /\ counted => Now.lock = "mutex"
    \/ /\ MayEnter(l, Now.lock, Now.mode) /\ taken = Enter(l, Now.mode)
       /\ Now.lock = "mutex" => \A i \in DOMAIN l.queue : l.queue[i].frame # P
TakesGuard(new) ==
    /\ new.pc = F.pc + 1 /\ new.state = "suspended"
    /\ new.guards = Append(F.guards, [lock |-> Now.lock, mode |-> Now.mode])
MayWait(queue) ==
    LET l == locks[Now.lock] IN
    /\ queue \in Seq(Waiters) /\ P \notin l.served
    /\ \A i \in DOMAIN queue : \/ queue[i].frame = P
                               \/ \E j \in DOMAIN l.queue : queue[i].frame = l.queue[j].frame
    /\ Now.lock = "mutex" => \A i, j \in DOMAIN queue : queue[i].frame = queue[j].frame => i = j

------------------------------------------------------------------------------
(* Folds.                                                                  *)

\* A nonempty set of subsets of a finite set has one that is not in it any more
\* without one of its elements, whichever.
LEMMA SmallestSet ==
    ASSUME NEW S, IsFiniteSet(S), NEW T, T \subseteq SUBSET S, T # {}
    PROVE  \E s \in T : \A x \in s : s \ {x} \notin T
<1> DEFINE sizes == {Cardinality(s) : s \in T}
<1>1. \A s \in T : IsFiniteSet(s) /\ Cardinality(s) \in Nat
  BY FS_Subset, FS_CardinalityType
<1>2. sizes \subseteq Nat /\ sizes # {}
  BY <1>1
<1>3. Min(sizes) \in sizes /\ \A n \in sizes : Min(sizes) <= n
  <2> HIDE DEF sizes
  <2> QED BY <1>2, HasMinimum
<1>4. PICK s \in T : \A t \in T : Cardinality(s) <= Cardinality(t)
  BY <1>3
<1>5. ASSUME NEW x \in s, s \ {x} \in T PROVE FALSE
  <2>1. Cardinality(s \ {x}) = Cardinality(s) - 1
    BY <1>1, FS_RemoveElement
  <2>2. Cardinality(s) <= Cardinality(s \ {x}) /\ Cardinality(s) \in Nat
    BY <1>1, <1>4, <1>5
  <2> QED BY <2>1, <2>2
<1> QED BY <1>5

\* The recursive functions of a fold, which at each step applies what belongs to
\* one of the elements that are left.
Iterations(S, V, base, apply, one) ==
    {iter \in [SUBSET S -> V] :
        /\ iter[{}] = base
        /\ \A s \in SUBSET S : s # {} => iter[s] = apply[one[s]][iter[s \ {one[s]}]]}

\* There is one, if what it applies maps V to itself.
LEMMA FoldExists ==
    ASSUME NEW S, IsFiniteSet(S), NEW V, NEW base \in V, NEW apply, NEW one,
           \A x \in S : \A v \in V : apply[x][v] \in V,
           \A s \in SUBSET S : s # {} => one[s] \in s
    PROVE  Iterations(S, V, base, apply, one) # {}
<1> DEFINE Sized(n) == {s \in SUBSET S : Cardinality(s) <= n}
           IsIter(f, n) ==
              f = [s \in Sized(n) |-> IF s = {} THEN base ELSE apply[one[s]][f[s \ {one[s]}]]]
           Lacking == {n \in Nat : \A f : ~(IsIter(f, n) /\ \A s \in Sized(n) : f[s] \in V)}
<1>1. \A s \in SUBSET S : IsFiniteSet(s) /\ Cardinality(s) \in Nat
  BY FS_Subset, FS_CardinalityType
<1>2. \A s \in SUBSET S : s # {} => one[s] \in s
  OBVIOUS
<1>3. \A s \in SUBSET S : s # {} => /\ s \ {one[s]} \in SUBSET S
                                   /\ Cardinality(s \ {one[s]}) = Cardinality(s) - 1
  BY <1>1, <1>2, FS_RemoveElement
<1>4. Lacking = {}
  <2> SUFFICES ASSUME Lacking # {} PROVE FALSE
    OBVIOUS
  <2>1. Lacking \subseteq Nat
    OBVIOUS
  <2>2. Min(Lacking) \in Lacking /\ \A n \in Lacking : Min(Lacking) <= n
    <3> HIDE DEF Lacking
    <3> QED BY <2>1, HasMinimum
  <2>3. PICK n \in Lacking : \A m \in Lacking : n <= m
    <3> HIDE DEF Lacking
    <3> QED BY <2>2
  <2>4. n \in Nat /\ \A f : ~(IsIter(f, n) /\ \A s \in Sized(n) : f[s] \in V)
    BY <2>3
  <2>5. n # 0
    <3> SUFFICES ASSUME n = 0 PROVE FALSE
      OBVIOUS
    <3> DEFINE none == [s \in Sized(n) |-> base]
    <3>1. ASSUME NEW s \in Sized(n) PROVE s = {}
      <4>1. s \in SUBSET S /\ Cardinality(s) <= n /\ Cardinality(s) \in Nat
        BY <1>1, <3>1
      <4>2. Cardinality(s) = 0
        BY <4>1
      <4> QED BY <1>1, <4>1, <4>2, FS_EmptySet
    <3>2. none = [s \in Sized(n) |->
                    IF s = {} THEN base ELSE apply[one[s]][none[s \ {one[s]}]]]
      <4> HIDE DEF Sized
      <4> QED BY <3>1
    <3>3. IsIter(none, n)
      BY <3>2
    <3>4. \A s \in Sized(n) : none[s] \in V
      OBVIOUS
    <3> HIDE DEF none, IsIter
    <3> QED BY <2>4, <3>3, <3>4
  <2>6. n - 1 \in Nat /\ n - 1 \notin Lacking
    <3>1. n - 1 \in Nat /\ ~(n <= n - 1)
      BY <2>4, <2>5
    <3> HIDE DEF Lacking
    <3> QED BY <2>3, <3>1
  <2>7. PICK f : IsIter(f, n - 1) /\ \A s \in Sized(n - 1) : f[s] \in V
    BY <2>6
  <2> DEFINE more == [s \in Sized(n) |->
                        IF s = {} THEN base ELSE apply[one[s]][f[s \ {one[s]}]]]
  <2>8. Sized(n - 1) \subseteq Sized(n)
    BY <1>1, <2>4
  <2>9. \A s \in Sized(n) : s # {} => s \ {one[s]} \in Sized(n - 1)
    BY <1>1, <1>3, <2>4
  <2>10. \A s \in Sized(n - 1) :
            f[s] = IF s = {} THEN base ELSE apply[one[s]][f[s \ {one[s]}]]
    <3> HIDE DEF Sized
    <3> QED BY <2>7
  <2>11. \A s \in Sized(n - 1) : more[s] = f[s]
    <3> HIDE DEF Sized
    <3> QED BY <2>8, <2>10
  <2>12. more = [s \in Sized(n) |-> IF s = {} THEN base ELSE apply[one[s]][more[s \ {one[s]}]]]
    <3>1. \A s \in Sized(n) : s # {} => more[s \ {one[s]}] = f[s \ {one[s]}]
      <4> HIDE DEF Sized, more
      <4> QED BY <2>9, <2>11
    <3> HIDE DEF Sized
    <3> QED BY <3>1
  <2>13. \A s \in Sized(n) : more[s] \in V
    <3>1. ASSUME NEW s \in Sized(n), s # {} PROVE apply[one[s]][f[s \ {one[s]}]] \in V
      <4>1. s \in SUBSET S /\ one[s] \in S
        BY <1>2, <3>1
      <4>2. f[s \ {one[s]}] \in V
        <5> HIDE DEF Sized
        <5> QED BY <2>7, <2>9, <3>1
      <4> QED BY <4>1, <4>2
    <3> HIDE DEF Sized
    <3> QED BY <3>1
  <2>14. IsIter(more, n)
    BY <2>12
  <2> HIDE DEF more, IsIter, Sized
  <2> QED BY <2>4, <2>13, <2>14
<1> DEFINE size == Cardinality(S)
<1>5. size \in Nat /\ size \notin Lacking
  <2>1. size \in Nat
    BY FS_CardinalityType
  <2> HIDE DEF Lacking
  <2> QED BY <1>4, <2>1
<1>6. Sized(size) = SUBSET S
  BY FS_Subset
<1>7. PICK f : IsIter(f, size) /\ \A s \in Sized(size) : f[s] \in V
  BY <1>5
<1>8. f = [s \in SUBSET S |-> IF s = {} THEN base ELSE apply[one[s]][f[s \ {one[s]}]]]
  BY <1>6, <1>7
<1>9. f \in [SUBSET S -> V]
  BY <1>6, <1>7, <1>8
<1>10. \A s \in SUBSET S : f[s] = IF s = {} THEN base ELSE apply[one[s]][f[s \ {one[s]}]]
  BY <1>8
<1> QED BY <1>9, <1>10 DEF Iterations

\* What such a function keeps from step to step, it keeps to the end.
LEMMA SetInduction ==
    ASSUME NEW S, IsFiniteSet(S), NEW f, NEW Ok, f[{}] \in Ok[{}],
           \A s \in SUBSET S : s # {} =>
              \E x \in s : f[s \ {x}] \in Ok[s \ {x}] => f[s] \in Ok[s]
    PROVE  f[S] \in Ok[S]
<1> DEFINE bad == {s \in SUBSET S : f[s] \notin Ok[s]}
<1>1. CASE bad = {}
  BY <1>1
<1>2. CASE bad # {}
  <2>1. bad \subseteq SUBSET S
    OBVIOUS
  <2>2. PICK s \in bad : \A x \in s : s \ {x} \notin bad
    <3> HIDE DEF bad
    <3> QED BY <1>2, <2>1, SmallestSet
  <2>3. s \in SUBSET S /\ f[s] \notin Ok[s] /\ s # {}
    BY <2>2
  <2>4. \A x \in s : s \ {x} \in SUBSET S
    BY <2>3
  <2> QED BY <2>2, <2>3, <2>4
<1> QED BY <1>1, <1>2

\* If each guard's release leads from Ok without that guard to Ok with it, all
\* releases together lead to the last Ok, in whatever order they come.
LEMMA ReleaseAllKeeps ==
    ASSUME NEW guards \in Seq(GuardRecords), NEW ls \in Locks,
           \A g \in GuardRecords : \A all \in Locks : ReleaseGuard(g, all) \in Locks,
           NEW Ok, ls \in Ok[{}],
           \A s \in SUBSET DOMAIN guards : \A i \in s : \A all \in Locks :
              all \in Ok[s \ {i}] => ReleaseGuard(guards[i], all) \in Ok[s]
    PROVE  ReleaseAll(ls, guards) \in Locks \cap Ok[DOMAIN guards]
<1> DEFINE S == DOMAIN guards
           One(s) == CHOOSE i \in s : TRUE
           IsIter(f) == f = [s \in SUBSET S |-> IF s = {} THEN ls
                                ELSE ReleaseGuard(guards[One(s)], f[s \ {One(s)}])]
           apply == [i \in S |-> [all \in Locks |-> ReleaseGuard(guards[i], all)]]
           one == [s \in SUBSET S |-> One(s)]
           iter == CHOOSE f : IsIter(f)
<1>1. ReleaseAll(ls, guards) = iter[S]
  BY DEF ReleaseAll, FoldSeq, FoldFunction, FoldFunctionOnSet, MapThenFoldSet
<1>2. IsFiniteSet(S) /\ \A i \in S : guards[i] \in GuardRecords
  <2>1. S = 1..Len(guards) /\ Len(guards) \in Nat
    BY LenProperties
  <2> QED BY <2>1, FS_Interval, ElementOfSeq
<1>3. \A i \in S : \A all \in Locks :
         apply[i][all] = ReleaseGuard(guards[i], all) /\ apply[i][all] \in Locks
  BY <1>2
<1>4. \A s \in SUBSET S : s # {} => One(s) \in s /\ One(s) \in S /\ s \ {One(s)} \in SUBSET S
  OBVIOUS
<1> HIDE DEF S, apply
<1> HIDE DEF One
<1>5. PICK f : f \in Iterations(S, Locks, ls, apply, one)
  <2>1. \A s \in SUBSET S : s # {} => one[s] \in s
    BY <1>4
  <2>2. \A i \in S : \A all \in Locks : apply[i][all] \in Locks
    BY <1>3
  <2>3. IsFiniteSet(S)
    BY <1>2
  <2> HIDE DEF one
  <2> QED BY <2>1, <2>2, <2>3, FoldExists, Zenon
<1>6. IsIter(f)
  <2>0. /\ f \in [SUBSET S -> Locks] /\ f[{}] = ls
        /\ \A s \in SUBSET S : s # {} => f[s] = apply[one[s]][f[s \ {one[s]}]]
    BY <1>5 DEF Iterations
  <2>1. f = [s \in SUBSET S |-> IF s = {} THEN ls ELSE apply[One(s)][f[s \ {One(s)}]]]
    BY <2>0
  <2>2. \A s \in SUBSET S : s # {} =>
           apply[One(s)][f[s \ {One(s)}]] = ReleaseGuard(guards[One(s)], f[s \ {One(s)}])
    BY <1>3, <1>4, <2>0
  <2> QED BY <2>1, <2>2
<1>7. IsIter(iter)
  <2> HIDE DEF IsIter
  <2> QED BY <1>6
<1> HIDE DEF iter
<1>8. /\ iter[{}] = ls
      /\ \A s \in SUBSET S : s # {} =>
            iter[s] = ReleaseGuard(guards[One(s)], iter[s \ {One(s)}])
  <2> QED BY <1>7
<1> HIDE DEF IsIter
<1> DEFINE Good == [s \in SUBSET S |-> Locks \cap Ok[s]]
<1>9. iter[{}] \in Good[{}]
  BY <1>8
<1>10. ASSUME NEW s \in SUBSET S, s # {}
       PROVE  \E i \in s : iter[s \ {i}] \in Good[s \ {i}] => iter[s] \in Good[s]
  <2>1. One(s) \in s /\ One(s) \in S /\ s \ {One(s)} \in SUBSET S
    BY <1>4, <1>10
  <2>2. ASSUME iter[s \ {One(s)}] \in Good[s \ {One(s)}] PROVE iter[s] \in Good[s]
    <3>1. iter[s \ {One(s)}] \in Locks /\ iter[s \ {One(s)}] \in Ok[s \ {One(s)}]
      BY <2>1, <2>2
    <3>2. iter[s] = ReleaseGuard(guards[One(s)], iter[s \ {One(s)}])
      BY <1>8, <1>10
    <3>3. iter[s] \in Locks /\ iter[s] \in Ok[s]
      BY <1>2, <2>1, <3>1, <3>2 DEF S
    <3> QED BY <3>3
  <2> QED BY <2>1, <2>2
<1>11. iter[S] \in Good[S]
  <2> HIDE DEF Good
  <2> QED BY <1>2, <1>9, <1>10, SetInduction
<1>12. ReleaseAll(ls, guards) \in Locks /\ ReleaseAll(ls, guards) \in Ok[S]
  BY <1>1, <1>11
<1> QED BY <1>12 DEF S

\* The same for the frames that are destroyed.
LEMMA LeaveAllKeeps ==
    ASSUME NEW S, IsFiniteSet(S), NEW ls \in Locks,
           \A p \in S : \A all \in Locks : Leave(p, all) \in Locks,
           NEW Ok, ls \in Ok[{}],
           \A s \in SUBSET S : \A p \in s : \A all \in Locks :
              all \in Ok[s \ {p}] => Leave(p, all) \in Ok[s]
    PROVE  LeaveAll(ls, S) \in Locks \cap Ok[S]
<1> DEFINE One(s) == CHOOSE p \in s : TRUE
           IsIter(f) == f = [s \in SUBSET S |-> IF s = {} THEN ls
                                ELSE Leave(One(s), f[s \ {One(s)}])]
           apply == [p \in S |-> [all \in Locks |-> Leave(p, all)]]
           one == [s \in SUBSET S |-> One(s)]
           iter == CHOOSE f : IsIter(f)
<1>1. LeaveAll(ls, S) = iter[S]
  BY DEF LeaveAll, FoldSet, MapThenFoldSet
<1>2. \A p \in S : \A all \in Locks :
         apply[p][all] = Leave(p, all) /\ apply[p][all] \in Locks
  OBVIOUS
<1>3. \A s \in SUBSET S : s # {} => One(s) \in s /\ One(s) \in S /\ s \ {One(s)} \in SUBSET S
  OBVIOUS
<1> HIDE DEF apply
<1> HIDE DEF One
<1>4. PICK f : f \in Iterations(S, Locks, ls, apply, one)
  <2>1. \A s \in SUBSET S : s # {} => one[s] \in s
    BY <1>3
  <2>2. \A p \in S : \A all \in Locks : apply[p][all] \in Locks
    BY <1>2
  <2> HIDE DEF one
  <2> QED BY <2>1, <2>2, FoldExists, Zenon
<1>5. IsIter(f)
  <2>0. /\ f \in [SUBSET S -> Locks] /\ f[{}] = ls
        /\ \A s \in SUBSET S : s # {} => f[s] = apply[one[s]][f[s \ {one[s]}]]
    BY <1>4 DEF Iterations
  <2>1. f = [s \in SUBSET S |-> IF s = {} THEN ls ELSE apply[One(s)][f[s \ {One(s)}]]]
    BY <2>0
  <2>2. \A s \in SUBSET S : s # {} =>
           apply[One(s)][f[s \ {One(s)}]] = Leave(One(s), f[s \ {One(s)}])
    BY <1>2, <1>3, <2>0
  <2> QED BY <2>1, <2>2
<1>6. IsIter(iter)
  <2> HIDE DEF IsIter
  <2> QED BY <1>5
<1> HIDE DEF iter
<1>7. /\ iter[{}] = ls
      /\ \A s \in SUBSET S : s # {} => iter[s] = Leave(One(s), iter[s \ {One(s)}])
  <2> QED BY <1>6
<1> HIDE DEF IsIter
<1> DEFINE Good == [s \in SUBSET S |-> Locks \cap Ok[s]]
<1>8. iter[{}] \in Good[{}]
  BY <1>7
<1>9. ASSUME NEW s \in SUBSET S, s # {}
      PROVE  \E p \in s : iter[s \ {p}] \in Good[s \ {p}] => iter[s] \in Good[s]
  <2>1. One(s) \in s /\ One(s) \in S /\ s \ {One(s)} \in SUBSET S
    BY <1>3, <1>9
  <2>2. ASSUME iter[s \ {One(s)}] \in Good[s \ {One(s)}] PROVE iter[s] \in Good[s]
    <3>1. iter[s \ {One(s)}] \in Locks /\ iter[s \ {One(s)}] \in Ok[s \ {One(s)}]
      BY <2>1, <2>2
    <3>2. iter[s] = Leave(One(s), iter[s \ {One(s)}])
      BY <1>7, <1>9
    <3>3. iter[s] \in Locks /\ iter[s] \in Ok[s]
      BY <2>1, <3>1, <3>2
    <3> QED BY <3>3
  <2> QED BY <2>1, <2>2
<1>10. iter[S] \in Good[S]
  <2> HIDE DEF Good
  <2> QED BY <1>8, <1>9, SetInduction
<1>11. LeaveAll(ls, S) \in Locks /\ LeaveAll(ls, S) \in Ok[S]
  BY <1>1, <1>10
<1> QED BY <1>11

------------------------------------------------------------------------------
(* What each operation of a lock leaves.                                   *)

LEMMA Removed ==
    ASSUME NEW T, NEW q \in Seq(T), NEW k \in 1..Len(q)
    PROVE  /\ RemoveAt(q, k) \in Seq(T) /\ Len(RemoveAt(q, k)) = Len(q) - 1
           /\ DOMAIN RemoveAt(q, k) = 1..(Len(q) - 1)
           /\ \A i \in 1..(Len(q) - 1) :
                 RemoveAt(q, k)[i] = IF i < k THEN q[i] ELSE q[i + 1]
<1> DEFINE front == SubSeq(q, 1, k - 1)
           back == SubSeq(q, k + 1, Len(q))
           e == front \o back
<1>1. k \in 1..Len(q) /\ Len(q) \in Nat
  BY LenProperties
<1>2. RemoveAt(q, k) = e
  BY DEF RemoveAt
<1>3. \A i \in 1..Len(q) : q[i] \in T
  BY ElementOfSeq
<1>4. front \in Seq(T) /\ Len(front) = k - 1 /\ \A i \in 1..(k - 1) : front[i] = q[i]
  BY <1>1, <1>3, SubSeqProperties
<1>5. back \in Seq(T) /\ Len(back) = Len(q) - k /\ \A i \in 1..(Len(q) - k) : back[i] = q[k + i]
  <2>1. \A i \in (k + 1)..Len(q) : q[i] \in T
    BY <1>1, <1>3
  <2>2. /\ back \in Seq(T)
        /\ Len(back) = IF k + 1 <= Len(q) THEN Len(q) - (k + 1) + 1 ELSE 0
        /\ \A i \in 1..(Len(q) - (k + 1) + 1) : back[i] = q[k + 1 + i - 1]
    BY <1>1, <2>1, SubSeqProperties
  <2> QED BY <1>1, <2>2
<1> HIDE DEF front, back
<1>6. /\ e \in Seq(T) /\ Len(e) = Len(q) - 1
      /\ \A i \in 1..(Len(q) - 1) : e[i] = IF i < k THEN q[i] ELSE q[i + 1]
  <2>1. /\ e \in Seq(T) /\ Len(e) = Len(front) + Len(back)
        /\ \A i \in 1..(Len(front) + Len(back)) :
              e[i] = IF i <= Len(front) THEN front[i] ELSE back[i - Len(front)]
    BY <1>4, <1>5, ConcatProperties
  <2> QED BY <1>1, <1>4, <1>5, <2>1
<1>7. DOMAIN e = 1..(Len(q) - 1)
  BY <1>6, LenProperties
<1> QED BY <1>2, <1>6, <1>7

\* The first n are gone.
LEMMA Rest ==
    ASSUME NEW T, NEW q \in Seq(T), NEW n \in 0..Len(q)
    PROVE  LET rest == SubSeq(q, n + 1, Len(q)) IN
           /\ rest \in Seq(T) /\ DOMAIN rest = 1..(Len(q) - n)
           /\ \A i \in 1..(Len(q) - n) : rest[i] = q[n + i]
<1> DEFINE rest == SubSeq(q, n + 1, Len(q))
<1>1. Len(q) \in Nat /\ \A i \in 1..Len(q) : q[i] \in T
  BY LenProperties, ElementOfSeq
<1>2. \A i \in (n + 1)..Len(q) : q[i] \in T
  BY <1>1
<1>3. /\ rest \in Seq(T)
      /\ Len(rest) = IF n + 1 <= Len(q) THEN Len(q) - (n + 1) + 1 ELSE 0
      /\ \A i \in 1..(Len(q) - (n + 1) + 1) : rest[i] = q[n + 1 + i - 1]
  BY <1>1, <1>2, SubSeqProperties
<1> HIDE DEF rest
<1>4. Len(rest) = Len(q) - n /\ DOMAIN rest = 1..Len(rest)
  BY <1>1, <1>3, LenProperties
<1>5. \A i \in 1..(Len(q) - n) : n + 1 + i - 1 = n + i /\ i \in 1..(Len(q) - (n + 1) + 1)
  BY <1>1
<1>6. /\ rest \in Seq(T) /\ DOMAIN rest = 1..(Len(q) - n)
      /\ \A i \in 1..(Len(q) - n) : rest[i] = q[n + i]
  BY <1>3, <1>4, <1>5
<1> QED BY <1>6 DEF rest

\* find and erase: the waiter at p goes, the others stay.
LEMMA WithoutType ==
    ASSUME NEW q \in Seq(Waiters), NEW p
    PROVE  Without(q, p) \in Seq(Waiters)
<1> DEFINE places == {i \in DOMAIN q : q[i].frame = p}
<1>1. DOMAIN q = 1..Len(q) /\ Len(q) \in Nat
  BY LenProperties
<1>2. CASE places = {}
  BY <1>2 DEF Without
<1>3. CASE places # {}
  <2>1. Min(places) \in places
    <3>1. places \subseteq Nat
      BY <1>1
    <3> HIDE DEF places
    <3> QED BY <1>3, <3>1, HasMinimum
  <2>2. Min(places) \in 1..Len(q)
    BY <1>1, <2>1
  <2>3. Without(q, p) = RemoveAt(q, Min(places))
    BY <1>3 DEF Without
  <2> HIDE DEF places
  <2> QED BY <2>2, <2>3, Removed
<1> QED BY <1>2, <1>3

LEMMA WithoutIt ==
    ASSUME NEW q \in Seq(Waiters), NEW p,
           \A i, j \in DOMAIN q : q[i].frame = q[j].frame => i = j
    PROVE  /\ \A i \in DOMAIN Without(q, p) :
                 \E j \in DOMAIN q : Without(q, p)[i] = q[j] /\ q[j].frame # p
           /\ \A i, j \in DOMAIN Without(q, p) :
                 Without(q, p)[i].frame = Without(q, p)[j].frame => i = j
<1> DEFINE places == {i \in DOMAIN q : q[i].frame = p}
<1>1. DOMAIN q = 1..Len(q) /\ Len(q) \in Nat
  BY LenProperties
<1>2. CASE places = {}
  BY <1>2 DEF Without
<1>3. CASE places # {}
  <2>1. Min(places) \in places
    <3>1. places \subseteq Nat
      BY <1>1
    <3> HIDE DEF places
    <3> QED BY <1>3, <3>1, HasMinimum
  <2>2. PICK k \in 1..Len(q) : k = Min(places) /\ q[k].frame = p
    BY <1>1, <2>1
  <2>3. Without(q, p) = RemoveAt(q, k)
    BY <1>3, <2>2 DEF Without
  <2> DEFINE w == RemoveAt(q, k)
             From(i) == IF i < k THEN i ELSE i + 1
  <2>4. DOMAIN w = 1..(Len(q) - 1) /\ \A i \in 1..(Len(q) - 1) : w[i] = q[From(i)]
    BY Removed
  <2> HIDE DEF w
  <2>5. \A i \in DOMAIN w : From(i) \in DOMAIN q /\ From(i) # k
    BY <1>1, <2>4
  <2>6. \A i, j \in DOMAIN w : From(i) = From(j) => i = j
    BY <1>1, <2>4
  <2>7. \A i \in DOMAIN w : w[i] = q[From(i)]
    BY <2>4
  <2> HIDE DEF From, places
  <2>8. \A i \in DOMAIN w : \E j \in DOMAIN q : w[i] = q[j] /\ q[j].frame # p
    BY <1>1, <2>2, <2>5, <2>7
  <2>9. \A i, j \in DOMAIN w : w[i].frame = w[j].frame => i = j
    BY <2>5, <2>6, <2>7
  <2> QED BY <2>3, <2>8, <2>9 DEF w
<1> QED BY <1>2, <1>3

LEMMA ServeType ==
    ASSUME NEW l \in LockStates, NEW n \in 0..Len(l.queue)
    PROVE  /\ Serve(l, n) \in LockStates
           /\ Serve(l, n).writer = l.writer /\ Serve(l, n).readers = l.readers
<1>1. l.queue \in Seq(Waiters) /\ l.served \in SUBSET Paths
  BY DEF LockStates
<1>2. Len(l.queue) \in Nat /\ \A i \in 1..Len(l.queue) : l.queue[i].frame \in Paths
  <2>1. Len(l.queue) \in Nat /\ \A i \in 1..Len(l.queue) : l.queue[i] \in Waiters
    BY <1>1, LenProperties, ElementOfSeq
  <2> QED BY <2>1 DEF Waiters
<1>3. SubSeq(l.queue, n + 1, Len(l.queue)) \in Seq(Waiters)
  BY <1>1, Rest
<1>4. \A i \in 1..n : l.queue[i].frame \in Paths
  BY <1>2
<1>5. l.served \cup {l.queue[i].frame : i \in 1..n} \in SUBSET Paths
  BY <1>1, <1>4
<1> HIDE DEF Paths
<1> QED BY <1>3, <1>5 DEF Serve, LockStates

LEMMA WakeNextType ==
    ASSUME NEW l \in LockStates
    PROVE  /\ WakeNext(l) \in LockStates
           /\ WakeNext(l).writer = l.writer /\ WakeNext(l).readers = l.readers
<1> DEFINE writers == {i \in DOMAIN l.queue : l.queue[i].mode = "write"}
           n == Min(writers \cup {Len(l.queue) + 1}) - 1
<1>1. l.queue \in Seq(Waiters)
  BY DEF LockStates
<1>2. Len(l.queue) \in Nat /\ DOMAIN l.queue = 1..Len(l.queue)
  BY <1>1, LenProperties
<1>3. l.queue # <<>> => Len(l.queue) # 0
  BY <1>1, EmptySeq
<1>4. n \in 0..Len(l.queue)
  <2> DEFINE places == writers \cup {Len(l.queue) + 1}
  <2>1. places \subseteq 1..(Len(l.queue) + 1) /\ Len(l.queue) + 1 \in places
    BY <1>2
  <2>2. Min(places) \in places
    <3>1. places \subseteq Nat /\ places # {}
      BY <1>2, <2>1
    <3> HIDE DEF places
    <3> QED BY <3>1, HasMinimum
  <2>3. Min(places) \in 1..(Len(l.queue) + 1)
    BY <2>1, <2>2
  <2>4. n = Min(places) - 1
    OBVIOUS
  <2> HIDE DEF places, n
  <2> QED BY <1>2, <2>3, <2>4
<1>5. l.queue = <<>> \/ WakeNext(l) = Serve(l, 1) \/ WakeNext(l) = Serve(l, n)
  BY DEF WakeNext
<1>6. l.queue = <<>> => WakeNext(l) = l
  BY DEF WakeNext
<1>7. l.queue # <<>> => 1 \in 0..Len(l.queue)
  BY <1>2, <1>3
<1> HIDE DEF n
<1> QED BY <1>4, <1>5, <1>6, <1>7, ServeType

LEMMA ReleaseType ==
    ASSUME NEW l \in LockStates, NEW lock \in LockNames, NEW mode \in {"read", "write"}
    PROVE  Release(l, lock, mode) \in LockStates
<1> DEFINE left == [l EXCEPT !.readers = @ - 1]
           free == [l EXCEPT !.writer = FALSE]
<1>1. left \in LockStates
  BY DEF LockStates
<1>2. free \in LockStates
  BY DEF LockStates
<1>3. l.queue # <<>> => 1 \in 0..Len(l.queue)
  <2>1. l.queue \in Seq(Waiters)
    BY DEF LockStates
  <2> QED BY <2>1, LenProperties, EmptySeq
<1>4. \/ Release(l, lock, mode) \in {free, left, WakeNext(free), WakeNext(left)}
      \/ l.queue # <<>> /\ Release(l, lock, mode) = Serve(l, 1)
  BY DEF Release, LockNames
<1> HIDE DEF left, free
<1> QED BY <1>1, <1>2, <1>3, <1>4, WakeNextType, ServeType

LEMMA DeregisterType ==
    ASSUME NEW l \in LockStates, NEW lock \in LockNames, NEW p
    PROVE  Deregister(l, lock, p) \in LockStates
<1> DEFINE gone == [l EXCEPT !.queue = Without(@, p), !.served = @ \ {p}]
<1>1. Without(l.queue, p) \in Seq(Waiters)
  BY WithoutType DEF LockStates
<1>2. gone \in LockStates
  BY <1>1 DEF LockStates
<1>3. Deregister(l, lock, p) = gone \/ Deregister(l, lock, p) = Release(gone, lock, "write")
  BY DEF Deregister
<1> HIDE DEF gone
<1> QED BY <1>2, <1>3, ReleaseType

\* The mutex goes to the first waiter, or is free.
LEMMA MutexRelease ==
    ASSUME NEW l \in LockStates, NEW waits, NEW mode, l.writer = TRUE, l.served = {},
           \A i \in DOMAIN l.queue : l.queue[i].frame \in waits,
           \A i, j \in DOMAIN l.queue : l.queue[i].frame = l.queue[j].frame => i = j
    PROVE  MutexOK(Release(l, "mutex", mode), {}, waits)
<1>1. l.queue \in Seq(Waiters) /\ DOMAIN l.queue = 1..Len(l.queue) /\ Len(l.queue) \in Nat
  BY LenProperties DEF LockStates
<1>2. CASE l.queue = <<>>
  <2> DEFINE free == [l EXCEPT !.writer = FALSE]
  <2>1. Release(l, "mutex", mode) = free
    BY <1>2 DEF Release
  <2>2. free.writer = FALSE /\ free.queue = <<>> /\ free.served = {}
    BY <1>2 DEF LockStates
  <2>3. DOMAIN free.queue = {}
    BY <2>2
  <2> HIDE DEF free
  <2>4. MutexOK(free, {}, waits)
    BY <2>2, <2>3 DEF MutexOK
  <2> QED BY <2>1, <2>4
<1>3. CASE l.queue # <<>>
  <2> DEFINE new == Serve(l, 1)
             first == l.queue[1].frame
  <2>1. Release(l, "mutex", mode) = new
    BY <1>3 DEF Release
  <2>2. 1 \in 1..Len(l.queue) /\ 1 \in 0..Len(l.queue)
    BY <1>1, <1>3, EmptySeq
  <2>3. /\ new.queue = SubSeq(l.queue, 1 + 1, Len(l.queue))
        /\ new.served = l.served \cup {l.queue[i].frame : i \in 1..1}
        /\ new.writer = l.writer
    BY DEF Serve, LockStates
  <2>4. new.served = {first}
    BY <2>3
  <2>5. /\ DOMAIN new.queue = 1..(Len(l.queue) - 1)
        /\ \A i \in 1..(Len(l.queue) - 1) : new.queue[i] = l.queue[1 + i]
    BY <1>1, <2>2, <2>3, Rest
  <2>6. \A i \in DOMAIN new.queue : 1 + i \in DOMAIN l.queue /\ 1 + i # 1
    BY <1>1, <2>5
  <2>7. \A i, j \in DOMAIN new.queue : 1 + i = 1 + j => i = j
    BY <1>1, <2>5
  <2> HIDE DEF new
  <2>8. \A i \in DOMAIN new.queue : new.queue[i].frame \in waits \ {first}
    BY <1>1, <2>2, <2>5, <2>6
  <2>9. ASSUME NEW i \in DOMAIN new.queue, NEW j \in DOMAIN new.queue,
               new.queue[i].frame = new.queue[j].frame
        PROVE  i = j
    <3>1. 1 + i \in DOMAIN l.queue /\ 1 + j \in DOMAIN l.queue
      BY <2>6
    <3>2. l.queue[1 + i].frame = l.queue[1 + j].frame
      BY <2>5, <2>9
    <3> QED BY <2>7, <3>1, <3>2
  <2>10. first \in waits
    BY <1>1, <2>2
  <2> HIDE DEF first
  <2>11. new.writer = TRUE
    BY <2>3
  <2> QED BY <2>1, <2>3, <2>4, <2>8, <2>9, <2>10, <2>11 DEF MutexOK
<1> QED BY <1>2, <1>3

\* A waiter that is gone passes on what it was given.
LEMMA MutexDeregister ==
    ASSUME NEW l \in LockStates, NEW held, NEW waits, NEW p, MutexOK(l, held, waits)
    PROVE  MutexOK(Deregister(l, "mutex", p), held, waits \ {p})
<1> DEFINE gone == [l EXCEPT !.queue = Without(@, p), !.served = @ \ {p}]
<1>1. /\ gone.queue = Without(l.queue, p) /\ gone.served = l.served \ {p}
      /\ gone.writer = l.writer
  BY DEF LockStates
<1>2. gone \in LockStates
  <2>1. Without(l.queue, p) \in Seq(Waiters)
    BY WithoutType DEF LockStates
  <2> QED BY <2>1 DEF LockStates
<1>3. Deregister(l, "mutex", p) =
         IF p \in l.served THEN Release(gone, "mutex", "write") ELSE gone
  BY DEF Deregister
<1> HIDE DEF gone
<1>4. /\ \A i \in DOMAIN gone.queue :
            \E j \in DOMAIN l.queue : gone.queue[i] = l.queue[j] /\ l.queue[j].frame # p
      /\ \A i, j \in DOMAIN gone.queue : gone.queue[i].frame = gone.queue[j].frame => i = j
  BY <1>1, WithoutIt DEF MutexOK, LockStates
<1>5. \A i \in DOMAIN gone.queue : gone.queue[i].frame \in (waits \ {p}) \ l.served
  BY <1>4 DEF MutexOK
<1>6. CASE p \in l.served
  <2>1. l.served = {p} /\ held = {}
    BY <1>6 DEF MutexOK
  <2>2. gone.served = {} /\ gone.writer = TRUE
    BY <1>1, <2>1 DEF MutexOK
  <2>3. \A i \in DOMAIN gone.queue : gone.queue[i].frame \in waits \ {p}
    BY <1>5
  <2>4. \A i, j \in DOMAIN gone.queue : gone.queue[i].frame = gone.queue[j].frame => i = j
    BY <1>4
  <2>5. MutexOK(Release(gone, "mutex", "write"), {}, waits \ {p})
    BY <1>2, <2>2, <2>3, <2>4, MutexRelease
  <2> QED BY <1>3, <1>6, <2>1, <2>5
<1>7. CASE p \notin l.served
  <2>1. gone.served = l.served
    BY <1>1, <1>7
  <2> QED BY <1>1, <1>3, <1>4, <1>5, <1>7, <2>1 DEF MutexOK
<1> QED BY <1>6, <1>7

LEMMA SharedRelease ==
    ASSUME NEW l \in LockStates, NEW write, NEW read, SharedOK(l, write, read), NEW g
    PROVE  /\ g \in write =>
                SharedOK(Release(l, "shared_mutex", "write"), write \ {g}, read)
           /\ g \in read =>
                SharedOK(Release(l, "shared_mutex", "read"), write, read \ {g})
<1> DEFINE left == [l EXCEPT !.readers = @ - 1]
           free == [l EXCEPT !.writer = FALSE]
<1>1. left \in LockStates /\ left.readers = l.readers - 1 /\ left.writer = l.writer
  BY DEF LockStates
<1>2. free \in LockStates /\ free.readers = l.readers /\ free.writer = FALSE
  BY DEF LockStates
<1>3. Release(l, "shared_mutex", "write") = WakeNext(free)
  BY DEF Release
<1>4. Release(l, "shared_mutex", "read") = left \/ Release(l, "shared_mutex", "read") = WakeNext(left)
  BY DEF Release
<1> HIDE DEF left, free
<1>5. ASSUME g \in write
      PROVE  SharedOK(Release(l, "shared_mutex", "write"), write \ {g}, read)
  <2>1. write \ {g} = {}
    BY <1>5 DEF SharedOK
  <2>2. WakeNext(free).writer = FALSE /\ WakeNext(free).readers = l.readers
    BY <1>2, WakeNextType
  <2> QED BY <1>3, <2>1, <2>2 DEF SharedOK
<1>6. ASSUME g \in read
      PROVE  SharedOK(Release(l, "shared_mutex", "read"), write, read \ {g})
  <2>1. IsFiniteSet(read \ {g}) /\ Cardinality(read \ {g}) = Cardinality(read) - 1
    BY <1>6, FS_RemoveElement DEF SharedOK
  <2>2. /\ Release(l, "shared_mutex", "read").writer = l.writer
        /\ Release(l, "shared_mutex", "read").readers = l.readers - 1
    BY <1>1, <1>4, WakeNextType
  <2> QED BY <2>1, <2>2 DEF SharedOK
<1> QED BY <1>5, <1>6

LEMMA SharedDeregister ==
    ASSUME NEW l \in LockStates, NEW write, NEW read, SharedOK(l, write, read), NEW p
    PROVE  SharedOK(Deregister(l, "shared_mutex", p), write, read)
<1>1. /\ Deregister(l, "shared_mutex", p).readers = l.readers
      /\ Deregister(l, "shared_mutex", p).writer = l.writer
  BY DEF Deregister, LockStates
<1> QED BY <1>1 DEF SharedOK

------------------------------------------------------------------------------
(* What all of them leave.                                                 *)

LEMMA ReleaseGuardType ==
    ASSUME NEW g \in GuardRecords, NEW ls \in Locks
    PROVE  ReleaseGuard(g, ls) \in Locks
<1>1. g.lock \in LockNames /\ g.mode \in {"read", "write"}
  BY DEF GuardRecords
<1>2. ls[g.lock] \in LockStates
  BY <1>1 DEF Locks
<1>3. Release(ls[g.lock], g.lock, g.mode) \in LockStates
  BY <1>1, <1>2, ReleaseType
<1> QED BY <1>1, <1>3 DEF ReleaseGuard, Locks

LEMMA ReleaseAllType ==
    ASSUME NEW guards \in Seq(GuardRecords), NEW ls \in Locks
    PROVE  ReleaseAll(ls, guards) \in Locks
<1> DEFINE AnyOf == [s \in SUBSET DOMAIN guards |-> Locks]
<1>1. DOMAIN guards = 1..Len(guards) /\ Len(guards) \in Nat
  BY LenProperties
<1>2. \A s \in SUBSET DOMAIN guards : AnyOf[s] = Locks
  OBVIOUS
<1>3. \A i \in DOMAIN guards : guards[i] \in GuardRecords
  BY <1>1, ElementOfSeq
<1> HIDE DEF AnyOf
<1>4. ls \in AnyOf[{}]
  BY <1>2
<1>5. ASSUME NEW s \in SUBSET DOMAIN guards, NEW i \in s, NEW all \in Locks,
             all \in AnyOf[s \ {i}]
      PROVE  ReleaseGuard(guards[i], all) \in AnyOf[s]
  BY <1>2, <1>3, ReleaseGuardType
<1>6. ReleaseAll(ls, guards) \in Locks \cap AnyOf[DOMAIN guards]
  BY <1>4, <1>5, ReleaseGuardType, ReleaseAllKeeps
<1> QED BY <1>6

\* A guard goes, and its lock is what it should be for the others.
LEMMA SettledRelease ==
    ASSUME NEW ls, NEW K, NEW G, NEW waits, NEW counted \in BOOLEAN,
           Settled(ls, K, G, waits, counted), NEW g \in G, K[g] \in GuardRecords
    PROVE  Settled(ReleaseGuard(K[g], ls), K, G \ {g}, waits, counted)
<1> DEFINE new == ReleaseGuard(K[g], ls)
           mutex == ls["mutex"]
           shared == ls["shared_mutex"]
           M == [lock |-> "mutex", mode |-> "write"]
           W == [lock |-> "shared_mutex", mode |-> "write"]
           R == [lock |-> "shared_mutex", mode |-> "read"]
           heldM == Held(K, G, "mutex", "write")
           heldW == Held(K, G, "shared_mutex", "write")
           heldR == Held(K, G, "shared_mutex", "read")
           lessM == Held(K, G \ {g}, "mutex", "write")
           lessW == Held(K, G \ {g}, "shared_mutex", "write")
           lessR == Held(K, G \ {g}, "shared_mutex", "read")
<1>1. ls \in Locks /\ mutex \in LockStates /\ shared \in LockStates
  BY DEF Settled, Locks, LockNames
<1>2. new \in Locks
  BY <1>1, ReleaseGuardType
<1>3. /\ lessM = IF K[g] = M THEN heldM \ {g} ELSE heldM
      /\ lessW = IF K[g] = W THEN heldW \ {g} ELSE heldW
      /\ lessR = IF K[g] = R THEN heldR \ {g} ELSE heldR
  <2>1. lessM = IF K[g] = M THEN heldM \ {g} ELSE heldM
    BY DEF Held
  <2>2. lessW = IF K[g] = W THEN heldW \ {g} ELSE heldW
    BY DEF Held
  <2>3. lessR = IF K[g] = R THEN heldR \ {g} ELSE heldR
    BY DEF Held
  <2> QED BY <2>1, <2>2, <2>3
<1>4. (K[g] = M => g \in heldM) /\ (K[g] = W => g \in heldW) /\ (K[g] = R => g \in heldR)
  BY DEF Held
<1>5. K[g] \in {M, W, R}
  BY DEF GuardRecords, IsGuard, LockNames
<1>6. MutexOK(mutex, heldM, waits) /\ (counted => SharedOK(shared, heldW, heldR))
  BY DEF Settled
<1>7. /\ K[g] = M => /\ new["mutex"] = Release(mutex, "mutex", "write")
                     /\ new["shared_mutex"] = shared
      /\ K[g] = W => /\ new["mutex"] = mutex
                     /\ new["shared_mutex"] = Release(shared, "shared_mutex", "write")
      /\ K[g] = R => /\ new["mutex"] = mutex
                     /\ new["shared_mutex"] = Release(shared, "shared_mutex", "read")
  BY <1>1 DEF ReleaseGuard, Locks, LockNames
<1>8. M # W /\ M # R /\ W # R
  <2>1. M.lock # W.lock /\ M.lock # R.lock /\ W.mode # R.mode
    OBVIOUS
  <2> HIDE DEF M, W, R
  <2> QED BY <2>1
<1>9. ASSUME MutexOK(new["mutex"], lessM, waits),
             counted => SharedOK(new["shared_mutex"], lessW, lessR)
      PROVE  Settled(new, K, G \ {g}, waits, counted)
  BY <1>2, <1>9 DEF Settled
<1> HIDE DEF new, mutex, shared, M, W, R, heldM, heldW, heldR, lessM, lessW, lessR
<1>10. CASE K[g] = M
  <2>1. lessM = heldM \ {g} /\ g \in heldM /\ lessW = heldW /\ lessR = heldR
    BY <1>3, <1>4, <1>8, <1>10
  <2>2. lessM = {}
    BY <1>6, <2>1 DEF MutexOK
  <2>3. /\ mutex.writer = TRUE /\ mutex.served = {}
        /\ \A i \in DOMAIN mutex.queue : mutex.queue[i].frame \in waits
        /\ \A i, j \in DOMAIN mutex.queue : mutex.queue[i].frame = mutex.queue[j].frame => i = j
    BY <1>1, <1>6, <2>1 DEF MutexOK
  <2>4. MutexOK(Release(mutex, "mutex", "write"), {}, waits)
    BY <1>1, <2>3, MutexRelease
  <2> QED BY <1>6, <1>7, <1>9, <1>10, <2>1, <2>2, <2>4 DEF new
<1>11. CASE K[g] = W
  <2>1. lessW = heldW \ {g} /\ g \in heldW /\ lessM = heldM /\ lessR = heldR
    BY <1>3, <1>4, <1>8, <1>11
  <2>2. counted => SharedOK(Release(shared, "shared_mutex", "write"), heldW \ {g}, heldR)
    BY <1>1, <1>6, <2>1, SharedRelease
  <2> QED BY <1>6, <1>7, <1>9, <1>11, <2>1, <2>2 DEF new
<1>12. CASE K[g] = R
  <2>1. lessR = heldR \ {g} /\ g \in heldR /\ lessM = heldM /\ lessW = heldW
    BY <1>3, <1>4, <1>8, <1>12
  <2>2. counted => SharedOK(Release(shared, "shared_mutex", "read"), heldW, heldR \ {g})
    BY <1>1, <1>6, <2>1, SharedRelease
  <2> QED BY <1>6, <1>7, <1>9, <1>12, <2>1, <2>2 DEF new
<1> QED BY <1>5, <1>10, <1>11, <1>12 DEF new

\* A frame's waiter goes, from both locks.
DeregisterAll(ls, p) == [k \in LockNames |-> Deregister(ls[k], k, p)]

LEMMA SettledDeregister ==
    ASSUME NEW ls, NEW K, NEW G, NEW waits, NEW counted \in BOOLEAN,
           Settled(ls, K, G, waits, counted), NEW p
    PROVE  Settled(DeregisterAll(ls, p), K, G, waits \ {p}, counted)
<1> DEFINE new == DeregisterAll(ls, p)
<1>1. ls \in Locks /\ \A k \in LockNames : ls[k] \in LockStates
  BY DEF Settled, Locks
<1>2. new \in Locks
  BY <1>1, DeregisterType DEF Locks, DeregisterAll
<1>3. /\ new["mutex"] = Deregister(ls["mutex"], "mutex", p)
      /\ new["shared_mutex"] = Deregister(ls["shared_mutex"], "shared_mutex", p)
      /\ ls["mutex"] \in LockStates /\ ls["shared_mutex"] \in LockStates
  BY <1>1 DEF LockNames, DeregisterAll
<1> HIDE DEF new
<1>4. MutexOK(new["mutex"], Held(K, G, "mutex", "write"), waits \ {p})
  BY <1>3, MutexDeregister DEF Settled
<1>5. counted => SharedOK(new["shared_mutex"], Held(K, G, "shared_mutex", "write"),
                          Held(K, G, "shared_mutex", "read"))
  BY <1>3, SharedDeregister DEF Settled
<1> QED BY <1>2, <1>4, <1>5 DEF Settled, new

\* The guards of a frame, where it has them.
Own(p, guards) == {<<p, i>> : i \in DOMAIN guards}
HasThem(p, guards, K, G) == \A i \in DOMAIN guards : <<p, i>> \in G /\ K[<<p, i>>] = guards[i]

LEMMA SettledReleaseAll ==
    ASSUME NEW ls, NEW K, NEW G, NEW waits, NEW counted \in BOOLEAN,
           Settled(ls, K, G, waits, counted),
           NEW p, NEW guards \in Seq(GuardRecords),
           HasThem(p, guards, K, G)
    PROVE  Settled(ReleaseAll(ls, guards), K, G \ Own(p, guards), waits, counted)
<1> DEFINE Left(s) == G \ {<<p, i>> : i \in s}
           Ok == [s \in SUBSET DOMAIN guards |->
                    {all \in Locks : Settled(all, K, Left(s), waits, counted)}]
<1>1. DOMAIN guards = 1..Len(guards) /\ Len(guards) \in Nat
  BY LenProperties
<1>2. \A i \in DOMAIN guards : guards[i] \in GuardRecords
  BY <1>1, ElementOfSeq
<1>3. ls \in Locks
  BY DEF Settled
<1>4. Left({}) = G
  OBVIOUS
<1>5. ASSUME NEW s \in SUBSET DOMAIN guards, NEW i \in s
      PROVE  Left(s) = Left(s \ {i}) \ {<<p, i>>} /\ <<p, i>> \in Left(s \ {i})
  <2>1. \A j : <<p, j>> = <<p, i>> => j = i
    OBVIOUS
  <2>2. <<p, i>> \in G
    BY DEF HasThem
  <2> QED BY <2>1, <2>2
<1> HIDE DEF Left
<1>6. ls \in Ok[{}]
  BY <1>3, <1>4
<1>7. ASSUME NEW s \in SUBSET DOMAIN guards, NEW i \in s, NEW all \in Locks, all \in Ok[s \ {i}]
      PROVE  ReleaseGuard(guards[i], all) \in Ok[s]
  <2>1. s \ {i} \in SUBSET DOMAIN guards /\ i \in DOMAIN guards
    OBVIOUS
  <2>2. Settled(all, K, Left(s \ {i}), waits, counted)
    BY <1>7, <2>1
  <2>3. K[<<p, i>>] = guards[i] /\ guards[i] \in GuardRecords /\ <<p, i>> \in Left(s \ {i})
    BY <1>2, <1>5, <2>1 DEF HasThem
  <2> DEFINE g == <<p, i>>
  <2>4. K[g] \in GuardRecords /\ g \in Left(s \ {i})
    BY <2>3
  <2> HIDE DEF g
  <2>5. Settled(ReleaseGuard(K[g], all), K, Left(s \ {i}) \ {g}, waits, counted)
    BY <2>2, <2>4, SettledRelease
  <2>6. Settled(ReleaseGuard(guards[i], all), K, Left(s), waits, counted)
    BY <1>5, <2>3, <2>5 DEF g
  <2>7. ReleaseGuard(guards[i], all) \in Locks
    BY <2>3, ReleaseGuardType
  <2> QED BY <2>6, <2>7
<1>8. \A s \in SUBSET DOMAIN guards : Ok[s] \subseteq Locks
  OBVIOUS
<1>9. Ok[DOMAIN guards] = {all \in Locks : Settled(all, K, Left(DOMAIN guards), waits, counted)}
  OBVIOUS
<1> HIDE DEF Ok
<1>10. ReleaseAll(ls, guards) \in Locks \cap Ok[DOMAIN guards]
  BY <1>3, <1>6, <1>7, ReleaseGuardType, ReleaseAllKeeps
<1> QED BY <1>9, <1>10 DEF Left, Own

\* Frames that are destroyed leave nothing of theirs in the locks.
LEMMA SettledLeaveAll ==
    ASSUME NEW ls, NEW G, NEW waits, NEW counted \in BOOLEAN,
           NEW S, IsFiniteSet(S), S \subseteq DOMAIN frames,
           \A p \in S : frames[p].guards \in Seq(GuardRecords),
           \A p \in S : \A i \in DOMAIN frames[p].guards : <<p, i>> \in G,
           Settled(ls, Kinds(frames), G, waits, counted)
    PROVE  Settled(LeaveAll(ls, S), Kinds(frames),
                   G \ {g \in Places(frames) : g[1] \in S}, waits \ S, counted)
<1> DEFINE K == Kinds(frames)
           Of(s) == {g \in Places(frames) : g[1] \in s}
           Ok == [s \in SUBSET S |->
                    {all \in Locks : Settled(all, K, G \ Of(s), waits \ s, counted)}]
<1>1. ls \in Locks
  BY DEF Settled
<1>2. \A p \in S : \A i \in DOMAIN frames[p].guards :
         <<p, i>> \in Places(frames) /\ K[<<p, i>>] = frames[p].guards[i]
  <2> SUFFICES ASSUME NEW p \in S, NEW i \in DOMAIN frames[p].guards
               PROVE  <<p, i>> \in Places(frames) /\ K[<<p, i>>] = frames[p].guards[i]
    OBVIOUS
  <2>1. <<p, i>> \in Places(frames)
    BY DEF Places
  <2>2. <<p, i>>[1] = p /\ <<p, i>>[2] = i
    OBVIOUS
  <2>3. K[<<p, i>>] = frames[<<p, i>>[1]].guards[<<p, i>>[2]]
    BY <2>1 DEF Kinds
  <2> QED BY <2>1, <2>2, <2>3
<1>3. \A s \in SUBSET S : \A p \in s :
         Of(s) = Of(s \ {p}) \cup {<<p, i>> : i \in DOMAIN frames[p].guards}
  BY DEF Places
<1>4. Of({}) = {}
  OBVIOUS
<1>5. \A s \in SUBSET S : \A p \in s : \A i \in DOMAIN frames[p].guards : <<p, i>> \notin Of(s \ {p})
  OBVIOUS
<1> HIDE DEF K, Of
<1>6. ls \in Ok[{}]
  BY <1>1, <1>4 DEF K
<1>7. ASSUME NEW p \in S, NEW all \in Locks PROVE Leave(p, all) \in Locks
  <2>1. ReleaseAll(all, frames[p].guards) \in Locks
    BY ReleaseAllType
  <2> QED BY <2>1, DeregisterType DEF Leave, Locks
<1>8. ASSUME NEW s \in SUBSET S, NEW p \in s, NEW all \in Locks, all \in Ok[s \ {p}]
      PROVE  Leave(p, all) \in Ok[s]
  <2> DEFINE before == G \ Of(s \ {p})
             guards == frames[p].guards
             after == before \ Own(p, guards)
             released == ReleaseAll(all, guards)
             may == waits \ (s \ {p})
  <2>1. s \ {p} \in SUBSET S /\ p \in S
    OBVIOUS
  <2>2. Settled(all, K, before, may, counted)
    BY <1>8, <2>1
  <2>3. HasThem(p, guards, K, before)
    BY <1>2, <1>5, <2>1 DEF HasThem
  <2>4. guards \in Seq(GuardRecords)
    BY <2>1
  <2> HIDE DEF before, guards, may
  <2>5. Settled(released, K, after, may, counted)
    BY <2>2, <2>3, <2>4, SettledReleaseAll
  <2>6. after = G \ Of(s) /\ may \ {p} = waits \ s
    BY <1>3, <2>1 DEF before, guards, may, Own
  <2>7. Leave(p, all) = DeregisterAll(released, p)
    BY DEF Leave, DeregisterAll, guards
  <2> HIDE DEF after, released
  <2>8. Settled(Leave(p, all), K, after, may \ {p}, counted)
    <3>1. Settled(DeregisterAll(released, p), K, after, may \ {p}, counted)
      BY <2>5, SettledDeregister
    <3> QED BY <2>7, <3>1
  <2> QED BY <1>7, <2>1, <2>6, <2>8
<1>9. Ok[S] = {all \in Locks : Settled(all, K, G \ Of(S), waits \ S, counted)}
  OBVIOUS
<1> HIDE DEF Ok
<1>10. LeaveAll(ls, S) \in Locks \cap Ok[S]
  BY <1>1, <1>6, <1>7, <1>8, LeaveAllKeeps
<1> QED BY <1>9, <1>10 DEF K, Of

------------------------------------------------------------------------------
(* Steps that leave the locks and the guards alone.                        *)

LEMMA MoreWait ==
    ASSUME NEW ls, NEW K, NEW G, NEW waits, NEW counted, Settled(ls, K, G, waits, counted),
           NEW more, waits \subseteq more
    PROVE  Settled(ls, K, G, more, counted)
<1>1. MutexOK(ls["mutex"], Held(K, G, "mutex", "write"), more)
  BY DEF Settled, MutexOK
<1> QED BY <1>1 DEF Settled

LEMMA SamePlaces ==
    ASSUME NEW fs, NEW hs, DOMAIN fs \subseteq DOMAIN hs,
           \A p \in DOMAIN fs : hs[p].guards = fs[p].guards,
           \A p \in DOMAIN hs \ DOMAIN fs : hs[p].guards = <<>>
    PROVE  Places(hs) = Places(fs) /\ Kinds(hs) = Kinds(fs)
<1>1. \A p \in DOMAIN hs : p \in DOMAIN fs \/ DOMAIN hs[p].guards = {}
  OBVIOUS
<1>2. Places(hs) = Places(fs)
  BY <1>1 DEF Places
<1>3. \A g \in Places(fs) : g[1] \in DOMAIN fs
  BY DEF Places
<1>4. \A g \in Places(fs) : hs[g[1]].guards[g[2]] = fs[g[1]].guards[g[2]]
  BY <1>3
<1> HIDE DEF Places
<1> QED BY <1>2, <1>4 DEF Kinds

LEMMA LocksKept ==
    ASSUME NEW counted \in BOOLEAN, LInv(counted), UNCHANGED locks,
           DOMAIN frames \subseteq DOMAIN frames',
           \A p \in DOMAIN frames : frames'[p].guards = frames[p].guards,
           \A p \in DOMAIN frames' \ DOMAIN frames : frames'[p].guards = <<>>,
           \A p \in DOMAIN frames' :
              frames'[p].pc <= 1 \/ frames'[p].state # "suspended" => frames'[p].guards = <<>>,
           \A p \in DOMAIN frames : Waits(p) => Waits(p)'
    PROVE  LInv(counted)'
<1>1. Places(frames') = Places(frames) /\ Kinds(frames') = Kinds(frames)
  BY SamePlaces
<1>2. Waiting \subseteq Waiting'
  BY DEF Waiting
<1>3. Settled(locks, Kinds(frames), Places(frames), Waiting, counted)
  BY DEF LInv
<1>4. Settled(locks, Kinds(frames), Places(frames), Waiting', counted)
  BY <1>2, <1>3, MoreWait
<1>5. \A p \in DOMAIN frames' : frames'[p].guards \in Seq(GuardRecords)
  <2>1. \A p \in DOMAIN frames : frames[p].guards \in Seq(GuardRecords)
    BY DEF LInv
  <2>2. <<>> \in Seq(GuardRecords)
    BY EmptySeq
  <2> QED BY <2>1, <2>2
<1> QED BY <1>1, <1>4, <1>5 DEF LInv

\* Who does not wait: the frame that is polled, unless it is for the lock.
LEMMA PolledWaits ==
    ASSUME Structure, Polling, Waits(P)
    PROVE  /\ phase \in {"poll", "return"} /\ F.state = "suspended"
           /\ F.pc \in 1..Len(F.body) /\ DoesNow("lock") /\ Now.lock = "mutex"
<1>1. P \in OnStack
  <2>1. Len(stack) \in DOMAIN stack
    BY StackedFrames
  <2> QED BY <2>1 DEF OnStack, P, Top
<1> QED BY <1>1, PolledFrame DEF Waits, AwaitsMutex, F, DoesNow, Now

\* Whoever waits goes on to, if its frame is left alone.
LEMMA OthersWait ==
    ASSUME NEW p, Waits(p), frames'[p] = frames[p],
           p \in OnStack' => p = P' /\ phase' \in {"poll", "return"}
    PROVE  Waits(p)'
<1> QED BY DEF Waits, AwaitsMutex

\* The frame that is polled goes on, with the guards that it has.
LEMMA LocksInPlace ==
    ASSUME NEW counted \in BOOLEAN, Structure, LInv(counted), Polling, UNCHANGED <<stack, locks>>,
           ~Waits(P), NEW new, Replaced(new), F.state = "suspended", F.pc \in Nat,
           new.guards = F.guards, new.pc \in Nat, F.pc <= new.pc,
           new.state = "suspended" \/ F.pc <= 1
    PROVE  LInv(counted)'
<1>1. P \in DOMAIN frames /\ F = frames[P]
  BY PolledFrame DEF F
<1>2. \A p \in DOMAIN frames : frames'[p].guards = frames[p].guards
  BY <1>1 DEF Replaced
<1>3. F.pc <= 1 => F.guards = <<>>
  BY <1>1 DEF LInv
<1>4. ASSUME NEW p \in DOMAIN frames', frames'[p].pc <= 1 \/ frames'[p].state # "suspended"
      PROVE  frames'[p].guards = <<>>
  <2>1. CASE p = P
    <3>1. new.pc <= 1 \/ new.state # "suspended"
      BY <1>4, <2>1 DEF Replaced
    <3>2. F.pc <= 1
      BY <3>1
    <3> QED BY <1>3, <2>1, <3>2 DEF Replaced
  <2>2. CASE p # P
    <3>1. p \in DOMAIN frames /\ frames'[p] = frames[p]
      BY <2>2 DEF Replaced
    <3> QED BY <1>4, <3>1 DEF LInv
  <2> QED BY <2>1, <2>2
<1>5. ASSUME NEW p \in DOMAIN frames, Waits(p) PROVE Waits(p)'
  <2>1. p # P
    BY <1>5
  <2>2. p \notin OnStack
    BY <1>5, <2>1 DEF Waits
  <2>3. frames'[p] = frames[p] /\ OnStack' = OnStack
    BY <2>1 DEF Replaced, OnStack
  <2> QED BY <1>5, <2>2, <2>3, OthersWait
<1>6. DOMAIN frames' = DOMAIN frames
  BY DEF Replaced
<1> QED BY <1>2, <1>4, <1>5, <1>6, LocksKept

\* The same for a step of the body, or of what it awaits other than a lock.
LEMMA LocksOfOthers ==
    ASSUME NEW counted \in BOOLEAN, Structure, LInv(counted), Polling,
           UNCHANGED <<stack, locks, program, outcome>>,
           \/ phase = "body" \/ phase = "failing"
           \/ phase = "poll" /\ ~DoesNow("lock"),
           NEW new, Becomes(new) \/ (UNCHANGED frames /\ new = F),
           F.state = "suspended", F.pc \in Nat,
           new.guards = F.guards, new.pc \in Nat, F.pc <= new.pc,
           new.state = "suspended" \/ F.pc <= 1
    PROVE  LInv(counted)'
<1>1. ~Waits(P)
  BY PolledWaits
<1>2. Replaced(new)
  BY BecomesReplaces
<1> QED BY <1>1, <1>2, LocksInPlace

LEMMA StartKeepsLocks ==
    ASSUME NEW counted \in BOOLEAN, IInv, LInv(counted), Start PROVE LInv(counted)'
<1> USE DEF IInv
<1>1. /\ Polling /\ phase = "poll" /\ F.pc = 0 /\ Becomes(StepDone)
      /\ UNCHANGED <<stack, locks, program, outcome>>
  BY DEF Start
<1>2. DOMAIN F = Fields /\ Len(F.body) \in Nat /\ DOMAIN F.body = 1..Len(F.body)
  BY <1>1, PolledFrame DEF IsFrame
<1>3. F.state = "suspended" /\ ~DoesNow("lock")
  BY <1>1, <1>2, Running DEF DoesNow
<1>4. StepDone.guards = F.guards /\ StepDone.pc = 1 /\ StepDone.state = "suspended"
  BY <1>1, <1>2, <1>3 DEF StepDone, Fields
<1> QED BY <1>1, <1>3, <1>4, LocksOfOthers

LEMMA PollLeafKeepsLocks ==
    ASSUME NEW counted \in BOOLEAN, IInv, LInv(counted), PollLeaf PROVE LInv(counted)'
<1> USE DEF IInv
<1>1. /\ Polling /\ phase = "poll" /\ DoesNow("leaf")
      /\ UNCHANGED <<stack, locks, program, outcome>>
  BY DEF PollLeaf, Polls
<1>2. /\ IsFrame(F) /\ DOMAIN F = Fields /\ Len(F.body) \in Nat /\ F.state = "suspended"
      /\ F.pc \in 1..Len(F.body) /\ F.pc \in Nat /\ ~DoesNow("lock")
  BY <1>1, PolledFrame, Working DEF IsFrame, DoesNow
<1> DEFINE again == [F EXCEPT !.left = @ - 1]
           over == [Learns(Now.gives) EXCEPT !.state = "done"]
<1>3. Becomes(again) \/ Becomes(Learns(Now.gives)) \/ (F.bare /\ Becomes(over))
  BY DEF PollLeaf
<1>4. again.guards = F.guards /\ again.pc = F.pc /\ again.state = "suspended"
  BY <1>2 DEF Fields
<1>5. /\ Learns(Now.gives).guards = F.guards /\ Learns(Now.gives).pc = F.pc + 1
      /\ Learns(Now.gives).state = "suspended"
  BY <1>2 DEF Fields, Learns, StepDone
<1>6. over.guards = F.guards /\ over.pc = F.pc + 1
  BY <1>2 DEF Fields, Learns, StepDone
<1>7. ASSUME F.bare PROVE F.pc <= 1
  <2>1. Len(F.body) = 1
    BY <1>2, <1>7 DEF IsFrame, IsTask
  <2> QED BY <1>2, <2>1
<1> HIDE DEF again, over
<1>8. CASE Becomes(again)
  BY <1>1, <1>2, <1>4, <1>8, LocksOfOthers
<1>9. CASE Becomes(Learns(Now.gives))
  BY <1>1, <1>2, <1>5, <1>9, LocksOfOthers
<1>10. CASE F.bare /\ Becomes(over)
  BY <1>1, <1>2, <1>6, <1>7, <1>10, LocksOfOthers
<1> QED BY <1>3, <1>8, <1>9, <1>10

\* The steps of a body after which it is only elsewhere, or suspended.
LEMMA BodyKeepsLocks ==
    ASSUME NEW counted \in BOOLEAN, IInv, LInv(counted), Polling, phase = "body",
           F.pc \in DOMAIN F.body, UNCHANGED <<stack, locks, program, outcome>>,
           \/ UNCHANGED frames
           \/ \E left : Becomes([F EXCEPT !.left = left])
           \/ Becomes(StepDone)
           \/ \E values : Becomes(Learns(values)) \/ Becomes(Returns(values))
    PROVE  LInv(counted)'
<1> USE DEF IInv
<1>1. /\ DOMAIN F = Fields /\ Len(F.body) \in Nat /\ F.state = "suspended"
      /\ F.pc \in Nat /\ F.pc \in 1..Len(F.body)
  BY PolledFrame, Running DEF IsFrame
<1>2. ASSUME NEW new, Becomes(new) \/ (UNCHANGED frames /\ new = F), new.guards = F.guards, new.pc \in Nat, F.pc <= new.pc,
             new.state = F.state
      PROVE  LInv(counted)'
  BY <1>1, <1>2, LocksOfOthers
<1>3. CASE UNCHANGED frames
  BY <1>1, <1>2, <1>3
<1>4. ASSUME NEW left, Becomes([F EXCEPT !.left = left]) PROVE LInv(counted)'
  <2> DEFINE new == [F EXCEPT !.left = left]
  <2>1. new.guards = F.guards /\ new.pc = F.pc /\ new.state = F.state
    BY <1>1 DEF Fields
  <2>2. Becomes(new)
    BY <1>4
  <2> HIDE DEF new
  <2> QED BY <1>1, <1>2, <2>1, <2>2
<1>5. CASE Becomes(StepDone)
  <2>1. StepDone.guards = F.guards /\ StepDone.pc = F.pc + 1 /\ StepDone.state = F.state
    BY <1>1 DEF Fields, StepDone
  <2> QED BY <1>1, <1>2, <1>5, <2>1
<1>6. ASSUME NEW values, Becomes(Learns(values)) PROVE LInv(counted)'
  <2>1. /\ Learns(values).guards = F.guards /\ Learns(values).pc = F.pc + 1
        /\ Learns(values).state = F.state
    BY <1>1 DEF Fields, StepDone, Learns
  <2> QED BY <1>1, <1>2, <1>6, <2>1
<1>7. ASSUME NEW values, Becomes(Returns(values)) PROVE LInv(counted)'
  <2>1. /\ Returns(values).guards = F.guards /\ Returns(values).pc = Len(F.body) + 1
        /\ Returns(values).state = F.state
    BY <1>1 DEF Fields, Returns
  <2> QED BY <1>1, <1>2, <1>7, <2>1
<1> QED BY <1>3, <1>4, <1>5, <1>6, <1>7

LEMMA OtherStepsKeepLocks ==
    ASSUME NEW counted \in BOOLEAN, IInv, LInv(counted),
           Suspends \/ Throws \/ MakesSlab \/ Computes \/ Writes
    PROVE  LInv(counted)'
<1>1. ASSUME Suspends PROVE LInv(counted)'
  <2>1. /\ Polling /\ phase = "body" /\ F.pc \in DOMAIN F.body
        /\ UNCHANGED <<stack, locks, program, outcome>>
    BY <1>1 DEF Suspends, Runs, DoesNow
  <2>2. \E left : Becomes([F EXCEPT !.left = left])
    BY <1>1, Zenon DEF Suspends
  <2> QED BY <2>1, <2>2, BodyKeepsLocks
<1>2. ASSUME Throws PROVE LInv(counted)'
  <2>1. /\ Polling /\ phase = "body" /\ F.pc \in DOMAIN F.body
        /\ UNCHANGED <<stack, locks, program, outcome>> /\ UNCHANGED frames
    BY <1>2 DEF Throws, Runs, DoesNow
  <2> QED BY <2>1, BodyKeepsLocks
<1>3. ASSUME MakesSlab PROVE LInv(counted)'
  <2>1. /\ Polling /\ phase = "body" /\ F.pc \in DOMAIN F.body
        /\ UNCHANGED <<stack, locks, program, outcome>> /\ Becomes(StepDone)
    BY <1>3 DEF MakesSlab, Runs, DoesNow
  <2> QED BY <2>1, BodyKeepsLocks
<1>4. ASSUME Computes PROVE LInv(counted)'
  <2>1. /\ Polling /\ phase = "body" /\ F.pc \in DOMAIN F.body
        /\ UNCHANGED <<stack, locks, program, outcome>>
    BY <1>4 DEF Computes, DoesNow
  <2>2. \/ Becomes(StepDone)
        \/ \E values : Becomes(Learns(values)) \/ Becomes(Returns(values))
    BY <1>4, Zenon DEF Computes
  <2> QED BY <2>1, <2>2, BodyKeepsLocks
<1>5. ASSUME Writes PROVE LInv(counted)'
  <2>1. /\ Polling /\ phase = "body" /\ F.pc \in DOMAIN F.body
        /\ UNCHANGED <<stack, locks, program, outcome>> /\ Becomes(StepDone)
    BY <1>5 DEF Writes, DoesNow
  <2> QED BY <2>1, BodyKeepsLocks
<1> QED BY <1>1, <1>2, <1>3, <1>4, <1>5

\* The frames stay as they are, and so do the locks.
LEMMA LocksElsewhere ==
    ASSUME NEW counted \in BOOLEAN, LInv(counted), UNCHANGED <<frames, locks>>,
           \A p \in DOMAIN frames : Waits(p) => Waits(p)'
    PROVE  LInv(counted)'
<1>1. \A p \in DOMAIN frames : frames[p].pc <= 1 \/ frames[p].state # "suspended"
                                  => frames[p].guards = <<>>
  BY DEF LInv
<1> QED BY <1>1, LocksKept

LEMMA OnlyRoot ==
    ASSUME Structure, Root \in DOMAIN frames, frames[Root].state # "suspended",
           NEW p \in DOMAIN frames
    PROVE  p = Root
<1>1. p \in Paths
  BY DEF Structure, Types
<1>2. CASE Len(p) = 0
  BY <1>1, <1>2, EmptySeq DEF Paths, Root
<1>3. CASE Len(p) # 0
  <2>1. 0 \in Nat /\ 0 < Len(p) /\ 1 \in 0..Len(p) /\ Len(p) \in Nat /\ 0 + 1 = 1
    BY <1>1, <1>3, Beginnings
  <2>2. p[1] \in Nat \ {0} /\ SubSeq(p, 1, 1) = Append(SubSeq(p, 1, 0), p[1])
    BY <1>1, <2>1, NextOnPath
  <2>3. SubSeq(p, 1, 0) = Root
    BY <1>1, Beginnings DEF Root
  <2>4. Append(Root, p[1]) \in DOMAIN frames
    BY <2>1, <2>2, <2>3 DEF Structure, Tree
  <2>5. Owned(frames, Root)
    BY DEF Structure
  <2> QED BY <2>2, <2>4, <2>5 DEF Owned
<1> QED BY <1>2, <1>3

LEMMA BlockOnKeepsLocks ==
    ASSUME NEW counted \in BOOLEAN, IInv, LInv(counted), BlockOnPolls \/ BlockOnReturns
    PROVE  LInv(counted)'
<1> USE DEF IInv
<1>1. ASSUME BlockOnPolls PROVE LInv(counted)'
  <2>1. UNCHANGED <<frames, locks>> /\ stack' = <<Entry(Root, FALSE, "none", "poll")>> /\ phase' = "poll"
    BY <1>1 DEF BlockOnPolls
  <2>2. OnStack' = {Root} /\ P' = Root
    BY <2>1 DEF OnStack, P, Top, Entry
  <2>3. \A p \in DOMAIN frames : Waits(p) => Waits(p)'
    BY <2>1, <2>2, OthersWait
  <2> QED BY <2>1, <2>3, LocksElsewhere
<1>2. ASSUME BlockOnReturns PROVE LInv(counted)'
  <2>1. UNCHANGED locks /\ stack' = <<>> /\ P = Root /\ Polling
    BY <1>2 DEF BlockOnReturns
  <2>2. OnStack' = {}
    BY <2>1 DEF OnStack
  <2>3. CASE UNCHANGED frames
    <3>1. \A p \in DOMAIN frames : Waits(p) => Waits(p)'
      BY <2>2, <2>3, OthersWait
    <3> QED BY <2>1, <2>3, <3>1, LocksElsewhere
  <2>4. CASE F.state # "suspended" /\ frames' = <<>>
    <3>1. Root \in DOMAIN frames /\ F = frames[Root]
      BY <2>1, PolledFrame DEF F
    <3>2. \A p \in DOMAIN frames : p = Root
      BY <2>4, <3>1, OnlyRoot
    <3>3. frames[Root].guards = <<>> /\ ~Waits(Root)
      BY <2>4, <3>1 DEF LInv, Waits, AwaitsMutex
    <3>4. Places(frames) = {} /\ Waiting = {}
      BY <3>2, <3>3 DEF Places, Waiting
    <3>5. DOMAIN frames' = {}
      BY <2>4
    <3>6. Places(frames') = {} /\ Waiting' = {}
      BY <3>5 DEF Places, Waiting
    <3>7. Kinds(frames') = Kinds(frames)
      BY <3>4, <3>6 DEF Kinds
    <3> QED BY <2>1, <3>4, <3>5, <3>6, <3>7 DEF LInv
  <2> QED BY <1>2, <2>3, <2>4 DEF BlockOnReturns
<1> QED BY <1>1, <1>2

\* A poll of a child, from a frame that does not wait.
LEMMA PushKeepsWaiting ==
    ASSUME NEW i, NEW quiet, NEW polling, Push(i, quiet, polling), polling \in Seq(Entries),
           {polling[j].frame : j \in DOMAIN polling} = OnStack,
           P \in OnStack, ~Waits(P),
           NEW p, Waits(p), frames'[p] = frames[p]
    PROVE  Waits(p)'
<1>1. \E e : stack' = Append(polling, e) /\ e.frame = Child(i) /\ phase' = "poll"
  BY DEF Push, Entry
<1>2. PICK e : stack' = Append(polling, e) /\ e.frame = Child(i) /\ phase' = "poll"
  BY <1>1
<1>3. /\ DOMAIN polling = 1..Len(polling) /\ Len(polling) \in Nat
      /\ Len(stack') = Len(polling) + 1 /\ DOMAIN stack' = 1..(Len(polling) + 1)
      /\ stack'[Len(polling) + 1] = e
      /\ \A j \in 1..Len(polling) : stack'[j] = polling[j]
  BY <1>2
<1>4. P' = Child(i)
  BY <1>2, <1>3 DEF P, Top
<1>5. ASSUME NEW q \in OnStack' PROVE q \in OnStack \/ q = P'
  <2>1. PICK j \in DOMAIN stack' : q = stack'[j].frame
    BY DEF OnStack
  <2>2. CASE j = Len(polling) + 1
    BY <1>2, <1>3, <1>4, <2>1, <2>2
  <2>3. CASE j # Len(polling) + 1
    <3>1. j \in 1..Len(polling)
      BY <1>3, <2>1, <2>3
    <3>2. q = polling[j].frame /\ j \in DOMAIN polling
      BY <1>3, <2>1, <3>1
    <3> HIDE DEF OnStack
    <3> QED BY <3>2
  <2> QED BY <2>2, <2>3
<1>6. p \notin OnStack
  BY DEF Waits
<1> QED BY <1>2, <1>5, <1>6, OthersWait

LEMMA PolledOnStack ==
    ASSUME Structure, Polling PROVE P \in OnStack
<1>1. Len(stack) \in DOMAIN stack
  BY StackedFrames
<1> QED BY <1>1 DEF OnStack, P, Top

LEMMA PollsOnceKeepsLocks ==
    ASSUME NEW counted \in BOOLEAN, IInv, LInv(counted), PollsOnce PROVE LInv(counted)'
<1> USE DEF IInv
<1>1. /\ Polling /\ phase = "body" /\ Becomes(StepDone) /\ Push(Now.child, TRUE, stack)
      /\ UNCHANGED <<program, outcome, locks>> /\ F.pc \in DOMAIN F.body
  BY DEF PollsOnce, Runs, DoesNow
<1>2. /\ DOMAIN F = Fields /\ Len(F.body) \in Nat /\ F.state = "suspended"
      /\ F.pc \in Nat /\ F.pc \in 1..Len(F.body) /\ P \in DOMAIN frames /\ F = frames[P]
  BY <1>1, PolledFrame, Running DEF IsFrame, F
<1>3. StepDone.guards = F.guards /\ StepDone.pc = F.pc + 1 /\ StepDone.state = "suspended"
  BY <1>2 DEF Fields, StepDone
<1>4. Replaced(StepDone)
  BY <1>1, BecomesReplaces
<1>5. ~Waits(P)
  BY <1>1, PolledWaits
<1>6. ASSUME NEW p \in DOMAIN frames, Waits(p) PROVE Waits(p)'
  <2>1. frames'[p] = frames[p]
    BY <1>4, <1>5, <1>6 DEF Replaced
  <2>2. stack \in Seq(Entries) /\ {stack[j].frame : j \in DOMAIN stack} = OnStack
    BY DEF Structure, Types, OnStack
  <2> QED BY <1>1, <1>5, <1>6, <2>1, <2>2, PolledOnStack, PushKeepsWaiting
<1>7. ASSUME NEW p \in DOMAIN frames', frames'[p].pc <= 1 \/ frames'[p].state # "suspended"
      PROVE  frames'[p].guards = <<>>
  <2>1. p # P
    <3>1. frames'[P].pc = F.pc + 1 /\ frames'[P].state = "suspended" /\ ~(F.pc + 1 <= 1)
      BY <1>2, <1>3, <1>4 DEF Replaced
    <3> QED BY <1>7, <3>1
  <2>2. p \in DOMAIN frames /\ frames'[p] = frames[p]
    BY <1>4, <2>1 DEF Replaced
  <2> QED BY <1>7, <2>2 DEF LInv
<1>8. /\ DOMAIN frames' = DOMAIN frames
      /\ \A p \in DOMAIN frames : frames'[p].guards = frames[p].guards
  BY <1>2, <1>3, <1>4 DEF Replaced
<1> QED BY <1>1, <1>6, <1>7, <1>8, LocksKept

LEMMA PollChildKeepsLocks ==
    ASSUME NEW counted \in BOOLEAN, IInv, LInv(counted), PollChild PROVE LInv(counted)'
<1> USE DEF IInv
<1>1. /\ Polling /\ phase = "poll" /\ DoesNow("join") /\ UNCHANGED <<frames, locks>>
      /\ \/ Push(Joined[Top.next], Top.quiet, NextPolled)
         \/ stack' = NextPolled /\ UNCHANGED phase
  BY DEF PollChild, Polls
<1>2. ~Waits(P)
  BY <1>1, PolledWaits DEF DoesNow
<1>3. /\ NextPolled \in Seq(Entries) /\ DOMAIN NextPolled = DOMAIN stack
      /\ Len(NextPolled) = Len(stack)
      /\ \A j \in DOMAIN stack : NextPolled[j].frame = stack[j].frame
  <2>1. /\ stack \in Seq(Entries) /\ DOMAIN stack = 1..Len(stack) /\ Len(stack) \in Nat \ {0}
        /\ \A j \in 1..Len(stack) : stack[j] \in Entries
    BY <1>1, StackedFrames, LenProperties, ElementOfSeq DEF Structure, Types
  <2> DEFINE e == [Top EXCEPT !.next = @ + 1]
  <2>2. e \in Entries /\ e.frame = stack[Len(stack)].frame
    <3>1. Top \in Entries /\ Top = stack[Len(stack)]
      BY <2>1 DEF Top
    <3>2. e \in Entries /\ e.frame = Top.frame
      BY <3>1 DEF Entries
    <3> QED BY <3>1, <3>2
  <2>3. NextPolled = [stack EXCEPT ![Len(stack)] = e]
    BY DEF NextPolled, Top
  <2> HIDE DEF e
  <2>4. NextPolled \in Seq(Entries) /\ Len(NextPolled) = Len(stack)
    BY <2>1, <2>2, <2>3, ExceptSeq
  <2> QED BY <2>1, <2>2, <2>3, <2>4
<1>4. {NextPolled[j].frame : j \in DOMAIN NextPolled} = OnStack
  BY <1>3 DEF OnStack
<1>5. ASSUME NEW p \in DOMAIN frames, Waits(p), Push(Joined[Top.next], Top.quiet, NextPolled)
      PROVE  Waits(p)'
  BY <1>1, <1>2, <1>3, <1>4, <1>5, PolledOnStack, PushKeepsWaiting
<1>6. ASSUME NEW p \in DOMAIN frames, Waits(p), stack' = NextPolled PROVE Waits(p)'
  <2>1. OnStack' = OnStack
    BY <1>3, <1>6 DEF OnStack
  <2>2. p \notin OnStack
    BY <1>2, <1>6 DEF Waits
  <2> QED BY <1>1, <1>6, <2>1, <2>2, OthersWait
<1> QED BY <1>1, <1>5, <1>6, LocksElsewhere

LEMMA PollReturnsKeepsLocks ==
    ASSUME NEW counted \in BOOLEAN, IInv, LInv(counted), PollReturns PROVE LInv(counted)'
<1> USE DEF IInv
<1>1. /\ Polling /\ UNCHANGED <<frames, locks>> /\ stack' = SubSeq(stack, 1, Len(stack) - 1)
  BY DEF PollReturns
<1>2. /\ Len(stack) \in Nat \ {0} /\ DOMAIN stack = 1..Len(stack)
      /\ \A j \in 1..Len(stack) : j < Len(stack) => stack[j].frame # P
  BY <1>1, StackedFrames
<1>3. /\ DOMAIN stack' = 1..(Len(stack) - 1)
      /\ \A j \in 1..(Len(stack) - 1) : stack'[j] = stack[j]
  <2> DEFINE n == Len(stack) - 1
  <2>1. n \in Nat /\ n <= Len(stack) /\ stack \in Seq(Entries)
    BY <1>2 DEF Structure, Types
  <2> QED BY <1>1, <2>1
<1>4. OnStack' \subseteq OnStack /\ P \notin OnStack'
  BY <1>2, <1>3 DEF OnStack
<1>5. \A p \in DOMAIN frames : Waits(p) => Waits(p)'
  <2> SUFFICES ASSUME NEW p \in DOMAIN frames, Waits(p) PROVE Waits(p)'
    OBVIOUS
  <2>1. p \notin OnStack'
    BY <1>4 DEF Waits
  <2> QED BY <1>1, <2>1, OthersWait
<1> QED BY <1>1, <1>5, LocksElsewhere

LEMMA SpawnsKeepsLocks ==
    ASSUME NEW counted \in BOOLEAN, IInv, LInv(counted), Spawns PROVE LInv(counted)'
<1> USE DEF IInv
<1> DEFINE child == Child(Now.child)
<1>1. /\ Polling /\ phase = "body" /\ DoesNow("spawn")
      /\ UNCHANGED <<stack, locks, program, outcome>>
      /\ \/ UNCHANGED frames
         \/ \E new : /\ new.guards = <<>>
                     /\ frames' = [q \in DOMAIN frames \cup {child} |->
                            IF q = child THEN new ELSE IF q = P THEN StepDone ELSE frames[q]]
  BY DEF Spawns, Runs, Frame
<1>2. CASE UNCHANGED frames
  BY <1>1, <1>2, BodyKeepsLocks DEF DoesNow
<1>3. ASSUME NEW new, new.guards = <<>>,
             frames' = [q \in DOMAIN frames \cup {child} |->
                            IF q = child THEN new ELSE IF q = P THEN StepDone ELSE frames[q]]
      PROVE  LInv(counted)'
  <2>1. /\ DOMAIN F = Fields /\ Len(F.body) \in Nat /\ F.state = "suspended"
        /\ F.pc \in Nat /\ F.pc \in 1..Len(F.body) /\ P \in DOMAIN frames /\ F = frames[P]
        /\ OwnsItsTasks(F.body) /\ F.pc \in StepsOf(F.body, "spawn")
    BY <1>1, PolledFrame, Working DEF IsFrame, F, StepsOf, Now
  <2>2. child \notin DOMAIN frames
    <3>1. /\ Owned(frames, P) /\ Now.child \notin Alive(F.body, F.pc)
          /\ Now.child \in Nat \ {0}
      BY <2>1 DEF Structure, OwnsItsTasks, Now
    <3> QED BY <2>1, <3>1 DEF Owned, Child
  <2>3. StepDone.guards = F.guards /\ StepDone.pc = F.pc + 1 /\ StepDone.state = "suspended"
    BY <2>1 DEF Fields, StepDone
  <2> HIDE DEF child
  <2>4. /\ DOMAIN frames' = DOMAIN frames \cup {child} /\ frames'[child] = new
        /\ frames'[P] = StepDone
        /\ \A q \in DOMAIN frames : q # P => frames'[q] = frames[q]
    BY <1>3, <2>1, <2>2
  <2>5. ~Waits(P)
    BY <1>1, PolledWaits
  <2>6. ASSUME NEW p \in DOMAIN frames, Waits(p) PROVE Waits(p)'
    <3>1. frames'[p] = frames[p] /\ p \notin OnStack
      BY <2>4, <2>5, <2>6 DEF Waits
    <3>2. OnStack' = OnStack
      BY <1>1 DEF OnStack
    <3> QED BY <2>6, <3>1, <3>2, OthersWait
  <2>7. ASSUME NEW p \in DOMAIN frames', frames'[p].pc <= 1 \/ frames'[p].state # "suspended"
        PROVE  frames'[p].guards = <<>>
    <3>1. p # P
      <4>1. frames'[P].pc = F.pc + 1 /\ frames'[P].state = "suspended" /\ ~(F.pc + 1 <= 1)
        BY <2>1, <2>3, <2>4
      <4> QED BY <2>7, <4>1
    <3>2. CASE p = child
      BY <1>3, <2>4, <3>2
    <3>3. CASE p # child
      <4>1. p \in DOMAIN frames /\ frames'[p] = frames[p]
        BY <2>4, <3>1, <3>3
      <4> QED BY <2>7, <4>1 DEF LInv
    <3> QED BY <3>2, <3>3
  <2>8. \A p \in DOMAIN frames : frames'[p].guards = frames[p].guards
    BY <2>1, <2>3, <2>4
  <2>9. \A p \in DOMAIN frames' \ DOMAIN frames : frames'[p].guards = <<>>
    BY <1>3, <2>4
  <2> QED BY <1>1, <2>4, <2>6, <2>7, <2>8, <2>9, LocksKept
<1> QED BY <1>1, <1>2, <1>3

------------------------------------------------------------------------------
(* Steps that destroy frames.                                              *)

LEMMA SameKinds ==
    ASSUME NEW ls, NEW K, NEW G, NEW waits, NEW counted, Settled(ls, K, G, waits, counted),
           NEW L, \A g \in G : L[g] = K[g]
    PROVE  Settled(ls, L, G, waits, counted)
<1>1. \A lock, mode : Held(L, G, lock, mode) = Held(K, G, lock, mode)
  BY DEF Held
<1>2. /\ Held(L, G, "mutex", "write") = Held(K, G, "mutex", "write")
      /\ Held(L, G, "shared_mutex", "write") = Held(K, G, "shared_mutex", "write")
      /\ Held(L, G, "shared_mutex", "read") = Held(K, G, "shared_mutex", "read")
  BY <1>1
<1> QED BY <1>2 DEF Settled

LEMMA PlacesOf ==
    ASSUME NEW fs
    PROVE  /\ \A p \in DOMAIN fs : \A i \in DOMAIN fs[p].guards :
                 <<p, i>> \in Places(fs) /\ Kinds(fs)[<<p, i>>] = fs[p].guards[i]
           /\ \A g \in Places(fs) : /\ g = <<g[1], g[2]>> /\ g[1] \in DOMAIN fs
                                   /\ g[2] \in DOMAIN fs[g[1]].guards
                                   /\ Kinds(fs)[g] = fs[g[1]].guards[g[2]]
<1>1. ASSUME NEW p \in DOMAIN fs, NEW i \in DOMAIN fs[p].guards
      PROVE  <<p, i>> \in Places(fs) /\ Kinds(fs)[<<p, i>>] = fs[p].guards[i]
  <2>1. <<p, i>> \in Places(fs)
    BY DEF Places
  <2>2. <<p, i>>[1] = p /\ <<p, i>>[2] = i
    OBVIOUS
  <2>3. Kinds(fs)[<<p, i>>] = fs[<<p, i>>[1]].guards[<<p, i>>[2]]
    BY <2>1 DEF Kinds
  <2> QED BY <2>1, <2>2, <2>3
<1>2. ASSUME NEW g \in Places(fs)
      PROVE  /\ g = <<g[1], g[2]>> /\ g[1] \in DOMAIN fs /\ g[2] \in DOMAIN fs[g[1]].guards
             /\ Kinds(fs)[g] = fs[g[1]].guards[g[2]]
  <2>1. PICK p \in DOMAIN fs : \E i \in DOMAIN fs[p].guards : g = <<p, i>>
    BY DEF Places
  <2>2. g = <<g[1], g[2]>> /\ g[1] = p /\ g[2] \in DOMAIN fs[p].guards
    BY <2>1
  <2>3. Kinds(fs)[g] = fs[g[1]].guards[g[2]]
    BY DEF Kinds
  <2> QED BY <2>1, <2>2, <2>3
<1> QED BY <1>1, <1>2

LEMMA DestroyKeepsLocks ==
    ASSUME NEW counted \in BOOLEAN, Structure, LInv(counted), Polling, ~Waits(P),
           NEW S \in SUBSET DOMAIN frames, P \notin S, NEW new, NEW ls, NEW gone,
           Destroy(S, new, ls), UNCHANGED stack,
           \/ ls = locks /\ gone = {} /\ new.guards = F.guards
           \/ ls = ReleaseAll(locks, F.guards) /\ gone = Own(P, F.guards) /\ new.guards = <<>>,
           new.pc <= 1 \/ new.state # "suspended" => new.guards = <<>>
    PROVE  LInv(counted)'
<1> DEFINE K == Kinds(frames)
           G == Places(frames)
           left == G \ gone
           rest == left \ {g \in G : g[1] \in S}
<1>1. /\ P \in DOMAIN frames /\ F = frames[P] /\ IsFiniteSet(S)
      /\ \A p \in DOMAIN frames : frames[p].guards \in Seq(GuardRecords)
  <2>1. IsFiniteSet(S)
    BY FS_Subset DEF Structure, Types
  <2> QED BY <2>1, PolledFrame DEF F, LInv
<1>2. Settled(locks, K, G, Waiting, counted) /\ HasThem(P, F.guards, K, G)
  <2>1. HasThem(P, F.guards, K, G)
    BY <1>1, PlacesOf DEF HasThem
  <2> QED BY <2>1 DEF LInv
<1>3. \A g \in gone : g \in Places(frames) => g[1] = P
  BY DEF Own
<1> HIDE DEF K, G
<1>4. Settled(ls, K, left, Waiting, counted)
  <2>1. CASE ls = locks /\ gone = {}
    <3>1. left = G
      BY <2>1
    <3> QED BY <1>2, <2>1, <3>1
  <2>2. CASE ls = ReleaseAll(locks, F.guards) /\ gone = Own(P, F.guards)
    <3>1. F.guards \in Seq(GuardRecords)
      BY <1>1
    <3>2. Settled(ReleaseAll(locks, F.guards), K, G \ Own(P, F.guards), Waiting, counted)
      BY <1>2, <3>1, SettledReleaseAll
    <3> QED BY <2>2, <3>2
  <2> QED BY <2>1, <2>2
<1>5. \A p \in S : \A i \in DOMAIN frames[p].guards : <<p, i>> \in left
  <2> SUFFICES ASSUME NEW p \in S, NEW i \in DOMAIN frames[p].guards PROVE <<p, i>> \in left
    OBVIOUS
  <2>1. <<p, i>> \in G
    BY PlacesOf DEF G
  <2>2. p # P /\ <<p, i>>[1] = p
    OBVIOUS
  <2> QED BY <1>3, <2>1, <2>2 DEF G
<1> HIDE DEF left
<1>6. Settled(LeaveAll(ls, S), K, rest, Waiting \ S, counted)
  <2>1. \A p \in S : frames[p].guards \in Seq(GuardRecords)
    BY <1>1
  <2>2. Settled(LeaveAll(ls, S), Kinds(frames), left \ {g \in Places(frames) : g[1] \in S},
                Waiting \ S, counted)
    BY <1>1, <1>4, <1>5, <2>1, SettledLeaveAll DEF K
  <2> QED BY <2>2 DEF K, G
<1>7. /\ locks' = LeaveAll(ls, S) /\ DOMAIN frames' = DOMAIN frames \ S /\ frames'[P] = new
      /\ \A p \in DOMAIN frames \ S : p # P => frames'[p] = frames[p]
  BY <1>1 DEF Destroy
<1>8. Places(frames') = rest
  <2>1. ASSUME NEW g \in Places(frames') PROVE g \in rest
    <3>1. /\ g = <<g[1], g[2]>> /\ g[1] \in DOMAIN frames' /\ g[2] \in DOMAIN frames'[g[1]].guards
      BY PlacesOf
    <3>2. g[1] \in DOMAIN frames /\ g[1] \notin S
      BY <1>7, <3>1
    <3>3. CASE g[1] = P
      <4>1. DOMAIN new.guards # {} /\ g[2] \in DOMAIN new.guards
        BY <1>7, <3>1, <3>3
      <4>2. gone = {} /\ new.guards = F.guards
        BY <4>1
      <4>3. <<g[1], g[2]>> \in G
        BY <1>1, <3>1, <3>3, <4>1, <4>2, PlacesOf DEF G
      <4> QED BY <3>1, <3>2, <4>2, <4>3 DEF left
    <3>4. CASE g[1] # P
      <4>1. g[2] \in DOMAIN frames[g[1]].guards
        BY <1>7, <3>1, <3>2, <3>4
      <4>2. <<g[1], g[2]>> \in G
        BY <3>2, <4>1, PlacesOf DEF G
      <4> QED BY <1>3, <3>1, <3>2, <3>4, <4>2 DEF left, G
    <3> QED BY <3>3, <3>4
  <2>2. ASSUME NEW g \in rest PROVE g \in Places(frames')
    <3>1. g \in G /\ g \notin gone /\ g[1] \notin S
      BY DEF left
    <3>2. /\ g = <<g[1], g[2]>> /\ g[1] \in DOMAIN frames /\ g[2] \in DOMAIN frames[g[1]].guards
      BY <3>1, PlacesOf DEF G
    <3>3. g[1] \in DOMAIN frames'
      BY <1>7, <3>1, <3>2
    <3>4. frames'[g[1]].guards = frames[g[1]].guards
      <4>1. CASE g[1] = P
        <5>1. g \in Own(P, F.guards)
          BY <1>1, <3>2, <4>1 DEF Own
        <5> QED BY <1>1, <1>7, <3>1, <4>1, <5>1
      <4>2. CASE g[1] # P
        BY <1>7, <3>1, <3>2, <4>2
      <4> QED BY <4>1, <4>2
    <3>5. <<g[1], g[2]>> \in Places(frames')
      BY <3>2, <3>3, <3>4, PlacesOf
    <3> QED BY <3>2, <3>5
  <2> QED BY <2>1, <2>2
<1>9. \A g \in rest : Kinds(frames')[g] = K[g]
  <2> SUFFICES ASSUME NEW g \in rest PROVE Kinds(frames')[g] = K[g]
    OBVIOUS
  <2>1. g \in G /\ g \notin gone /\ g[1] \notin S /\ g \in Places(frames')
    BY <1>8 DEF left
  <2>2. /\ g = <<g[1], g[2]>> /\ g[1] \in DOMAIN frames /\ g[2] \in DOMAIN frames[g[1]].guards
        /\ K[g] = frames[g[1]].guards[g[2]]
    BY <2>1, PlacesOf DEF G, K
  <2>3. Kinds(frames')[g] = frames'[g[1]].guards[g[2]]
    BY <2>1, PlacesOf
  <2>4. frames'[g[1]].guards = frames[g[1]].guards
    <3>1. CASE g[1] = P
      <4>1. g \in Own(P, F.guards)
        BY <1>1, <2>2, <3>1 DEF Own
      <4> QED BY <1>1, <1>7, <2>1, <3>1, <4>1
    <3>2. CASE g[1] # P
      BY <1>7, <2>1, <2>2, <3>2
    <3> QED BY <3>1, <3>2
  <2> QED BY <2>2, <2>3, <2>4
<1>10. Waiting \ S \subseteq Waiting'
  <2> SUFFICES ASSUME NEW p \in Waiting, p \notin S PROVE p \in Waiting'
    OBVIOUS
  <2>1. p \in DOMAIN frames /\ Waits(p) /\ p # P
    BY DEF Waiting
  <2>2. frames'[p] = frames[p] /\ OnStack' = OnStack /\ p \notin OnStack
    BY <1>7, <2>1 DEF OnStack, Waits
  <2>3. Waits(p)'
    BY <2>1, <2>2, OthersWait
  <2> QED BY <1>7, <2>1, <2>3 DEF Waiting
<1> HIDE DEF rest
<1>11. Settled(locks', Kinds(frames'), Places(frames'), Waiting', counted)
  <2>1. Settled(locks', K, rest, Waiting \ S, counted)
    BY <1>6, <1>7
  <2>2. Settled(locks', Kinds(frames'), rest, Waiting \ S, counted)
    BY <1>9, <2>1, SameKinds
  <2>3. Settled(locks', Kinds(frames'), rest, Waiting', counted)
    BY <1>10, <2>2, MoreWait
  <2> QED BY <1>8, <2>3
<1>12. ASSUME NEW p \in DOMAIN frames'
       PROVE  /\ frames'[p].guards \in Seq(GuardRecords)
              /\ frames'[p].pc <= 1 \/ frames'[p].state # "suspended" => frames'[p].guards = <<>>
  <2>1. CASE p = P
    <3>1. new.guards \in Seq(GuardRecords)
      BY <1>1, EmptySeq
    <3> QED BY <1>7, <2>1, <3>1
  <2>2. CASE p # P
    <3>1. p \in DOMAIN frames /\ frames'[p] = frames[p]
      BY <1>7, <2>2
    <3> QED BY <3>1 DEF LInv
  <2> QED BY <2>1, <2>2
<1> QED BY <1>11, <1>12 DEF LInv

LEMMA JoinEndsKeepsLocks ==
    ASSUME NEW counted \in BOOLEAN, IInv, LInv(counted), JoinEnds PROVE LInv(counted)'
<1> USE DEF IInv
<1> DEFINE gone == UNION {{p} \cup Below(p) : p \in {Child(Joined[i]) : i \in DOMAIN Joined}}
<1>1. /\ Polling /\ phase = "poll" /\ DoesNow("join") /\ UNCHANGED <<stack, program, outcome>>
  BY DEF JoinEnds, Polls
<1>2. \/ \E values : Destroy(gone, Learns(values), locks)
      \/ UNCHANGED <<frames, locks>>
  BY DEF JoinEnds
<1>3. /\ F.state = "suspended" /\ F.pc \in 1..Len(F.body) /\ Now.do = "join" /\ ~DoesNow("lock")
      /\ F.pc \in DOMAIN F.body /\ IsFrame(F) /\ DOMAIN F = Fields /\ Len(F.body) \in Nat
      /\ OwnsItsTasks(F.body) /\ P \in DOMAIN frames /\ P \in Paths /\ F = frames[P]
  BY <1>1, Working, PolledFrame DEF IsFrame, F, DoesNow
<1>4. ~Waits(P)
  BY <1>1, <1>3, PolledWaits
<1>5. ASSUME NEW j \in DOMAIN Joined PROVE Joined[j] \in Nat \ {0} /\ Child(Joined[j]) \in DOMAIN frames
  <2>1. Joined[j] \in Alive(F.body, F.pc)
    BY <1>3 DEF OwnsItsTasks, StepsOf, Now, Joined, Range
  <2> QED BY <1>1, <1>3, <2>1, AliveChild
<1>6. gone \in SUBSET DOMAIN frames /\ P \notin gone
  <2>1. gone \subseteq DOMAIN frames
    BY <1>5 DEF Below
  <2>2. ASSUME NEW j \in DOMAIN Joined PROVE Child(Joined[j]) # P /\ P \notin Below(Child(Joined[j]))
    <3>1. /\ Child(Joined[j]) \in Paths /\ Len(Child(Joined[j])) = Len(P) + 1 /\ Len(P) \in Nat
          /\ Child(Joined[j]) # P
      BY <1>3, <1>5, ChildPath, Beginnings DEF Child
    <3>2. ~IsStrictPrefix(Child(Joined[j]), P)
      BY <1>3, <3>1, StrictPrefix
    <3> QED BY <3>1, <3>2 DEF Below
  <2> QED BY <2>1, <2>2
<1> HIDE DEF gone
<1>7. ASSUME NEW values, Destroy(gone, Learns(values), locks) PROVE LInv(counted)'
  <2>1. /\ Learns(values).guards = F.guards /\ Learns(values).pc = F.pc + 1
        /\ Learns(values).state = "suspended"
    BY <1>3 DEF Fields, Learns, StepDone
  <2>2. ~(Learns(values).pc <= 1)
    BY <1>3, <2>1
  <2> DEFINE new == Learns(values)
             nothing == {}
  <2>3. /\ Destroy(gone, new, locks) /\ nothing = {} /\ new.guards = F.guards
        /\ ~(new.pc <= 1) /\ new.state = "suspended"
    BY <1>7, <2>1, <2>2
  <2> HIDE DEF new, nothing
  <2> QED BY <1>1, <1>4, <1>6, <2>3, DestroyKeepsLocks
<1>8. CASE UNCHANGED <<frames, locks>>
  <2>1. F.pc \in Nat
    BY <1>3
  <2> QED BY <1>1, <1>3, <1>8, <2>1, LocksOfOthers
<1> QED BY <1>2, <1>7, <1>8

LEMMA BodyLeavesLocks ==
    ASSUME NEW counted \in BOOLEAN, IInv, LInv(counted), BodyEnds \/ BodyThrows \/ BodyCatches
    PROVE  LInv(counted)'
<1> USE DEF IInv
<1>1. Polling /\ phase \in {"body", "failing"} /\ UNCHANGED stack
  BY DEF BodyEnds, BodyThrows, BodyCatches, Leaves
<1>2. /\ ~Waits(P) /\ IsFrame(F) /\ DOMAIN F = Fields
      /\ Below(P) \in SUBSET DOMAIN frames /\ P \notin Below(P)
  <2>1. ~Waits(P)
    BY <1>1, PolledWaits
  <2>2. P \in Paths /\ IsFrame(F)
    BY <1>1, PolledFrame
  <2>3. Len(P) \in Nat
    BY <2>2, Beginnings
  <2>4. ~IsStrictPrefix(P, P)
    BY <2>2, <2>3, StrictPrefix
  <2> QED BY <2>1, <2>2, <2>4 DEF Below, IsFrame
<1>3. \E new : new.guards = <<>> /\ Destroy(Below(P), new, ReleaseAll(locks, F.guards))
  <2>1. ASSUME NEW state, Leaves(state)
        PROVE  \E new : new.guards = <<>> /\ Destroy(Below(P), new, ReleaseAll(locks, F.guards))
    <3> DEFINE new == [F EXCEPT !.state = state, !.guards = <<>>]
    <3>1. new.guards = <<>>
      BY <1>2 DEF Fields
    <3>2. Destroy(Below(P), new, ReleaseAll(locks, F.guards))
      BY <2>1 DEF Leaves
    <3> HIDE DEF new
    <3> QED BY <3>1, <3>2
  <2>2. ASSUME BodyCatches
        PROVE  \E new : new.guards = <<>> /\ Destroy(Below(P), new, ReleaseAll(locks, F.guards))
    <3> DEFINE new == [F EXCEPT !.pc = Min(Handlers) + 1, !.guards = <<>>]
    <3>1. new.guards = <<>>
      BY <1>2 DEF Fields
    <3>2. Destroy(Below(P), new, ReleaseAll(locks, F.guards))
      BY <2>2 DEF BodyCatches
    <3> HIDE DEF new
    <3> QED BY <3>1, <3>2
  <2> QED BY <2>1, <2>2 DEF BodyEnds, BodyThrows
<1>4. PICK new : new.guards = <<>> /\ Destroy(Below(P), new, ReleaseAll(locks, F.guards))
  BY <1>3
<1> QED BY <1>1, <1>2, <1>4, DestroyKeepsLocks

------------------------------------------------------------------------------
(* Steps that take a lock, or wait for it.                                 *)

LEMMA GuardOfStep ==
    ASSUME Structure, Polling, NEW what \in {"lock", "try", "unlock"}, DoesNow(what)
    PROVE  /\ [lock |-> Now.lock, mode |-> Now.mode] \in GuardRecords
           /\ Now.lock \in LockNames /\ Now.mode \in {"read", "write"}
           /\ Now.lock = "mutex" => Now.mode = "write"
<1>1. IsGuard(Now)
  <2>1. F.body \in Bodies(program.body)
    BY PolledFrame DEF IsFrame
  <2>2. F.pc \in UNION {StepsOf(F.body, w) : w \in {"lock", "try", "unlock"}}
    BY DEF DoesNow, StepsOf, Now
  <2>3. \A k \in UNION {StepsOf(F.body, w) : w \in {"lock", "try", "unlock"}} : IsGuard(F.body[k])
    BY <2>1 DEF Structure, Types, IsProgram
  <2> QED BY <2>2, <2>3 DEF Now
<1>2. /\ Now.lock \in LockNames /\ Now.mode \in {"read", "write"}
      /\ Now.lock = "mutex" => Now.mode = "write"
  BY <1>1 DEF IsGuard
<1> QED BY <1>2 DEF GuardRecords, IsGuard

LEMMA PlaceAdded ==
    ASSUME NEW new, Replaced(new), P \in DOMAIN frames, F.guards \in Seq(GuardRecords),
           NEW g, new.guards = Append(F.guards, g), NEW at, at = <<P, Len(F.guards) + 1>>
    PROVE  /\ at \notin Places(frames) /\ Places(frames') = Places(frames) \cup {at}
           /\ Kinds(frames')[at] = g
           /\ \A h \in Places(frames) : Kinds(frames')[h] = Kinds(frames)[h]
<1> DEFINE n == Len(F.guards)
<1>1. /\ n \in Nat /\ DOMAIN F.guards = 1..n /\ F = frames[P]
      /\ DOMAIN new.guards = 1..(n + 1) /\ new.guards[n + 1] = g
      /\ \A i \in 1..n : new.guards[i] = F.guards[i]
  BY DEF F
<1>2. at = <<P, n + 1>> /\ at[1] = P /\ at[2] = n + 1
  OBVIOUS
<1> HIDE DEF n
<1>3. /\ DOMAIN frames' = DOMAIN frames /\ frames'[P].guards = new.guards
      /\ \A q \in DOMAIN frames : q # P => frames'[q] = frames[q]
  BY DEF Replaced
<1>4. at \notin Places(frames)
  <2> SUFFICES ASSUME at \in Places(frames) PROVE FALSE
    OBVIOUS
  <2>1. n + 1 \in DOMAIN F.guards
    BY <1>1, <1>2, PlacesOf
  <2> QED BY <1>1, <2>1
<1>5. at \in Places(frames')
  <2>1. n + 1 \in DOMAIN frames'[P].guards
    BY <1>1, <1>3
  <2> QED BY <1>2, <1>3, <2>1, PlacesOf
<1>6. ASSUME NEW h \in Places(frames)
      PROVE  h \in Places(frames') /\ Kinds(frames')[h] = Kinds(frames)[h]
  <2>1. /\ h = <<h[1], h[2]>> /\ h[1] \in DOMAIN frames /\ h[2] \in DOMAIN frames[h[1]].guards
        /\ Kinds(frames)[h] = frames[h[1]].guards[h[2]]
    BY PlacesOf
  <2>2. /\ h[2] \in DOMAIN frames'[h[1]].guards
        /\ frames'[h[1]].guards[h[2]] = frames[h[1]].guards[h[2]]
    <3>1. CASE h[1] = P
      <4>1. h[2] \in 1..n /\ h[2] \in 1..(n + 1)
        BY <1>1, <2>1, <3>1
      <4> QED BY <1>1, <1>3, <3>1, <4>1
    <3>2. CASE h[1] # P
      BY <1>3, <2>1, <3>2
    <3> QED BY <3>1, <3>2
  <2>3. h \in Places(frames')
    BY <1>3, <2>1, <2>2, PlacesOf
  <2>4. Kinds(frames')[h] = frames'[h[1]].guards[h[2]]
    BY <2>3, PlacesOf
  <2> QED BY <2>1, <2>2, <2>3, <2>4
<1>7. ASSUME NEW h \in Places(frames') PROVE h \in Places(frames) \/ h = at
  <2>1. h = <<h[1], h[2]>> /\ h[1] \in DOMAIN frames /\ h[2] \in DOMAIN frames'[h[1]].guards
    BY <1>3, PlacesOf
  <2>2. CASE h[1] = P
    <3>1. h[2] \in 1..n \/ h[2] = n + 1
      BY <1>1, <1>3, <2>1, <2>2
    <3>2. h[2] \in 1..n => h[2] \in DOMAIN frames[h[1]].guards
      BY <1>1, <2>2
    <3>3. h[2] = n + 1 => h = at
      BY <1>2, <2>1, <2>2
    <3> QED BY <2>1, <3>1, <3>2, <3>3, PlacesOf
  <2>3. CASE h[1] # P
    <3>1. h[2] \in DOMAIN frames[h[1]].guards
      BY <1>3, <2>1, <2>3
    <3> QED BY <2>1, <3>1, PlacesOf
  <2> QED BY <2>2, <2>3
<1>8. Places(frames') = Places(frames) \cup {at}
  BY <1>5, <1>6, <1>7
<1>9. Kinds(frames')[at] = g
  <2>1. Kinds(frames')[at] = frames'[at[1]].guards[at[2]]
    BY <1>5, PlacesOf
  <2> QED BY <1>1, <1>2, <1>3, <2>1
<1> QED BY <1>4, <1>6, <1>8, <1>9

LEMMA MutexTaken ==
    ASSUME NEW l \in LockStates, NEW held, NEW waits, MutexOK(l, held, waits), NEW p, NEW at
    PROVE  /\ p \in l.served => MutexOK([l EXCEPT !.served = @ \ {p}], held \cup {at}, waits \ {p})
           /\ ~l.writer /\ (\A i \in DOMAIN l.queue : l.queue[i].frame # p) =>
                 MutexOK(Enter(l, "write"), held \cup {at}, waits \ {p})
<1>1. ASSUME p \in l.served
      PROVE  MutexOK([l EXCEPT !.served = @ \ {p}], held \cup {at}, waits \ {p})
  <2> DEFINE new == [l EXCEPT !.served = @ \ {p}]
  <2>1. new.writer = l.writer /\ new.queue = l.queue /\ new.served = l.served \ {p}
    BY DEF LockStates
  <2>2. held = {} /\ l.writer = TRUE /\ new.served = {}
    BY <1>1, <2>1 DEF MutexOK
  <2>3. \A i \in DOMAIN l.queue : l.queue[i].frame \in waits \ {p}
    BY <1>1 DEF MutexOK
  <2> HIDE DEF new
  <2>4. MutexOK(new, held \cup {at}, waits \ {p})
    BY <2>1, <2>2, <2>3 DEF MutexOK
  <2> QED BY <2>4 DEF new
<1>2. ASSUME ~l.writer, \A i \in DOMAIN l.queue : l.queue[i].frame # p
      PROVE  MutexOK(Enter(l, "write"), held \cup {at}, waits \ {p})
  <2>1. /\ Enter(l, "write").writer = TRUE /\ Enter(l, "write").queue = l.queue
        /\ Enter(l, "write").served = l.served
    BY DEF LockStates, Enter
  <2>2. held = {} /\ l.served = {}
    BY <1>2 DEF MutexOK
  <2>3. \A i \in DOMAIN l.queue : l.queue[i].frame \in waits \ {p}
    BY <1>2 DEF MutexOK
  <2> QED BY <2>1, <2>2, <2>3 DEF MutexOK
<1> QED BY <1>1, <1>2

LEMMA SharedTaken ==
    ASSUME NEW l \in LockStates, NEW write, NEW read, SharedOK(l, write, read),
           NEW at, at \notin read
    PROVE  /\ ~l.writer => SharedOK(Enter(l, "write"), write \cup {at}, read)
           /\ SharedOK(Enter(l, "read"), write, read \cup {at})
<1>1. ASSUME ~l.writer PROVE SharedOK(Enter(l, "write"), write \cup {at}, read)
  <2>1. Enter(l, "write").writer = TRUE /\ Enter(l, "write").readers = l.readers
    BY DEF LockStates, Enter
  <2>2. write = {}
    BY <1>1 DEF SharedOK
  <2> QED BY <2>1, <2>2 DEF SharedOK
<1>2. SharedOK(Enter(l, "read"), write, read \cup {at})
  <2>1. Enter(l, "read").writer = l.writer /\ Enter(l, "read").readers = l.readers + 1
    BY DEF LockStates, Enter
  <2>2. IsFiniteSet(read) /\ l.readers = Cardinality(read)
    BY DEF SharedOK
  <2>3. IsFiniteSet(read \cup {at}) /\ Cardinality(read \cup {at}) = Cardinality(read) + 1
    BY <2>2, FS_AddElement
  <2> QED BY <2>1, <2>2, <2>3 DEF SharedOK
<1> QED BY <1>1, <1>2

LEMMA EnterType ==
    ASSUME NEW l \in LockStates, NEW mode
    PROVE  Enter(l, mode) \in LockStates
<1>1. [l EXCEPT !.writer = TRUE] \in LockStates
  BY DEF LockStates
<1>2. [l EXCEPT !.readers = @ + 1] \in LockStates
  BY DEF LockStates
<1> QED BY <1>1, <1>2 DEF Enter

\* A guard more, at some place.
With(S, at) == S \cup {at}

LEMMA HeldMore ==
    ASSUME NEW K, NEW G, NEW at, K[at] \in GuardRecords
    PROVE  /\ Held(K, With(G, at), "mutex", "write") =
                 IF K[at].lock = "mutex" THEN With(Held(K, G, "mutex", "write"), at)
                 ELSE Held(K, G, "mutex", "write")
           /\ Held(K, With(G, at), "shared_mutex", "write") =
                 IF K[at].lock = "shared_mutex" /\ K[at].mode = "write"
                 THEN With(Held(K, G, "shared_mutex", "write"), at)
                 ELSE Held(K, G, "shared_mutex", "write")
           /\ Held(K, With(G, at), "shared_mutex", "read") =
                 IF K[at].lock = "shared_mutex" /\ K[at].mode = "read"
                 THEN With(Held(K, G, "shared_mutex", "read"), at)
                 ELSE Held(K, G, "shared_mutex", "read")
<1> DEFINE H == With(G, at)
           M == [lock |-> "mutex", mode |-> "write"]
           W == [lock |-> "shared_mutex", mode |-> "write"]
           R == [lock |-> "shared_mutex", mode |-> "read"]
<1>1. /\ K[at] = M <=> K[at].lock = "mutex"
      /\ K[at] = W <=> K[at].lock = "shared_mutex" /\ K[at].mode = "write"
      /\ K[at] = R <=> K[at].lock = "shared_mutex" /\ K[at].mode = "read"
  BY DEF GuardRecords, IsGuard, LockNames
<1>2. /\ Held(K, H, "mutex", "write") = {g \in H : K[g] = M}
      /\ Held(K, H, "shared_mutex", "write") = {g \in H : K[g] = W}
      /\ Held(K, H, "shared_mutex", "read") = {g \in H : K[g] = R}
      /\ Held(K, G, "mutex", "write") = {g \in G : K[g] = M}
      /\ Held(K, G, "shared_mutex", "write") = {g \in G : K[g] = W}
      /\ Held(K, G, "shared_mutex", "read") = {g \in G : K[g] = R}
  BY DEF Held
<1>3. \A kind : {g \in H : K[g] = kind} =
                  IF K[at] = kind THEN {g \in G : K[g] = kind} \cup {at}
                  ELSE {g \in G : K[g] = kind}
  BY DEF With
<1> HIDE DEF M, W, R
<1> QED BY <1>1, <1>2, <1>3 DEF With

\* A frame takes a lock: what it was given, or what is free.
LEMMA TakesKeepsLocks ==
    ASSUME NEW counted \in BOOLEAN, Structure, LInv(counted), Polling, UNCHANGED stack,
           NEW what \in {"lock", "try"}, DoesNow(what), phase \in {"poll", "body"},
           NEW new, Replaced(new), TakesGuard(new),
           NEW taken, LockBecomes(taken), MayTake(taken, counted)
    PROVE  LInv(counted)'
<1> PICK l : l = locks[Now.lock]
  OBVIOUS
<1> /\ new.pc = F.pc + 1 /\ new.state = "suspended"
    /\ new.guards = Append(F.guards, [lock |-> Now.lock, mode |-> Now.mode])
  BY DEF TakesGuard
<1> locks' = [locks EXCEPT ![Now.lock] = taken]
  BY DEF LockBecomes
<1> \/ /\ P \in l.served /\ taken = [l EXCEPT !.served = @ \ {P}]
       /\ counted => Now.lock = "mutex"
    \/ /\ MayEnter(l, Now.lock, Now.mode) /\ taken = Enter(l, Now.mode)
       /\ Now.lock = "mutex" => \A i \in DOMAIN l.queue : l.queue[i].frame # P
  BY DEF MayTake
<1> DEFINE K == Kinds(frames)
           G == Places(frames)
           at == <<P, Len(F.guards) + 1>>
           heldM == Held(K, G, "mutex", "write")
           heldW == Held(K, G, "shared_mutex", "write")
           heldR == Held(K, G, "shared_mutex", "read")
           kind == [lock |-> Now.lock, mode |-> Now.mode]
           rest == IF Now.lock = "mutex" THEN Waiting \ {P} ELSE Waiting
<1>1. /\ kind \in GuardRecords /\ kind.lock = Now.lock /\ kind.mode = Now.mode
      /\ Now.lock \in LockNames /\ Now.mode \in {"read", "write"}
      /\ Now.lock = "mutex" => Now.mode = "write"
  BY GuardOfStep
<1>2. /\ P \in DOMAIN frames /\ F = frames[P] /\ F.guards \in Seq(GuardRecords)
      /\ F.pc \in 1..Len(F.body) /\ F.pc \in DOMAIN F.body
  BY PolledFrame, Working DEF F, LInv
<1>3. /\ at \notin G /\ Places(frames') = G \cup {at} /\ Kinds(frames')[at] = kind
      /\ \A g \in G : Kinds(frames')[g] = K[g]
  <2> HIDE DEF kind
  <2>1. new.guards = Append(F.guards, kind)
    BY DEF kind
  <2> QED BY <1>2, <2>1, PlaceAdded
<1>4. Settled(locks, K, G, Waiting, counted)
  BY DEF LInv
<1> HIDE DEF K, G, at, kind
<1>5. /\ l \in LockStates /\ taken \in LockStates
      /\ Now.lock = "mutex" => MutexOK(l, heldM, Waiting)
      /\ Now.lock = "shared_mutex" /\ counted => SharedOK(l, heldW, heldR)
  <2>1. l \in LockStates
    BY <1>1, <1>4 DEF Settled, Locks
  <2>2. [l EXCEPT !.served = @ \ {P}] \in LockStates
    BY <2>1 DEF LockStates
  <2>3. Enter(l, Now.mode) \in LockStates
    BY <2>1, EnterType
  <2> QED BY <1>4, <2>1, <2>2, <2>3 DEF Settled
<1>6. Now.lock = "mutex" => MutexOK(taken, heldM \cup {at}, rest)
  <2> SUFFICES ASSUME Now.lock = "mutex" PROVE MutexOK(taken, heldM \cup {at}, Waiting \ {P})
    OBVIOUS
  <2>1. MutexOK(l, heldM, Waiting) /\ Now.mode = "write"
    BY <1>1, <1>5
  <2> HIDE DEF heldM
  <2>2. CASE P \in l.served /\ taken = [l EXCEPT !.served = @ \ {P}]
    <3>1. MutexOK([l EXCEPT !.served = @ \ {P}], heldM \cup {at}, Waiting \ {P})
      BY <1>5, <2>1, <2>2, MutexTaken
    <3> QED BY <2>2, <3>1
  <2>3. CASE /\ MayEnter(l, Now.lock, Now.mode) /\ taken = Enter(l, Now.mode)
             /\ \A i \in DOMAIN l.queue : l.queue[i].frame # P
    <3>1. ~l.writer
      BY <2>3 DEF MayEnter
    <3>2. MutexOK(Enter(l, "write"), heldM \cup {at}, Waiting \ {P})
      BY <1>5, <2>1, <2>3, <3>1, MutexTaken
    <3> QED BY <2>1, <2>3, <3>2
  <2> QED BY <2>2, <2>3
<1>7. Now.lock = "shared_mutex" /\ counted =>
         /\ Now.mode = "write" => SharedOK(taken, heldW \cup {at}, heldR)
         /\ Now.mode = "read" => SharedOK(taken, heldW, heldR \cup {at})
  <2> SUFFICES ASSUME Now.lock = "shared_mutex", counted
               PROVE  /\ Now.mode = "write" => SharedOK(taken, heldW \cup {at}, heldR)
                      /\ Now.mode = "read" => SharedOK(taken, heldW, heldR \cup {at})
    OBVIOUS
  <2>1. SharedOK(l, heldW, heldR) /\ at \notin heldR
    BY <1>3, <1>5 DEF Held
  <2>2. MayEnter(l, Now.lock, Now.mode) /\ taken = Enter(l, Now.mode)
    OBVIOUS
  <2>3. ~l.writer
    BY <1>1, <2>2 DEF MayEnter
  <2> HIDE DEF heldW, heldR
  <2>4. /\ SharedOK(Enter(l, "write"), heldW \cup {at}, heldR)
        /\ SharedOK(Enter(l, "read"), heldW, heldR \cup {at})
    BY <1>5, <2>1, <2>3, SharedTaken
  <2> QED BY <2>2, <2>4
<1>8. rest \subseteq Waiting'
  <2> SUFFICES ASSUME NEW p \in rest PROVE p \in Waiting'
    OBVIOUS
  <2>1. p # P
    <3>1. Now.lock = "shared_mutex" => ~Waits(P)
      BY PolledWaits
    <3> QED BY <1>1, <3>1 DEF Waiting, LockNames
  <2>2. p \in DOMAIN frames /\ Waits(p) /\ frames'[p] = frames[p] /\ p \in DOMAIN frames'
    BY <2>1 DEF Waiting, Replaced
  <2>3. OnStack' = OnStack /\ p \notin OnStack
    BY <2>1, <2>2 DEF OnStack, Waits
  <2>4. Waits(p)'
    BY <2>2, <2>3, OthersWait
  <2> QED BY <2>2, <2>4 DEF Waiting
<1>9. Settled(locks', Kinds(frames'), Places(frames'), rest, counted)
  <2> DEFINE L == Kinds(frames')
             H == G \cup {at}
  <2>1. /\ L[at] = kind /\ \A g \in G : L[g] = K[g]
        /\ L[at] \in GuardRecords /\ L[at].lock = Now.lock /\ L[at].mode = Now.mode
    BY <1>1, <1>3 DEF kind
  <2> HIDE DEF L
  <2>2. Settled(locks, L, G, Waiting, counted)
    BY <1>4, <2>1, SameKinds
  <2>3. /\ Held(L, G, "mutex", "write") = heldM /\ Held(L, G, "shared_mutex", "write") = heldW
        /\ Held(L, G, "shared_mutex", "read") = heldR
    BY <2>1 DEF Held
  <2>4. /\ Held(L, H, "mutex", "write") = IF Now.lock = "mutex" THEN heldM \cup {at} ELSE heldM
        /\ Held(L, H, "shared_mutex", "write") =
              IF Now.lock = "shared_mutex" /\ Now.mode = "write" THEN heldW \cup {at} ELSE heldW
        /\ Held(L, H, "shared_mutex", "read") =
              IF Now.lock = "shared_mutex" /\ Now.mode = "read" THEN heldR \cup {at} ELSE heldR
    <3> HIDE DEF heldM, heldW, heldR, at
    <3>1. /\ Held(L, With(G, at), "mutex", "write") =
                IF L[at].lock = "mutex" THEN With(Held(L, G, "mutex", "write"), at)
                ELSE Held(L, G, "mutex", "write")
          /\ Held(L, With(G, at), "shared_mutex", "write") =
                IF L[at].lock = "shared_mutex" /\ L[at].mode = "write"
                THEN With(Held(L, G, "shared_mutex", "write"), at)
                ELSE Held(L, G, "shared_mutex", "write")
          /\ Held(L, With(G, at), "shared_mutex", "read") =
                IF L[at].lock = "shared_mutex" /\ L[at].mode = "read"
                THEN With(Held(L, G, "shared_mutex", "read"), at)
                ELSE Held(L, G, "shared_mutex", "read")
      BY <2>1, HeldMore
    <3> QED BY <2>1, <2>3, <3>1 DEF With
  <2>5. /\ locks' \in Locks /\ locks'[Now.lock] = taken
        /\ \A k \in LockNames : k # Now.lock => locks'[k] = locks[k]
    BY <1>1, <1>4, <1>5 DEF Settled, Locks
  <2> HIDE DEF heldM, heldW, heldR, H
  <2>6. MutexOK(locks'["mutex"], Held(L, H, "mutex", "write"), rest)
    <3>1. CASE Now.lock = "mutex"
      BY <1>6, <2>4, <2>5, <3>1
    <3>2. CASE Now.lock = "shared_mutex"
      BY <2>2, <2>3, <2>4, <2>5, <3>2 DEF Settled, LockNames
    <3> QED BY <1>1, <3>1, <3>2 DEF LockNames
  <2>7. counted => SharedOK(locks'["shared_mutex"], Held(L, H, "shared_mutex", "write"),
                            Held(L, H, "shared_mutex", "read"))
    <3>1. CASE Now.lock = "mutex"
      BY <2>2, <2>3, <2>4, <2>5, <3>1 DEF Settled, LockNames
    <3>2. CASE Now.lock = "shared_mutex"
      BY <1>1, <1>7, <2>4, <2>5, <3>2
    <3> QED BY <1>1, <3>1, <3>2 DEF LockNames
  <2>8. Settled(locks', L, H, rest, counted)
    BY <2>5, <2>6, <2>7 DEF Settled
  <2> QED BY <1>3, <2>8 DEF L, H
<1>10. Settled(locks', Kinds(frames'), Places(frames'), Waiting', counted)
  <2> HIDE DEF rest
  <2> QED BY <1>8, <1>9, MoreWait
<1>11. ASSUME NEW p \in DOMAIN frames'
       PROVE  /\ frames'[p].guards \in Seq(GuardRecords)
              /\ frames'[p].pc <= 1 \/ frames'[p].state # "suspended" => frames'[p].guards = <<>>
  <2>1. CASE p = P
    <3>1. new.guards \in Seq(GuardRecords)
      BY <1>1, <1>2, AppendProperties DEF kind
    <3>2. ~(new.pc <= 1)
      BY <1>2
    <3> QED BY <2>1, <3>1, <3>2 DEF Replaced
  <2>2. CASE p # P
    <3>1. p \in DOMAIN frames /\ frames'[p] = frames[p]
      BY <2>2 DEF Replaced
    <3> QED BY <3>1 DEF LInv
  <2> QED BY <2>1, <2>2
<1> QED BY <1>10, <1>11 DEF LInv

\* A frame waits in the queue, with the waker of its last poll.
LEMMA QueueKeepsLocks ==
    ASSUME NEW counted \in BOOLEAN, Structure, LInv(counted), Polling, UNCHANGED <<stack, frames>>,
           DoesNow("lock"), phase = "poll", phase' = "return",
           NEW queue, QueueBecomes(queue), MayWait(queue)
    PROVE  LInv(counted)'
<1> PICK l : l = locks[Now.lock]
  OBVIOUS
<1> /\ queue \in Seq(Waiters) /\ P \notin l.served
    /\ \A i \in DOMAIN queue : \/ queue[i].frame = P
                               \/ \E j \in DOMAIN l.queue : queue[i].frame = l.queue[j].frame
    /\ Now.lock = "mutex" => \A i, j \in DOMAIN queue : queue[i].frame = queue[j].frame => i = j
  BY DEF MayWait
<1> locks' = [locks EXCEPT ![Now.lock].queue = queue]
  BY DEF QueueBecomes
<1>1. Now.lock \in LockNames
  BY GuardOfStep
<1>2. /\ P \in DOMAIN frames /\ F = frames[P] /\ F.state = "suspended"
      /\ P' = P /\ OnStack' = OnStack
  BY PolledFrame, Working DEF F, P, Top, OnStack
<1>3. Waiting \subseteq Waiting'
  <2> SUFFICES ASSUME NEW p \in DOMAIN frames, Waits(p) PROVE Waits(p)'
    BY DEF Waiting
  <2>1. p \in OnStack' => p = P' /\ phase' \in {"poll", "return"}
    BY <1>2 DEF Waits
  <2> QED BY <2>1, OthersWait
<1>4. Now.lock = "mutex" => P \in Waiting'
  <2> SUFFICES ASSUME Now.lock = "mutex" PROVE Waits(P)'
    BY <1>2 DEF Waiting
  <2>1. AwaitsMutex(frames[P])
    BY <1>2 DEF AwaitsMutex, DoesNow, Now
  <2> QED BY <1>2, <2>1 DEF Waits
<1>5. Settled(locks, Kinds(frames), Places(frames), Waiting', counted)
  <2>1. Settled(locks, Kinds(frames), Places(frames), Waiting, counted)
    BY DEF LInv
  <2> QED BY <1>3, <2>1, MoreWait
<1> DEFINE new == [l EXCEPT !.queue = queue]
           held == Held(Kinds(frames), Places(frames), "mutex", "write")
           wait == Waiting'
<1>6. /\ l \in LockStates /\ new \in LockStates /\ new.writer = l.writer
      /\ new.readers = l.readers /\ new.served = l.served /\ new.queue = queue
  <2>1. l \in LockStates
    BY <1>1, <1>5 DEF Settled, Locks
  <2> QED BY <2>1 DEF LockStates
<1>7. /\ locks' \in Locks /\ locks'[Now.lock] = new
      /\ \A k \in LockNames : k # Now.lock => locks'[k] = locks[k]
  <2>1. locks' = [locks EXCEPT ![Now.lock] = new]
    OBVIOUS
  <2> HIDE DEF new
  <2> QED BY <1>1, <1>5, <1>6, <2>1 DEF Settled, Locks
<1> HIDE DEF new, held, wait
<1>8. Now.lock = "mutex" => MutexOK(new, held, wait)
  <2> SUFFICES ASSUME Now.lock = "mutex" PROVE MutexOK(new, held, wait)
    OBVIOUS
  <2>1. MutexOK(l, held, wait) /\ P \in wait
    BY <1>4, <1>5 DEF Settled, held, wait
  <2>2. \A i \in DOMAIN queue : queue[i].frame \in wait \ l.served
    BY <2>1 DEF MutexOK
  <2> QED BY <1>6, <2>1, <2>2 DEF MutexOK
<1>9. Settled(locks', Kinds(frames), Places(frames), Waiting', counted)
  <2>1. CASE Now.lock = "mutex"
    <3>1. MutexOK(locks'["mutex"], held, wait)
      BY <1>7, <1>8, <2>1
    <3>2. locks'["shared_mutex"] = locks["shared_mutex"]
      BY <1>7, <2>1 DEF LockNames
    <3> QED BY <1>5, <1>7, <3>1, <3>2 DEF Settled, held, wait
  <2>2. CASE Now.lock = "shared_mutex"
    <3>1. locks'["mutex"] = locks["mutex"] /\ locks'["shared_mutex"] = new
      BY <1>7, <2>2 DEF LockNames
    <3>2. \A write, read : SharedOK(l, write, read) => SharedOK(new, write, read)
      BY <1>6 DEF SharedOK
    <3> QED BY <1>5, <1>7, <2>2, <3>1, <3>2 DEF Settled
  <2> QED BY <1>1, <2>1, <2>2 DEF LockNames
<1>10. \A p \in DOMAIN frames' : /\ frames'[p].guards \in Seq(GuardRecords)
                                 /\ frames'[p].pc <= 1 \/ frames'[p].state # "suspended"
                                       => frames'[p].guards = <<>>
  BY DEF LInv
<1> QED BY <1>9, <1>10 DEF LInv

LEMMA PollLockKeepsLocks ==
    ASSUME NEW counted \in BOOLEAN, IInv, LInv(counted), PollLock, counted => ~TakesUncounted
    PROVE  LInv(counted)'
<1> USE DEF IInv
<1> DEFINE l == locks[Now.lock]
           granted == [StepDone EXCEPT
                          !.guards = Append(@, [lock |-> Now.lock, mode |-> Now.mode])]
           waiting == [frame |-> P, mode |-> Now.mode, quiet |-> Top.quiet]
           registered == {i \in DOMAIN l.queue : l.queue[i].frame = P}
           same == [i \in DOMAIN l.queue |-> IF i \in registered THEN waiting ELSE l.queue[i]]
           more == Append(l.queue, waiting)
<1>1. /\ Polls("lock") /\ UNCHANGED <<stack, program, outcome>>
  BY DEF PollLock
<1>2. \/ /\ P \in l.served /\ Becomes(granted)
         /\ locks' = [locks EXCEPT ![Now.lock].served = @ \ {P}]
      \/ /\ P \notin l.served /\ registered # {} /\ phase' = "return" /\ UNCHANGED frames
         /\ locks' = [locks EXCEPT ![Now.lock].queue =
                         [i \in DOMAIN @ |-> IF i \in registered THEN waiting ELSE @[i]]]
      \/ /\ registered = {} /\ MayEnter(l, Now.lock, Now.mode) /\ Becomes(granted)
         /\ locks' = [locks EXCEPT ![Now.lock] = Enter(@, Now.mode)]
      \/ /\ P \notin l.served /\ registered = {} /\ phase' = "return" /\ UNCHANGED frames
         /\ locks' = [locks EXCEPT ![Now.lock].queue = Append(@, waiting)]
  BY Zenon DEF PollLock
<1>3. /\ Polling /\ phase = "poll" /\ DoesNow("lock")
  BY <1>1 DEF Polls
<1>4. /\ P \in Paths /\ DOMAIN F = Fields /\ F.state = "suspended" /\ Top.quiet \in BOOLEAN
  BY <1>3, PolledFrame, Working DEF IsFrame, Entries
<1>5. /\ Now.lock \in LockNames /\ Now.mode \in {"read", "write"} /\ l \in LockStates
  <2>1. Now.lock \in LockNames /\ Now.mode \in {"read", "write"}
    BY <1>3, GuardOfStep
  <2>2. locks \in Locks
    BY DEF LInv, Settled
  <2> QED BY <2>1, <2>2 DEF Locks
<1>6. /\ waiting \in Waiters /\ waiting.frame = P
  BY <1>4, <1>5 DEF Waiters
<1>7. /\ l.queue \in Seq(Waiters) /\ DOMAIN l.queue = 1..Len(l.queue) /\ Len(l.queue) \in Nat
      /\ \A i \in DOMAIN l.queue : l.queue[i] \in Waiters
  BY <1>5, LenProperties, ElementOfSeq DEF LockStates
<1>8. Now.lock = "mutex" =>
         \A i, j \in DOMAIN l.queue : l.queue[i].frame = l.queue[j].frame => i = j
  BY DEF LInv, Settled, MutexOK
<1>9. /\ granted.guards = Append(F.guards, [lock |-> Now.lock, mode |-> Now.mode])
      /\ granted.pc = F.pc + 1 /\ granted.state = "suspended"
  BY <1>4 DEF Fields, StepDone
<1>10. \A i \in DOMAIN l.queue : i \notin registered => l.queue[i].frame # P
  OBVIOUS
<1> HIDE DEF granted, waiting, l
<1>11. CASE P \in l.served /\ Becomes(granted) /\ locks' = [locks EXCEPT ![Now.lock].served = @ \ {P}]
  <2>1. Replaced(granted)
    BY <1>1, <1>3, <1>11, BecomesReplaces
  <2> DEFINE taken == [l EXCEPT !.served = @ \ {P}]
  <2>2. LockBecomes(taken)
    BY <1>11 DEF l, LockBecomes
  <2>3. counted => Now.lock = "mutex"
    BY <1>1, <1>5, <1>11 DEF TakesUncounted, LockNames, l
  <2>4. MayTake(taken, counted)
    BY <1>11, <2>3 DEF MayTake, l
  <2> HIDE DEF taken
  <2>5. TakesGuard(granted)
    BY <1>9 DEF TakesGuard
  <2> QED BY <1>1, <1>3, <2>1, <2>2, <2>4, <2>5, TakesKeepsLocks
<1>12. CASE /\ P \notin l.served /\ phase' = "return" /\ UNCHANGED frames
            /\ locks' = [locks EXCEPT ![Now.lock].queue =
                            [i \in DOMAIN @ |-> IF i \in registered THEN waiting ELSE @[i]]]
  <2>1. same \in Seq(Waiters) /\ DOMAIN same = DOMAIN l.queue
    BY <1>6, <1>7
  <2>2. \A i \in DOMAIN same : same[i].frame = l.queue[i].frame
    BY <1>6
  <2>3. QueueBecomes(same)
    BY <1>12 DEF l, QueueBecomes
  <2> HIDE DEF same, registered
  <2>5. \A i \in DOMAIN same : \E j \in DOMAIN l.queue : same[i].frame = l.queue[j].frame
    BY <2>1, <2>2
  <2>6. Now.lock = "mutex" => \A i, j \in DOMAIN same : same[i].frame = same[j].frame => i = j
    BY <1>8, <2>1, <2>2
  <2>7. MayWait(same)
    BY <1>12, <2>1, <2>5, <2>6 DEF MayWait, l
  <2> QED BY <1>1, <1>3, <1>12, <2>3, <2>7, QueueKeepsLocks
<1>13. CASE /\ registered = {} /\ MayEnter(l, Now.lock, Now.mode) /\ Becomes(granted)
            /\ locks' = [locks EXCEPT ![Now.lock] = Enter(@, Now.mode)]
  <2>1. Replaced(granted)
    BY <1>1, <1>3, <1>13, BecomesReplaces
  <2> DEFINE taken == Enter(l, Now.mode)
  <2>2. LockBecomes(taken)
    BY <1>13 DEF l, LockBecomes
  <2>3. \A i \in DOMAIN l.queue : l.queue[i].frame # P
    BY <1>10, <1>13
  <2>4. MayTake(taken, counted)
    BY <1>13, <2>3 DEF MayTake, l
  <2> HIDE DEF taken, registered
  <2>5. TakesGuard(granted)
    BY <1>9 DEF TakesGuard
  <2> QED BY <1>1, <1>3, <2>1, <2>2, <2>4, <2>5, TakesKeepsLocks
<1>14. CASE /\ P \notin l.served /\ registered = {} /\ phase' = "return" /\ UNCHANGED frames
            /\ locks' = [locks EXCEPT ![Now.lock].queue = Append(@, waiting)]
  <2> DEFINE n == Len(l.queue)
  <2>1. /\ more \in Seq(Waiters) /\ DOMAIN more = 1..(n + 1) /\ more[n + 1] = waiting
        /\ \A i \in 1..n : more[i] = l.queue[i]
    BY <1>6, <1>7
  <2>2. QueueBecomes(more)
    BY <1>14 DEF l, QueueBecomes
  <2>4. \A i \in DOMAIN l.queue : l.queue[i].frame # P
    BY <1>10, <1>14
  <2> HIDE DEF more, registered, n
  <2>5. n \in Nat /\ DOMAIN l.queue = 1..n
    BY <1>7 DEF n
  <2>6. \A i \in DOMAIN more : i = n + 1 \/ (i \in DOMAIN l.queue /\ more[i] = l.queue[i])
    BY <2>1, <2>5
  <2>7. \A i \in DOMAIN more : \/ more[i].frame = P
                               \/ \E j \in DOMAIN l.queue : more[i].frame = l.queue[j].frame
    BY <1>6, <2>1, <2>6
  <2>8. Now.lock = "mutex" => \A i, j \in DOMAIN more : more[i].frame = more[j].frame => i = j
    BY <1>6, <1>8, <2>1, <2>4, <2>6
  <2>9. MayWait(more)
    BY <1>14, <2>1, <2>7, <2>8 DEF MayWait, l
  <2> QED BY <1>1, <1>3, <1>14, <2>2, <2>9, QueueKeepsLocks
<1> QED BY <1>2, <1>11, <1>12, <1>13, <1>14 DEF l, waiting, granted

LEMMA TriesKeepsLocks ==
    ASSUME NEW counted \in BOOLEAN, IInv, LInv(counted), Tries PROVE LInv(counted)'
<1> USE DEF IInv
<1> DEFINE l == locks[Now.lock]
           held == [Learns(<<1>>) EXCEPT
                       !.guards = Append(@, [lock |-> Now.lock, mode |-> Now.mode])]
<1>1. /\ Polling /\ phase = "body" /\ DoesNow("try") /\ UNCHANGED <<stack, program, outcome>>
  BY DEF Tries, Runs
<1>2. \/ /\ MayEnter(l, Now.lock, Now.mode) /\ Becomes(held)
         /\ locks' = [locks EXCEPT ![Now.lock] = Enter(@, Now.mode)]
      \/ Becomes(Learns(<<0>>)) /\ UNCHANGED locks
  BY DEF Tries
<1>3. /\ DOMAIN F = Fields /\ F.state = "suspended" /\ F.pc \in DOMAIN F.body
  BY <1>1, PolledFrame, Working DEF IsFrame
<1>4. /\ held.guards = Append(F.guards, [lock |-> Now.lock, mode |-> Now.mode])
      /\ held.pc = F.pc + 1 /\ held.state = "suspended"
  BY <1>3 DEF Fields, Learns, StepDone
<1> HIDE DEF held, l
<1>5. CASE /\ MayEnter(l, Now.lock, Now.mode) /\ Becomes(held)
           /\ locks' = [locks EXCEPT ![Now.lock] = Enter(@, Now.mode)]
  <2>1. Replaced(held)
    BY <1>1, <1>5, BecomesReplaces
  <2> DEFINE taken == Enter(l, Now.mode)
  <2>2. LockBecomes(taken)
    BY <1>5 DEF l, LockBecomes
  <2>3. Now.lock = "mutex" => \A i \in DOMAIN l.queue : l.queue[i].frame # P
    <3>1. ~Waits(P)
      BY <1>1, PolledWaits
    <3> QED BY <3>1 DEF LInv, Settled, MutexOK, Waiting, l
  <2>4. MayTake(taken, counted)
    BY <1>5, <2>3 DEF MayTake, l
  <2> HIDE DEF taken
  <2>5. TakesGuard(held)
    BY <1>4 DEF TakesGuard
  <2> QED BY <1>1, <2>1, <2>2, <2>4, <2>5, TakesKeepsLocks
<1>6. CASE Becomes(Learns(<<0>>)) /\ UNCHANGED locks
  <2> DEFINE values == <<0>>
  <2>1. Becomes(Learns(values))
    BY <1>6
  <2> HIDE DEF values
  <2> QED BY <1>1, <1>3, <1>6, <2>1, BodyKeepsLocks
<1> QED BY <1>2, <1>5, <1>6

\* Places may be called otherwise.
LEMMA HeldRenamed ==
    ASSUME NEW K, NEW G, NEW L, NEW H, NEW f \in Bijection(H, G), \A h \in H : L[h] = K[f[h]],
           NEW lock, NEW mode
    PROVE  /\ Held(L, H, lock, mode) = {} <=> Held(K, G, lock, mode) = {}
           /\ (\A g, h \in Held(K, G, lock, mode) : g = h) =>
                 \A g, h \in Held(L, H, lock, mode) : g = h
           /\ IsFiniteSet(Held(K, G, lock, mode)) =>
                 /\ IsFiniteSet(Held(L, H, lock, mode))
                 /\ Cardinality(Held(L, H, lock, mode)) = Cardinality(Held(K, G, lock, mode))
<1> DEFINE kind == [lock |-> lock, mode |-> mode]
           A == Held(K, G, lock, mode)
           B == Held(L, H, lock, mode)
           b == [h \in B |-> f[h]]
<1>1. /\ f \in [H -> G] /\ \A g, h \in H : f[g] = f[h] => g = h
      /\ \A g \in G : \E h \in H : f[h] = g
  BY DEF Bijection, Injection, Surjection, IsInjective
<1>2. A = {g \in G : K[g] = kind} /\ B = {h \in H : L[h] = kind}
  BY DEF Held
<1> HIDE DEF kind, A, B
<1>3. \A h \in B : h \in H /\ f[h] \in A
  BY <1>1, <1>2
<1>4. \A g \in A : \E h \in B : f[h] = g
  BY <1>1, <1>2
<1>5. b \in Bijection(B, A)
  <2>1. b \in [B -> A]
    BY <1>3
  <2>2. \A g, h \in B : b[g] = b[h] => g = h
    BY <1>1, <1>3
  <2>3. \A g \in A : \E h \in B : b[h] = g
    BY <1>4
  <2> HIDE DEF b
  <2> QED BY <2>1, <2>2, <2>3 DEF Bijection, Injection, Surjection, IsInjective
<1>6. B = {} <=> A = {}
  BY <1>3, <1>4
<1>7. (\A g, h \in A : g = h) => \A g, h \in B : g = h
  BY <1>1, <1>3
<1>8. IsFiniteSet(A) => IsFiniteSet(B) /\ Cardinality(B) = Cardinality(A)
  <2> SUFFICES ASSUME IsFiniteSet(A) PROVE IsFiniteSet(B) /\ Cardinality(B) = Cardinality(A)
    OBVIOUS
  <2>1. ExistsBijection(B, A)
    BY <1>5 DEF ExistsBijection
  <2>2. ExistsBijection(A, B)
    BY <2>1, Fun_ExistsBijSymmetric
  <2> QED BY <2>2, FS_Bijection
<1> QED BY <1>6, <1>7, <1>8 DEF A, B

LEMMA SettledRenamed ==
    ASSUME NEW ls, NEW K, NEW G, NEW waits, NEW counted \in BOOLEAN,
           Settled(ls, K, G, waits, counted),
           NEW L, NEW H, NEW f \in Bijection(H, G), \A h \in H : L[h] = K[f[h]]
    PROVE  Settled(ls, L, H, waits, counted)
<1> DEFINE of(lock, mode) == Held(K, G, lock, mode)
           to(lock, mode) == Held(L, H, lock, mode)
<1>1. \A lock, mode :
         /\ to(lock, mode) = {} <=> of(lock, mode) = {}
         /\ (\A g, h \in of(lock, mode) : g = h) => \A g, h \in to(lock, mode) : g = h
         /\ IsFiniteSet(of(lock, mode)) => /\ IsFiniteSet(to(lock, mode))
                                           /\ Cardinality(to(lock, mode)) = Cardinality(of(lock, mode))
  BY HeldRenamed
<1>2. /\ ls \in Locks /\ MutexOK(ls["mutex"], of("mutex", "write"), waits)
      /\ counted => SharedOK(ls["shared_mutex"], of("shared_mutex", "write"),
                             of("shared_mutex", "read"))
  BY DEF Settled
<1>3. MutexOK(ls["mutex"], to("mutex", "write"), waits)
  <2> DEFINE A == of("mutex", "write")
             B == to("mutex", "write")
  <2>1. (B = {} <=> A = {}) /\ ((\A g, h \in A : g = h) => \A g, h \in B : g = h)
    BY <1>1
  <2>2. MutexOK(ls["mutex"], A, waits)
    BY <1>2
  <2> HIDE DEF A, B, of, to
  <2>3. MutexOK(ls["mutex"], B, waits)
    BY <2>1, <2>2 DEF MutexOK
  <2> QED BY <2>3 DEF B
<1>4. counted => SharedOK(ls["shared_mutex"], to("shared_mutex", "write"),
                          to("shared_mutex", "read"))
  <2> SUFFICES ASSUME counted
               PROVE  SharedOK(ls["shared_mutex"], to("shared_mutex", "write"),
                               to("shared_mutex", "read"))
    OBVIOUS
  <2> DEFINE A == of("shared_mutex", "write")
             B == to("shared_mutex", "write")
             C == of("shared_mutex", "read")
             D == to("shared_mutex", "read")
  <2>1. /\ (B = {} <=> A = {}) /\ ((\A g, h \in A : g = h) => \A g, h \in B : g = h)
        /\ IsFiniteSet(C) => IsFiniteSet(D) /\ Cardinality(D) = Cardinality(C)
    BY <1>1
  <2>2. SharedOK(ls["shared_mutex"], A, C)
    BY <1>2
  <2> HIDE DEF A, B, C, D, of, to
  <2>3. SharedOK(ls["shared_mutex"], B, D)
    BY <2>1, <2>2 DEF SharedOK
  <2> QED BY <2>3 DEF B, D
<1> QED BY <1>2, <1>3, <1>4 DEF Settled

\* The guards behind the one that goes move up.
LEMMA PlaceRemoved ==
    ASSUME NEW new, Replaced(new), P \in DOMAIN frames, F.guards \in Seq(GuardRecords),
           NEW m \in DOMAIN F.guards, new.guards = RemoveAt(F.guards, m)
    PROVE  \E f \in Bijection(Places(frames'), Places(frames) \ {<<P, m>>}) :
              \A h \in Places(frames') : Kinds(frames')[h] = Kinds(frames)[f[h]]
<1> DEFINE n == Len(F.guards)
           G == Places(frames) \ {<<P, m>>}
           H == Places(frames')
           f == [h \in H |-> IF h[1] = P /\ h[2] >= m THEN <<P, h[2] + 1>> ELSE h]
<1>1. /\ n \in Nat /\ m \in 1..n /\ DOMAIN F.guards = 1..n
      /\ DOMAIN new.guards = 1..(n - 1)
      /\ \A i \in 1..(n - 1) : new.guards[i] = IF i < m THEN F.guards[i] ELSE F.guards[i + 1]
  <2>1. n \in Nat /\ m \in 1..n /\ DOMAIN F.guards = 1..n
    BY LenProperties
  <2> QED BY <2>1, Removed
<1>2. /\ DOMAIN frames' = DOMAIN frames /\ frames'[P] = new /\ F = frames[P]
      /\ \A p \in DOMAIN frames : p # P => frames'[p] = frames[p]
  BY DEF Replaced, F
<1> HIDE DEF n
<1>3. /\ \A p \in DOMAIN frames : \A i \in DOMAIN frames[p].guards :
            <<p, i>> \in Places(frames) /\ Kinds(frames)[<<p, i>>] = frames[p].guards[i]
      /\ \A p \in DOMAIN frames' : \A i \in DOMAIN frames'[p].guards :
            <<p, i>> \in H /\ Kinds(frames')[<<p, i>>] = frames'[p].guards[i]
      /\ \A g \in Places(frames) : /\ g = <<g[1], g[2]>> /\ g[1] \in DOMAIN frames
                                   /\ g[2] \in DOMAIN frames[g[1]].guards
      /\ \A g \in H : /\ g = <<g[1], g[2]>> /\ g[1] \in DOMAIN frames'
                      /\ g[2] \in DOMAIN frames'[g[1]].guards
  BY PlacesOf
<1>4. ASSUME NEW h \in H
      PROVE  f[h] \in G /\ Kinds(frames')[h] = Kinds(frames)[f[h]]
  <2>1. /\ h = <<h[1], h[2]>> /\ h[1] \in DOMAIN frames' /\ h[2] \in DOMAIN frames'[h[1]].guards
        /\ Kinds(frames')[h] = frames'[h[1]].guards[h[2]]
    BY <1>3
  <2>2. CASE h[1] # P
    <3>1. frames'[h[1]] = frames[h[1]] /\ h[1] \in DOMAIN frames /\ f[h] = h
      BY <1>2, <2>1, <2>2
    <3>2. h \in Places(frames) /\ Kinds(frames)[h] = frames[h[1]].guards[h[2]]
      BY <1>3, <2>1, <3>1
    <3>3. h # <<P, m>>
      BY <2>2
    <3> QED BY <2>1, <3>1, <3>2, <3>3
  <2>3. CASE h[1] = P /\ h[2] < m
    <3>1. h[2] \in 1..(n - 1) /\ h[2] \in DOMAIN F.guards
      BY <1>1, <1>2, <2>1, <2>3
    <3>2. f[h] = h /\ h # <<P, m>>
      BY <1>1, <2>3, <3>1
    <3>3. Kinds(frames')[h] = F.guards[h[2]]
      BY <1>1, <1>2, <2>1, <2>3, <3>1
    <3>4. h \in Places(frames) /\ Kinds(frames)[h] = F.guards[h[2]]
      BY <1>2, <1>3, <2>1, <2>3, <3>1
    <3> QED BY <3>2, <3>3, <3>4
  <2>4. CASE h[1] = P /\ h[2] >= m
    <3>1. h[2] \in 1..(n - 1) /\ h[2] + 1 \in DOMAIN F.guards /\ ~(h[2] < m)
      BY <1>1, <1>2, <2>1, <2>4
    <3>2. f[h] = <<P, h[2] + 1>> /\ h[2] + 1 # m
      BY <1>1, <2>4, <3>1
    <3>3. Kinds(frames')[h] = F.guards[h[2] + 1]
      BY <1>1, <1>2, <2>1, <2>4, <3>1
    <3>4. <<P, h[2] + 1>> \in Places(frames) /\ Kinds(frames)[<<P, h[2] + 1>>] = F.guards[h[2] + 1]
      BY <1>2, <1>3, <3>1
    <3>5. <<P, h[2] + 1>> # <<P, m>>
      BY <3>2
    <3> QED BY <3>2, <3>3, <3>4, <3>5
  <2>5. h[1] = P => h[2] \in 1..(n - 1)
    BY <1>1, <1>2, <2>1
  <2> QED BY <1>1, <2>2, <2>3, <2>4, <2>5
<1>5. \A h \in H : h = <<h[1], h[2]>> /\ (h[1] = P => h[2] \in 1..(n - 1))
  BY <1>1, <1>2, <1>3
<1>6. ASSUME NEW g \in H, NEW h \in H, f[g] = f[h] PROVE g = h
  <2>1. /\ g = <<g[1], g[2]>> /\ (g[1] = P => g[2] \in 1..(n - 1))
        /\ h = <<h[1], h[2]>> /\ (h[1] = P => h[2] \in 1..(n - 1))
    BY <1>5
  <2> DEFINE up(k) == k[1] = P /\ k[2] >= m
  <2>2. f[g] = (IF up(g) THEN <<P, g[2] + 1>> ELSE g) /\ f[h] = (IF up(h) THEN <<P, h[2] + 1>> ELSE h)
    OBVIOUS
  <2> HIDE DEF f
  <2>3. CASE up(g) /\ up(h)
    <3>1. <<P, g[2] + 1>> = <<P, h[2] + 1>>
      BY <1>6, <2>2, <2>3
    <3>2. <<P, g[2] + 1>>[2] = <<P, h[2] + 1>>[2]
      BY <3>1
    <3>3. g[2] + 1 = h[2] + 1
      BY <3>2
    <3> QED BY <1>1, <2>1, <2>3, <3>3
  <2>4. CASE ~up(g) /\ ~up(h)
    BY <1>6, <2>2, <2>4
  <2>5. CASE up(g) /\ ~up(h)
    <3>1. <<P, g[2] + 1>> = h
      BY <1>6, <2>2, <2>5
    <3>2. h[1] = P /\ h[2] = g[2] + 1
      BY <3>1
    <3> QED BY <1>1, <2>1, <2>5, <3>2
  <2>6. CASE ~up(g) /\ up(h)
    <3>1. <<P, h[2] + 1>> = g
      BY <1>6, <2>2, <2>6
    <3>2. g[1] = P /\ g[2] = h[2] + 1
      BY <3>1
    <3> QED BY <1>1, <2>1, <2>6, <3>2
  <2> QED BY <2>3, <2>4, <2>5, <2>6
<1>7. ASSUME NEW g \in G PROVE \E h \in H : f[h] = g
  <2>1. /\ g = <<g[1], g[2]>> /\ g[1] \in DOMAIN frames /\ g[2] \in DOMAIN frames[g[1]].guards
        /\ g # <<P, m>>
    BY <1>3
  <2>2. CASE g[1] # P
    <3>1. g \in H
      BY <1>2, <1>3, <2>1, <2>2
    <3> QED BY <2>2, <3>1
  <2>3. CASE g[1] = P /\ g[2] < m
    <3>1. g[2] \in 1..n /\ g[2] \in DOMAIN frames'[P].guards
      BY <1>1, <1>2, <2>1, <2>3
    <3>2. g \in H
      BY <1>2, <1>3, <2>1, <2>3, <3>1
    <3> QED BY <1>1, <2>3, <3>1, <3>2
  <2>4. CASE g[1] = P /\ g[2] > m
    <3> DEFINE i == g[2] - 1
    <3>1. i \in 1..(n - 1) /\ i \in DOMAIN frames'[P].guards /\ i + 1 = g[2] /\ i >= m
      BY <1>1, <1>2, <2>1, <2>4
    <3> HIDE DEF i
    <3>2. <<P, i>> \in H
      BY <1>2, <1>3, <3>1
    <3>3. f[<<P, i>>] = <<P, i + 1>>
      BY <3>1, <3>2
    <3> QED BY <2>1, <2>4, <3>1, <3>2, <3>3
  <2>5. g[1] = P => g[2] \in 1..n /\ g[2] # m
    BY <1>1, <1>2, <2>1
  <2> QED BY <1>1, <2>2, <2>3, <2>4, <2>5
<1>8. f \in Bijection(H, G)
  <2>1. f \in [H -> G]
    BY <1>4
  <2> HIDE DEF f, G, H
  <2> QED BY <1>6, <1>7, <2>1 DEF Bijection, Injection, Surjection, IsInjective
<1> HIDE DEF f
<1> QED BY <1>4, <1>8

\* A guard that the body gives up.
LEMMA UnlocksKeepsLocks ==
    ASSUME NEW counted \in BOOLEAN, IInv, LInv(counted), Unlocks PROVE LInv(counted)'
<1> USE DEF IInv
<1> DEFINE guard == [lock |-> Now.lock, mode |-> Now.mode]
           held == {i \in DOMAIN F.guards : F.guards[i] = guard}
           less == [StepDone EXCEPT !.guards = RemoveAt(@, Max(held))]
<1>1. /\ Polling /\ phase = "body" /\ DoesNow("unlock")
      /\ UNCHANGED <<stack, phase, program, outcome>>
  BY DEF Unlocks, Runs
<1>2. \/ held = {} /\ Becomes(StepDone) /\ UNCHANGED locks
      \/ held # {} /\ Becomes(less) /\ locks' = ReleaseGuard(guard, locks)
  BY Zenon DEF Unlocks
<1>3. /\ P \in DOMAIN frames /\ F = frames[P] /\ DOMAIN F = Fields /\ F.state = "suspended"
      /\ F.pc \in DOMAIN F.body /\ F.pc \in 1..Len(F.body) /\ F.guards \in Seq(GuardRecords)
  BY <1>1, PolledFrame, Working DEF IsFrame, DoesNow, F, LInv
<1>4. guard \in GuardRecords
  BY <1>1, GuardOfStep
<1>5. CASE held = {} /\ Becomes(StepDone) /\ UNCHANGED locks
  BY <1>1, <1>3, <1>5, BodyKeepsLocks
<1>6. CASE held # {} /\ Becomes(less) /\ locks' = ReleaseGuard(guard, locks)
  <2> DEFINE m == Max(held)
             at == <<P, m>>
             K == Kinds(frames)
             G == Places(frames)
             H == Places(frames')
  <2>1. held \subseteq 1..Len(F.guards) /\ Len(F.guards) \in Nat /\ m \in held
    <3>1. DOMAIN F.guards = 1..Len(F.guards) /\ Len(F.guards) \in Nat
      BY <1>3, LenProperties
    <3>2. held \subseteq 1..Len(F.guards)
      BY <3>1
    <3> HIDE DEF held
    <3> QED BY <1>6, <3>1, <3>2, HasMaximum
  <2>2. m \in DOMAIN F.guards /\ F.guards[m] = guard
    BY <2>1
  <2>3. /\ less.guards = RemoveAt(F.guards, m) /\ less.pc = F.pc + 1
        /\ less.state = "suspended"
    BY <1>3 DEF Fields, StepDone
  <2>4. Replaced(less)
    BY <1>1, <1>6, BecomesReplaces
  <2> HIDE DEF less, m, held, guard
  <2>5. PICK f \in Bijection(H, G \ {at}) : \A h \in H : Kinds(frames')[h] = K[f[h]]
    BY <1>3, <2>2, <2>3, <2>4, PlaceRemoved
  <2>6. at \in G /\ K[at] = guard
    BY <1>3, <2>2, PlacesOf
  <2>7. Settled(locks', K, G \ {at}, Waiting, counted)
    <3>1. Settled(locks, K, G, Waiting, counted)
      BY DEF LInv
    <3> HIDE DEF K, G, at
    <3>2. Settled(ReleaseGuard(K[at], locks), K, G \ {at}, Waiting, counted)
      BY <1>4, <2>6, <3>1, SettledRelease
    <3> QED BY <1>6, <2>6, <3>2
  <2>8. Settled(locks', Kinds(frames'), H, Waiting, counted)
    <3> DEFINE A == G \ {at}
    <3> HIDE DEF K, A, H
    <3>1. Settled(locks', K, A, Waiting, counted) /\ f \in Bijection(H, A)
      BY <2>5, <2>7 DEF A
    <3> QED BY <2>5, <3>1, SettledRenamed
  <2>9. Waiting \subseteq Waiting'
    <3> SUFFICES ASSUME NEW p \in DOMAIN frames, Waits(p)
                 PROVE  p \in DOMAIN frames' /\ Waits(p)'
      BY DEF Waiting
    <3>1. p # P
      BY <1>1, PolledWaits
    <3>2. p \in DOMAIN frames' /\ frames'[p] = frames[p]
      BY <2>4, <3>1 DEF Replaced
    <3>3. p \notin OnStack /\ OnStack' = OnStack
      BY <1>1, <3>1 DEF OnStack, Waits
    <3> QED BY <3>2, <3>3, OthersWait
  <2>10. Settled(locks', Kinds(frames'), H, Waiting', counted)
    BY <2>8, <2>9, MoreWait
  <2>11. ASSUME NEW p \in DOMAIN frames'
         PROVE  /\ frames'[p].guards \in Seq(GuardRecords)
                /\ frames'[p].pc <= 1 \/ frames'[p].state # "suspended" => frames'[p].guards = <<>>
    <3>1. CASE p = P
      <4>1. less.guards \in Seq(GuardRecords)
        <5>1. m \in 1..Len(F.guards)
          BY <2>1
        <5> QED BY <1>3, <2>3, <5>1, Removed
      <4>2. ~(less.pc <= 1)
        BY <1>3, <2>3
      <4> QED BY <2>3, <2>4, <3>1, <4>1, <4>2 DEF Replaced
    <3>2. CASE p # P
      <4>1. p \in DOMAIN frames /\ frames'[p] = frames[p]
        BY <2>4, <3>2 DEF Replaced
      <4> QED BY <4>1 DEF LInv
    <3> QED BY <3>1, <3>2
  <2> QED BY <2>10, <2>11 DEF LInv
<1> QED BY <1>2, <1>5, <1>6

LEMMA LInvInit ==
    ASSUME NEW counted \in BOOLEAN, Init PROVE LInv(counted)
<1>1. /\ DOMAIN frames = {Root} /\ frames[Root].guards = <<>> /\ locks = [k \in LockNames |-> NoLock]
  BY DEF Init, Frame, Task
<1>2. Places(frames) = {}
  BY <1>1 DEF Places
<1>3. locks \in Locks /\ locks["mutex"] = NoLock /\ locks["shared_mutex"] = NoLock
  BY <1>1 DEF Locks, LockStates, NoLock, LockNames
<1>4. \A lock, mode : Held(Kinds(frames), {}, lock, mode) = {}
  BY DEF Held
<1>5. MutexOK(NoLock, {}, Waiting)
  <2>1. /\ NoLock.writer = FALSE /\ NoLock.served = {} /\ DOMAIN NoLock.queue = {}
    BY DEF NoLock
  <2> QED BY <2>1 DEF MutexOK
<1>6. SharedOK(NoLock, {}, {})
  BY FS_EmptySet DEF SharedOK, NoLock
<1>7. Settled(locks, Kinds(frames), Places(frames), Waiting, counted)
  BY <1>2, <1>3, <1>4, <1>5, <1>6 DEF Settled
<1>8. <<>> \in Seq(GuardRecords)
  OBVIOUS
<1> QED BY <1>1, <1>7, <1>8 DEF LInv

LEMMA LInvStep ==
    ASSUME NEW counted \in BOOLEAN, IInv, LInv(counted), [Next]_vars, counted => ~TakesUncounted
    PROVE  LInv(counted)'
<1>1. CASE BlockOnPolls \/ BlockOnReturns
  BY <1>1, BlockOnKeepsLocks
<1>2. CASE Start
  BY <1>2, StartKeepsLocks
<1>3. CASE PollLeaf
  BY <1>3, PollLeafKeepsLocks
<1>4. CASE PollLock
  BY <1>4, PollLockKeepsLocks
<1>5. CASE PollChild
  BY <1>5, PollChildKeepsLocks
<1>6. CASE PollReturns
  BY <1>6, PollReturnsKeepsLocks
<1>7. CASE JoinEnds
  BY <1>7, JoinEndsKeepsLocks
<1>8. CASE BodyEnds \/ BodyThrows \/ BodyCatches
  BY <1>8, BodyLeavesLocks
<1>9. CASE Suspends \/ Throws \/ MakesSlab \/ Computes \/ Writes
  BY <1>9, OtherStepsKeepLocks
<1>10. CASE Spawns
  BY <1>10, SpawnsKeepsLocks
<1>11. CASE PollsOnce
  BY <1>11, PollsOnceKeepsLocks
<1>12. CASE Unlocks
  BY <1>12, UnlocksKeepsLocks
<1>13. CASE Tries
  BY <1>13, TriesKeepsLocks
<1>14. CASE UNCHANGED vars
  <2>1. UNCHANGED <<frames, locks, stack, phase>>
    BY <1>14 DEF vars
  <2>2. \A p \in DOMAIN frames : Waits(p) => Waits(p)'
    BY <2>1 DEF Waits, AwaitsMutex, OnStack, P, Top
  <2> QED BY <2>1, <2>2, LocksElsewhere
<1> QED BY <1>1, <1>2, <1>3, <1>4, <1>5, <1>6, <1>7, <1>8, <1>9, <1>10, <1>11, <1>12, <1>13,
           <1>14 DEF Next

LEMMA GuardsHeld ==
    ASSUME NEW lock, NEW mode
    PROVE  GuardsOf(lock, mode) = Held(Kinds(frames), Places(frames), lock, mode)
<1> DEFINE kind == [lock |-> lock, mode |-> mode]
           K == Kinds(frames)
           G == Places(frames)
<1>1. GuardsOf(lock, mode) =
         UNION {{<<p, i>> : i \in {i \in DOMAIN frames[p].guards : frames[p].guards[i] = kind}} :
                p \in DOMAIN frames}
  BY DEF GuardsOf
<1>2. Held(K, G, lock, mode) = {g \in G : K[g] = kind}
  BY DEF Held
<1>3. /\ \A p \in DOMAIN frames : \A i \in DOMAIN frames[p].guards :
            <<p, i>> \in G /\ K[<<p, i>>] = frames[p].guards[i]
      /\ \A g \in G : /\ g = <<g[1], g[2]>> /\ g[1] \in DOMAIN frames
                      /\ g[2] \in DOMAIN frames[g[1]].guards
                      /\ K[g] = frames[g[1]].guards[g[2]]
  BY PlacesOf
<1> HIDE DEF kind, K, G
<1>4. ASSUME NEW g \in GuardsOf(lock, mode) PROVE g \in Held(K, G, lock, mode)
  <2>1. PICK p \in DOMAIN frames :
           g \in {<<p, i>> : i \in {i \in DOMAIN frames[p].guards : frames[p].guards[i] = kind}}
    BY <1>1
  <2>2. PICK i \in DOMAIN frames[p].guards : frames[p].guards[i] = kind /\ g = <<p, i>>
    BY <2>1
  <2> QED BY <1>2, <1>3, <2>2
<1>5. ASSUME NEW g \in Held(K, G, lock, mode) PROVE g \in GuardsOf(lock, mode)
  <2>1. /\ g = <<g[1], g[2]>> /\ g[1] \in DOMAIN frames /\ g[2] \in DOMAIN frames[g[1]].guards
        /\ frames[g[1]].guards[g[2]] = kind
    BY <1>2, <1>3
  <2>2. g \in {<<g[1], i>> : i \in {i \in DOMAIN frames[g[1]].guards : frames[g[1]].guards[i] = kind}}
    BY <2>1
  <2> QED BY <1>1, <2>1, <2>2
<1> QED BY <1>4, <1>5 DEF K, G

LEMMA AtMostOne ==
    ASSUME NEW A, NEW B, \A g, h \in A : g = h, \A g, h \in B : g = h, A = {} \/ B = {}
    PROVE  Cardinality(A) + Cardinality(B) <= 1
<1>1. ASSUME NEW S, \A g, h \in S : g = h
      PROVE  Cardinality(S) \in {0, 1} /\ (S = {} => Cardinality(S) = 0)
  <2>1. CASE S = {}
    BY <2>1, FS_EmptySet
  <2>2. CASE S # {}
    <3>1. PICK x : S = {x}
      BY <1>1, <2>2
    <3>2. Cardinality(S) = 1
      BY <3>1, FS_Singleton
    <3> QED BY <2>2, <3>2
  <2> QED BY <2>1, <2>2
<1>2. /\ Cardinality(A) \in {0, 1} /\ (A = {} => Cardinality(A) = 0)
      /\ Cardinality(B) \in {0, 1} /\ (B = {} => Cardinality(B) = 0)
  BY <1>1
<1> QED BY <1>2

\* The mutex is taken exactly as long as one guard of it is in a frame, or one
\* waiter that it was given to is about to take it, whichever tasks were cancelled
\* or thrown out of while they held it, waited for it or had just been given it.
THEOREM MutexIsThatOfItsGuards == Spec => []MutexMatchesGuards
<1>1. Init => LInv(FALSE)
  BY LInvInit
<1>2. IInv /\ LInv(FALSE) /\ [Next]_vars => LInv(FALSE)'
  BY LInvStep
<1>3. LInv(FALSE) => MutexMatchesGuards
  <2> SUFFICES ASSUME LInv(FALSE) PROVE MutexMatchesGuards
    OBVIOUS
  <2> DEFINE held == Held(Kinds(frames), Places(frames), "mutex", "write")
  <2>1. MutexOK(locks["mutex"], held, Waiting) /\ GuardsOf("mutex", "write") = held
    BY GuardsHeld DEF LInv, Settled
  <2> HIDE DEF held
  <2>2. Cardinality(held) + Cardinality(locks["mutex"].served) <= 1
    BY <2>1, AtMostOne DEF MutexOK
  <2> QED BY <2>1, <2>2 DEF MutexOK, MutexMatchesGuards
<1> QED BY <1>1, <1>2, <1>3, Invariance, PTL DEF Spec

\* The shared_mutex too, for as long as no waiter that wake_next() has served takes
\* its guard: that is the step that counts no reader and locks no writer.
THEOREM LocksAreThoseOfGuards == Spec /\ []~TakesUncounted => []LocksMatchGuards
<1>1. Init => LInv(TRUE)
  BY LInvInit
<1>2. IInv /\ LInv(TRUE) /\ [Next]_vars /\ ~TakesUncounted => LInv(TRUE)'
  BY LInvStep
<1>3. LInv(TRUE) => SharedMutexMatchesGuards
  <2> SUFFICES ASSUME LInv(TRUE) PROVE SharedMutexMatchesGuards
    OBVIOUS
  <2> DEFINE write == Held(Kinds(frames), Places(frames), "shared_mutex", "write")
             read == Held(Kinds(frames), Places(frames), "shared_mutex", "read")
  <2>1. /\ SharedOK(locks["shared_mutex"], write, read)
        /\ GuardsOf("shared_mutex", "write") = write /\ GuardsOf("shared_mutex", "read") = read
    BY GuardsHeld DEF LInv, Settled
  <2> HIDE DEF write, read
  <2> QED BY <2>1 DEF SharedOK, SharedMutexMatchesGuards
<1>4. MutexMatchesGuards /\ SharedMutexMatchesGuards => LocksMatchGuards
  BY DEF LocksMatchGuards
<1> QED BY <1>1, <1>2, <1>3, <1>4, Invariance, MutexIsThatOfItsGuards, PTL DEF Spec
==============================================================================
