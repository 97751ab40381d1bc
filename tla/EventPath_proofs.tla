-------------------------- MODULE EventPath_proofs --------------------------
(***************************************************************************)
(* The way from the game to the processor, EventPath.tla, for every set of *)
(* stages, any ring and any number of moves and faults.                    *)
(*                                                                         *)
(* Everything is said of the stream: the course the bridge remembers, seen *)
(* as a course_in already dispatched, then the wire, then the ring.  The   *)
(* network and the faults only splice it: they take a piece out, and put   *)
(* Hellos in; the game appends to it and the processor eats it.            *)
(***************************************************************************)
EXTENDS EventPath, FiniteSetTheorems, SequenceTheorems, TLAPS

N   == Len(wire) + Len(ring)
Ctx == [t |-> "course_in", stage |-> b.current_course, chara |-> b.chara]
Stream(c, w, r) ==
    [i \in 0..(Len(w) + Len(r)) |-> IF i = 0 THEN c
                                    ELSE IF i <= Len(w) THEN w[i] ELSE r[i - Len(w)]]
Z   == Stream(Ctx, wire, ring)

\* z[i] is the course_in that the record at j belongs to.
Last(z, i, j) == /\ i < j /\ z[i].t = "course_in"
                 /\ \A k \in (i + 1)..(j - 1) : z[k].t # "course_in"

Goal == <<"goal", 0, 0>>

\* The checks of a record that names its stage, and of one that does not.
Sure(r) ==
    IF r.t \in {"course_result", "badge_acquired", "koopajr_result", "general_shop_result"}
    THEN ChecksOf(BridgeState0, r)
    ELSE IF r.t = "game_goal_reached" THEN {Goal} ELSE {}

ByCourse(c, r, charas) ==
    IF c.stage = None THEN {}
    ELSE IF r.t = "wonder_seed_awarded" /\ ~SeedOnly(c.stage)
    THEN {<<"wonder_seed", c.stage.stage_key, 0>>}
    ELSE IF r.t = "char_block_hit"
    THEN {<<"character_block", c.stage.stage_key, x>> :
             x \in HitBy(c.stage, r.chara, c.chara) \cap c.stage.blocks \cap charas}
    ELSE {}

Deaths(z, n) == {i \in 1..n : z[i].t = "death_detected"}

-----------------------------------------------------------------------------
\* What comes is earned: each record by itself, and in its course.
Justified(z, n)  == \A i \in 1..n : Sure(z[i]) \subseteq done
Attributed(z, n) ==
    \A i \in 0..n, j \in 1..n : Last(z, i, j) => ByCourse(z[i], z[j], Charas) \subseteq done
Visiting(z, n) ==
    at # None => \A i \in 0..n : Last(z, i, n + 1) =>
                    /\ z[i].stage \in {None, at.stage}
                    /\ z[i].chara \in {None, at.chara}

\* What is owed comes.
InCourse(z, n) ==
    at # None => \E i \in 0..n : /\ Last(z, i, n + 1) /\ z[i].stage = at.stage
                                 /\ z[i].chara = at.report
Carried(z, n, c) ==
    \/ \E j \in 1..n : c \in Sure(z[j])
    \/ ~forgot /\ \E i \in 0..n, j \in 1..n :
                    Last(z, i, j) /\ c \in ByCourse(z[i], z[j], b.unlocked_charas)
    \/ forgot /\ c[1] \in {"wonder_seed", "character_block"}
Twice(z, n, c) ==
    \/ lost = 2
    \/ lost = 1 /\ \E j \in 1..n : c \in Sure(z[j])
    \/ lost = 0 /\ \E j, k \in 1..n : j # k /\ c \in Sure(z[j]) \cap Sure(z[k])

Credited == b.emitted \subseteq credited /\ (b.goal_complete => Goal \in credited)
SoundInv ==
    /\ Justified(Z, N)
    /\ ~blind => Attributed(Z, N) /\ Visiting(Z, N)
    /\ replayed \/ told + Cardinality(Deaths(Z, N)) <= deaths
    /\ \A c \in credited \ done : blind /\ c[1] \in {"wonder_seed", "character_block"}
CompleteInv ==
    lost = 0 => /\ told + Cardinality(Deaths(Z, N)) >= deaths
                /\ \A c \in owed \ credited : Carried(Z, N, c)
                /\ ~forgot => InCourse(Z, N)
PairedInv == \A c \in paired \ credited : Twice(Z, N, c)

\* course_in names the character played, or none.
Reported == at # None => at.report \in {None, at.chara}

\* What the ring's free slots still hold was earned as well.
Earned(s, checks) == s \in Seq(Records) /\ \A i \in 1..Len(s) : Sure(s[i]) \subseteq checks
Stale == Earned(spare, done)

IInv == TypeOK /\ Credited /\ Reported /\ SoundInv /\ CompleteInv /\ PairedInv /\ Stale

-----------------------------------------------------------------------------
(* Splicing a stream. *)

\* z2 is z with the d records after p taken out and e Hellos put in.
Spliced(z, n, z2, n2, p, d, e) ==
    /\ {n, n2, p, d, e} \subseteq Nat /\ p + d <= n /\ n2 = n - d + e
    /\ z2[0].t = "course_in" /\ z[0].t = "course_in"
    /\ \A i \in 1..p : z2[i] = z[i]
    /\ \A i \in (p + 1)..(p + e) : z2[i].t = "hello"
    /\ \A i \in (p + e + 1)..n2 : z2[i] = z[i - e + d]

Out(i, p, d)     == p < i /\ i <= p + d
To(i, p, d, e)   == IF i <= p THEN i ELSE i - d + e
From(i, p, d, e) == IF i <= p THEN i ELSE i - e + d

\* The course_in at i and the record at j, or the end, are in z2 too.
Kept(z, n, i, j, z2, n2) ==
    \E i2 \in 0..n2, j2 \in 1..(n2 + 1) :
      /\ Last(z2, i2, j2) /\ (i = 0 <=> i2 = 0) /\ (i # 0 => z2[i2] = z[i])
      /\ (j = n + 1 <=> j2 = n2 + 1) /\ (j # n + 1 => z2[j2] = z[j])

\* Where a record goes that is not taken out.
LEMMA SpliceTo ==
    ASSUME NEW z, NEW n, NEW z2, NEW n2, NEW p, NEW d, NEW e,
           Spliced(z, n, z2, n2, p, d, e)
    PROVE  \A j \in 1..n : ~Out(j, p, d) =>
             /\ To(j, p, d, e) \in 1..n2 /\ z2[To(j, p, d, e)] = z[j]
             /\ \A k \in 1..n : ~Out(k, p, d) /\ k # j => To(k, p, d, e) # To(j, p, d, e)
<1>0. {n, n2, p, d, e} \subseteq Nat /\ p + d <= n  BY DEF Spliced
<1> USE <1>0
<1> SUFFICES ASSUME NEW j \in 1..n, ~Out(j, p, d)
             PROVE  /\ To(j, p, d, e) \in 1..n2 /\ z2[To(j, p, d, e)] = z[j]
                    /\ \A k \in 1..n : ~Out(k, p, d) /\ k # j
                                        => To(k, p, d, e) # To(j, p, d, e)
    OBVIOUS
<1>1. CASE j <= p  BY <1>1 DEF Spliced, Out, To
<1>2. CASE ~(j <= p)
  <2>1. j > p + d /\ To(j, p, d, e) = j - d + e  BY <1>2 DEF Out, To
  <2>2. To(j, p, d, e) \in (p + e + 1)..n2  BY <2>1 DEF Spliced
  <2>3. z2[To(j, p, d, e)] = z[To(j, p, d, e) - e + d]  BY <2>2 DEF Spliced
  <2>4. To(j, p, d, e) - e + d = j  BY <2>1
  <2>5. QED  BY <1>2, <2>1, <2>2, <2>3, <2>4 DEF Out, To
<1>3. QED  BY <1>1, <1>2

\* Where a record comes from that is no Hello.
LEMMA SpliceFrom ==
    ASSUME NEW z, NEW n, NEW z2, NEW n2, NEW p, NEW d, NEW e,
           Spliced(z, n, z2, n2, p, d, e)
    PROVE  \A j \in 1..n2 : z2[j].t # "hello" =>
             /\ From(j, p, d, e) \in 1..n /\ z[From(j, p, d, e)] = z2[j]
             /\ ~Out(From(j, p, d, e), p, d) /\ To(From(j, p, d, e), p, d, e) = j
<1>0. {n, n2, p, d, e} \subseteq Nat /\ p + d <= n  BY DEF Spliced
<1> USE <1>0
<1> SUFFICES ASSUME NEW j \in 1..n2, z2[j].t # "hello"
             PROVE  /\ From(j, p, d, e) \in 1..n /\ z[From(j, p, d, e)] = z2[j]
                    /\ ~Out(From(j, p, d, e), p, d) /\ To(From(j, p, d, e), p, d, e) = j
    OBVIOUS
<1>1. CASE j <= p  BY <1>1 DEF Spliced, Out, To, From
<1>2. CASE ~(j <= p)
  <2>1. ~(j \in (p + 1)..(p + e))  BY DEF Spliced
  <2>2. j \in (p + e + 1)..n2  BY <1>2, <2>1
  <2>3. From(j, p, d, e) = j - e + d /\ z2[j] = z[j - e + d]
        BY <1>2, <2>2 DEF Spliced, From
  <2>4. QED  BY <2>2, <2>3 DEF Spliced, Out, To
<1>3. QED  BY <1>1, <1>2

\* If no course_in was taken out, what a record belongs to is what it
\* belonged to before.
LEMMA LastBack ==
    ASSUME NEW z, NEW n, NEW z2, NEW n2, NEW p, NEW d, NEW e,
           Spliced(z, n, z2, n2, p, d, e),
           \A k \in 1..n : Out(k, p, d) => z[k].t # "course_in"
    PROVE  \A i \in 0..n2, j \in 1..(n2 + 1) :
             Last(z2, i, j) /\ (j = n2 + 1 \/ z2[j].t # "hello") => Kept(z2, n2, i, j, z, n)
<1>0. {n, n2, p, d, e} \subseteq Nat /\ p + d <= n  BY DEF Spliced
<1> USE <1>0
<1> SUFFICES ASSUME NEW i \in 0..n2, NEW j \in 1..(n2 + 1), Last(z2, i, j),
                    j = n2 + 1 \/ z2[j].t # "hello"
             PROVE  Kept(z2, n2, i, j, z, n)
    OBVIOUS
<1>a. \A k \in 1..n : ~Out(k, p, d) =>
        /\ To(k, p, d, e) \in 1..n2 /\ z2[To(k, p, d, e)] = z[k]
      BY SpliceTo
<1>b. \A k \in 1..n2 : z2[k].t # "hello" =>
        /\ From(k, p, d, e) \in 1..n /\ z[From(k, p, d, e)] = z2[k]
        /\ ~Out(From(k, p, d, e), p, d) /\ To(From(k, p, d, e), p, d, e) = k
      BY SpliceFrom
<1> DEFINE i0 == From(i, p, d, e)
           j0 == From(j, p, d, e)
<1>1. n2 = n - d + e  BY DEF Spliced
<1>2. i0 \in 0..n /\ (i = 0 <=> i0 = 0) /\ (i # 0 => z[i0] = z2[i])
      /\ ~Out(i0, p, d) /\ z[i0].t = "course_in" /\ To(i0, p, d, e) = i
  <2>1. z2[i].t = "course_in"  BY DEF Last
  <2>2. CASE i = 0  BY <2>2 DEF From, To, Out, Spliced
  <2>3. CASE i # 0
    <3>1. i \in 1..n2 /\ z2[i].t # "hello"  BY <2>1, <2>3
    <3>2. QED  BY <2>1, <2>3, <3>1, <1>b
  <2>4. QED  BY <2>2, <2>3
<1>3. j0 \in 1..(n + 1) /\ (j = n2 + 1 <=> j0 = n + 1) /\ (j # n2 + 1 => z[j0] = z2[j])
      /\ ~Out(j0, p, d) /\ To(j0, p, d, e) = j
  <2>1. CASE j = n2 + 1  BY <1>1, <2>1 DEF From, To, Out
  <2>2. CASE j # n2 + 1
    <3>1. j \in 1..n2 /\ z2[j].t # "hello"  BY <2>2
    <3>2. QED  BY <2>2, <3>1, <1>b
  <2>3. QED  BY <2>1, <2>2
<1> HIDE DEF i0, j0
<1>4. i < j /\ \A k \in (i + 1)..(j - 1) : z2[k].t # "course_in"  BY DEF Last
<1>5. i0 < j0  BY <1>2, <1>3, <1>4 DEF To, Out
<1>6. \A k \in (i0 + 1)..(j0 - 1) : z[k].t # "course_in"
  <2>1. SUFFICES ASSUME NEW k \in (i0 + 1)..(j0 - 1), z[k].t = "course_in"  PROVE FALSE
        OBVIOUS
  <2>2. k \in 1..n /\ ~Out(k, p, d)  BY <1>2, <1>3, <2>1
  <2>3. z2[To(k, p, d, e)] = z[k]  BY <2>2, <1>a
  <2>4. i < To(k, p, d, e) /\ To(k, p, d, e) < j
        BY <1>2, <1>3, <2>1, <2>2 DEF To, Out
  <2>5. QED  BY <1>4, <2>1, <2>2, <2>3, <2>4 DEF To
<1>7. Last(z, i0, j0)  BY <1>2, <1>5, <1>6 DEF Last
<1>8. QED  BY <1>2, <1>3, <1>7 DEF Kept

\* A course_in and its record that are both kept still belong together.
LEMMA LastForth ==
    ASSUME NEW z, NEW n, NEW z2, NEW n2, NEW p, NEW d, NEW e,
           Spliced(z, n, z2, n2, p, d, e)
    PROVE  \A i \in 0..n, j \in 1..(n + 1) :
             Last(z, i, j) /\ ~Out(i, p, d) /\ ~Out(j, p, d) => Kept(z, n, i, j, z2, n2)
<1>0. {n, n2, p, d, e} \subseteq Nat /\ p + d <= n  BY DEF Spliced
<1> USE <1>0
<1> SUFFICES ASSUME NEW i \in 0..n, NEW j \in 1..(n + 1), Last(z, i, j),
                    ~Out(i, p, d), ~Out(j, p, d)
             PROVE  Kept(z, n, i, j, z2, n2)
    OBVIOUS
<1>a. \A k \in 1..n : ~Out(k, p, d) =>
        /\ To(k, p, d, e) \in 1..n2 /\ z2[To(k, p, d, e)] = z[k]
      BY SpliceTo
<1>b. \A k \in 1..n2 : z2[k].t # "hello" =>
        /\ From(k, p, d, e) \in 1..n /\ z[From(k, p, d, e)] = z2[k]
        /\ ~Out(From(k, p, d, e), p, d) /\ To(From(k, p, d, e), p, d, e) = k
      BY SpliceFrom
<1> DEFINE i2 == To(i, p, d, e)
           j2 == To(j, p, d, e)
<1>1. n2 = n - d + e  BY DEF Spliced
<1>2. i2 \in 0..n2 /\ (i = 0 <=> i2 = 0) /\ (i # 0 => z2[i2] = z[i])
      /\ z2[i2].t = "course_in"
  <2>1. CASE i = 0  BY <2>1 DEF To, Spliced
  <2>2. CASE i # 0  BY <2>2, <1>a DEF Last
  <2>3. QED  BY <2>1, <2>2
<1>3. j2 \in 1..(n2 + 1) /\ (j = n + 1 <=> j2 = n2 + 1) /\ (j # n + 1 => z2[j2] = z[j])
  <2>1. CASE j = n + 1  BY <1>1, <2>1 DEF To
  <2>2. CASE j # n + 1
    <3>1. j \in 1..n  BY <2>2
    <3>2. j2 \in 1..n2 /\ z2[j2] = z[j]  BY <3>1, <1>a
    <3>3. QED  BY <2>2, <3>2
  <2>3. QED  BY <2>1, <2>2
<1>4. i < j /\ \A k \in (i + 1)..(j - 1) : z[k].t # "course_in"  BY DEF Last
<1>5. i2 < j2  BY <1>4 DEF To, Out
<1>6. \A k \in (i2 + 1)..(j2 - 1) : z2[k].t # "course_in"
  <2>1. SUFFICES ASSUME NEW k \in (i2 + 1)..(j2 - 1), z2[k].t = "course_in"  PROVE FALSE
        OBVIOUS
  <2>2. k \in 1..n2 /\ z2[k].t # "hello"  BY <1>2, <1>3, <2>1
  <2>3. /\ From(k, p, d, e) \in 1..n /\ z[From(k, p, d, e)] = z2[k]
        /\ ~Out(From(k, p, d, e), p, d) /\ To(From(k, p, d, e), p, d, e) = k
        BY <2>2, <1>b
  <2>4. i < From(k, p, d, e) /\ From(k, p, d, e) < j
        BY <2>1, <2>3 DEF To, Out
  <2>5. QED  BY <1>4, <2>1, <2>3, <2>4
<1>7. Last(z2, i2, j2)  BY <1>2, <1>5, <1>6 DEF Last
<1>8. QED  BY <1>2, <1>3, <1>7 DEF Kept

-----------------------------------------------------------------------------
(* Counting the deaths in a stream. *)

\* The deaths in a stream can be counted.
LEMMA DeathsFinite ==
    ASSUME NEW z, NEW n \in Nat
    PROVE  IsFiniteSet(Deaths(z, n)) /\ Cardinality(Deaths(z, n)) \in Nat
<1>1. IsFiniteSet(1..n)  BY FS_Interval
<1>2. Deaths(z, n) \in SUBSET (1..n)  BY DEF Deaths
<1>3. IsFiniteSet(Deaths(z, n))  BY <1>1, <1>2, FS_Subset
<1>4. QED  BY <1>3, FS_CardinalityType

\* The deaths left are those that were not taken out.
LEMMA SpliceDeaths ==
    ASSUME NEW z, NEW n, NEW z2, NEW n2, NEW p, NEW d, NEW e,
           Spliced(z, n, z2, n2, p, d, e)
    PROVE  Cardinality(Deaths(z2, n2)) = Cardinality({i \in Deaths(z, n) : ~Out(i, p, d)})
<1>0. {n, n2, p, d, e} \subseteq Nat /\ p + d <= n  BY DEF Spliced
<1> USE <1>0
<1> DEFINE S == {i \in Deaths(z, n) : ~Out(i, p, d)}
           T == Deaths(z2, n2)
           f == [i \in S |-> To(i, p, d, e)]
<1>1. IsFiniteSet(S)
  <2>1. IsFiniteSet(Deaths(z, n)) /\ S \in SUBSET Deaths(z, n)  BY DeathsFinite
  <2>2. QED  BY <2>1, FS_Subset
<1>2. \A i \in S : i \in 1..n /\ ~Out(i, p, d) /\ z[i].t = "death_detected"
      BY DEF Deaths
<1>3. \A k \in 1..n : ~Out(k, p, d) =>
        /\ To(k, p, d, e) \in 1..n2 /\ z2[To(k, p, d, e)] = z[k]
        /\ \A m \in 1..n : ~Out(m, p, d) /\ m # k => To(m, p, d, e) # To(k, p, d, e)
      BY SpliceTo
<1>4. \A k \in 1..n2 : z2[k].t # "hello" =>
        /\ From(k, p, d, e) \in 1..n /\ z[From(k, p, d, e)] = z2[k]
        /\ ~Out(From(k, p, d, e), p, d) /\ To(From(k, p, d, e), p, d, e) = k
      BY SpliceFrom
<1>5. \A i \in S : f[i] \in T  BY <1>2, <1>3 DEF Deaths
<1>6. \A i, k \in S : f[i] = f[k] => i = k  BY <1>2, <1>3
<1>7. \A k \in T : \E i \in S : f[i] = k
  <2>1. SUFFICES ASSUME NEW k \in T  PROVE \E i \in S : f[i] = k  OBVIOUS
  <2>2. k \in 1..n2 /\ z2[k].t = "death_detected"  BY <2>1 DEF Deaths
  <2>3. From(k, p, d, e) \in S /\ To(From(k, p, d, e), p, d, e) = k
        BY <1>4, <2>2 DEF Deaths
  <2>4. QED  BY <2>3
<1>8. f \in [S -> T]  BY <1>5
<1> HIDE DEF f, S, T
<1>9. f \in Bijection(S, T)
      BY <1>6, <1>7, <1>8 DEF Bijection, Injection, Surjection, IsInjective
<1>10. Cardinality(T) = Cardinality(S)
  <2>1. ExistsBijection(S, T)  BY <1>9 DEF ExistsBijection
  <2>2. QED  BY <1>1, <2>1, FS_Bijection
<1>11. QED  BY <1>10 DEF S, T

\* Taking records out leaves no more deaths, and the same if none was one.
LEMMA SpliceCount ==
    ASSUME NEW z, NEW n, NEW z2, NEW n2, NEW p, NEW d, NEW e,
           Spliced(z, n, z2, n2, p, d, e)
    PROVE  /\ Cardinality(Deaths(z2, n2)) \in Nat /\ Cardinality(Deaths(z, n)) \in Nat
           /\ Cardinality(Deaths(z2, n2)) <= Cardinality(Deaths(z, n))
           /\ (\A k \in 1..n : Out(k, p, d) => z[k].t # "death_detected")
                => Cardinality(Deaths(z2, n2)) = Cardinality(Deaths(z, n))
<1>0. n \in Nat /\ n2 \in Nat  BY DEF Spliced
<1> DEFINE S == {i \in Deaths(z, n) : ~Out(i, p, d)}
<1>1. IsFiniteSet(Deaths(z, n)) /\ Cardinality(Deaths(z, n)) \in Nat
      /\ Cardinality(Deaths(z2, n2)) \in Nat
      BY <1>0, DeathsFinite
<1>2. S \in SUBSET Deaths(z, n)  OBVIOUS
<1>3. Cardinality(S) <= Cardinality(Deaths(z, n))  BY <1>1, <1>2, FS_Subset
<1>4. Cardinality(Deaths(z2, n2)) = Cardinality(S)  BY SpliceDeaths
<1>5. (\A k \in 1..n : Out(k, p, d) => z[k].t # "death_detected") => S = Deaths(z, n)
      BY DEF Deaths
<1> HIDE DEF S
<1>6. QED  BY <1>1, <1>3, <1>4, <1>5

\* Eating the first record takes one death away if it is one.
LEMMA EatCount ==
    ASSUME NEW z, NEW n, NEW z2, NEW n2, Spliced(z, n, z2, n2, 0, 1, 0)
    PROVE  Cardinality(Deaths(z, n)) =
             Cardinality(Deaths(z2, n2)) + (IF z[1].t = "death_detected" THEN 1 ELSE 0)
<1>0. n \in Nat /\ n2 \in Nat /\ n >= 1  BY DEF Spliced
<1> DEFINE S == {i \in Deaths(z, n) : ~Out(i, 0, 1)}
<1>1. IsFiniteSet(Deaths(z, n)) /\ Cardinality(Deaths(z, n)) \in Nat
      BY <1>0, DeathsFinite
<1>2. \A i \in 1..n : Out(i, 0, 1) <=> i = 1  BY <1>0 DEF Out
<1>3. S = Deaths(z, n) \ {1}  BY <1>2 DEF Deaths
<1>4. Cardinality(Deaths(z2, n2)) = Cardinality(S)  BY SpliceDeaths
<1>5. 1 \in Deaths(z, n) <=> z[1].t = "death_detected"  BY <1>0 DEF Deaths
<1> HIDE DEF S
<1>6. Cardinality(S) = IF 1 \in Deaths(z, n) THEN Cardinality(Deaths(z, n)) - 1
                       ELSE Cardinality(Deaths(z, n))
      BY <1>1, <1>3, FS_RemoveElement
<1>7. QED  BY <1>1, <1>4, <1>5, <1>6

-----------------------------------------------------------------------------
(* Losing records. *)

\* What lost and blind say after the records of z that are out were lost.
Lossy(z, n, p, d) ==
    /\ replayed' = replayed
    /\ lost' \in 0..2 /\ lost' >= lost /\ (blind => blind')
    /\ \A k \in 1..n : Out(k, p, d) /\ z[k].t = "course_in" => blind'
    /\ \A k \in 1..n : Out(k, p, d) /\ z[k].t # "hello" => lost' = 2 \/ lost' > lost
    /\ \A k, m \in 1..n : k # m /\ Out(k, p, d) /\ Out(m, p, d)
                            /\ z[k].t # "hello" /\ z[m].t # "hello" => lost' = 2

\* What Lose remembers of the records it is given: whether one, or two, were
\* lost, and whether a course_in was among them.
LEMMA Losing ==
    ASSUME NEW s \in Seq(Records), lost \in 0..2, blind \in BOOLEAN, Lose(s)
    PROVE  /\ replayed' = replayed
           /\ lost' \in 0..2 /\ lost' >= lost /\ (blind => blind') /\ blind' \in BOOLEAN
           /\ \A k \in 1..Len(s) : s[k].t = "course_in" => blind'
           /\ \A k \in 1..Len(s) : s[k].t # "hello" => lost' = 2 \/ lost' > lost
           /\ \A k, m \in 1..Len(s) :
                s[k].t # "hello" /\ s[m].t # "hello" /\ k # m => lost' = 2
<1> DEFINE D == {i \in DOMAIN s : s[i].t # "hello"}
           c == Cardinality(D)
<1>1. DOMAIN s = 1..Len(s) /\ Len(s) \in Nat  OBVIOUS
<1>2. IsFiniteSet(D) /\ c \in Nat
  <2>1. IsFiniteSet(1..Len(s)) /\ D \in SUBSET (1..Len(s))
        BY <1>1, FS_Interval
  <2>2. IsFiniteSet(D)  BY <2>1, FS_Subset
  <2>3. QED  BY <2>2, FS_CardinalityType
<1>3. /\ lost' = IF lost + c > 2 THEN 2 ELSE lost + c
      /\ blind' = (blind \/ \E i \in DOMAIN s : s[i].t = "course_in")
      /\ replayed' = replayed
      BY DEF Lose
<1>4. \A k \in 1..Len(s) : s[k].t # "hello" => c >= 1
  <2>1. SUFFICES ASSUME NEW k \in 1..Len(s), s[k].t # "hello"  PROVE c >= 1  OBVIOUS
  <2>2. k \in D  BY <1>1, <2>1
  <2>3. {k} \in SUBSET D /\ Cardinality({k}) = 1  BY <2>2, FS_Singleton
  <2> HIDE DEF D
  <2>4. Cardinality({k}) <= c  BY <1>2, <2>3, FS_Subset
  <2>5. QED  BY <1>2, <2>3, <2>4
<1>5. \A k, m \in 1..Len(s) : s[k].t # "hello" /\ s[m].t # "hello" /\ k # m => c >= 2
  <2>1. SUFFICES ASSUME NEW k \in 1..Len(s), s[k].t # "hello",
                        NEW m \in 1..Len(s), s[m].t # "hello", k # m  PROVE c >= 2
        OBVIOUS
  <2>2. k \in D /\ m \in D  BY <1>1, <2>1
  <2>3. IsFiniteSet({k}) /\ Cardinality({k}) = 1  BY FS_Singleton
  <2>4. Cardinality({k} \cup {m}) = 2
    <3>1. m \notin {k}  BY <2>1
    <3>2. Cardinality({k} \cup {m}) = IF m \in {k} THEN Cardinality({k})
                                     ELSE Cardinality({k}) + 1
          BY <2>3, FS_AddElement
    <3>3. Cardinality({k} \cup {m}) = Cardinality({k}) + 1  BY <3>1, <3>2, Zenon
    <3>4. 1 + 1 = 2  OBVIOUS
    <3>5. QED  BY <2>3, <3>3, <3>4, Zenon
  <2>5. {k} \cup {m} \in SUBSET D  BY <2>2
  <2> HIDE DEF D
  <2>6. Cardinality({k} \cup {m}) <= c  BY <1>2, <2>5, FS_Subset
  <2>7. QED  BY <1>2, <2>4, <2>6
<1> HIDE DEF c, D
<1>6. lost' \in 0..2 /\ lost' >= lost  BY <1>2, <1>3
<1>7. c >= 1 => lost' = 2 \/ lost' > lost  BY <1>2, <1>3
<1>8. c >= 2 => lost' = 2  BY <1>2, <1>3
<1>9. (blind => blind') /\ blind' \in BOOLEAN
      /\ \A k \in 1..Len(s) : s[k].t = "course_in" => blind'
      BY <1>1, <1>3
<1>10. QED  BY <1>3, <1>4, <1>5, <1>6, <1>7, <1>8, <1>9

-----------------------------------------------------------------------------
(* A splice of the stream keeps what is said of it. *)

\* A Hello stands for no check.
LEMMA HelloIsEmpty ==
    ASSUME NEW r, r.t = "hello"
    PROVE  Sure(r) = {} /\ \A c, charas : ByCourse(c, r, charas) = {}
BY DEF Sure, ByCourse

\* The bridge remembers its course, or forgot everything.
Remembers ==
    \/ Z'[0] = Z[0] /\ forgot' = forgot /\ b.unlocked_charas \subseteq b.unlocked_charas'
    \/ Z'[0].stage = None /\ Z'[0].chara = None /\ forgot'

Thinned(p, d, e) ==
    /\ Spliced(Z, N, Z', N', p, d, e) /\ Lossy(Z, N, p, d)
    /\ UNCHANGED <<at, done, owed, paired, deaths, credited, told>>

\* A thinned stream carries nothing new.
LEMMA ThinnedSound ==
    ASSUME IInv, NEW p, NEW d, NEW e, Thinned(p, d, e), Remembers
    PROVE  SoundInv'
<1>0. /\ Spliced(Z, N, Z', N', p, d, e) /\ Lossy(Z, N, p, d)
      /\ UNCHANGED <<at, done, owed, paired, deaths, credited, told>>
      BY DEF Thinned
<1>1. SoundInv /\ told \in Nat /\ deaths \in Nat  BY DEF IInv, TypeOK
<1>2. \A k \in 1..N' : Z'[k].t # "hello" =>
        From(k, p, d, e) \in 1..N /\ Z[From(k, p, d, e)] = Z'[k]
      BY <1>0, SpliceFrom
<1>3. Justified(Z, N)'
  <2>1. SUFFICES ASSUME NEW i \in 1..N'  PROVE Sure(Z'[i]) \subseteq done'
        BY DEF Justified
  <2>2. CASE Z'[i].t = "hello"  BY <2>2, HelloIsEmpty
  <2>3. CASE Z'[i].t # "hello"
        BY <1>0, <1>1, <1>2, <2>3 DEF SoundInv, Justified
  <2>4. QED  BY <2>2, <2>3
<1>4. ASSUME ~blind'  PROVE Attributed(Z, N)' /\ Visiting(Z, N)'
  <2>1. ~blind /\ \A k \in 1..N : Out(k, p, d) => Z[k].t # "course_in"
        BY <1>0, <1>4 DEF Lossy
  <2>2. Attributed(Z, N) /\ Visiting(Z, N)  BY <1>1, <2>1 DEF SoundInv
  <2>3. \A i \in 0..N', j \in 1..(N' + 1) :
          Last(Z', i, j) /\ (j = N' + 1 \/ Z'[j].t # "hello") => Kept(Z', N', i, j, Z, N)
        BY <1>0, <2>1, LastBack
  <2>4. N \in Nat /\ N' \in Nat  BY <1>0 DEF Spliced
  <2>5. Attributed(Z, N)'
    <3>1. SUFFICES ASSUME NEW i \in 0..N', NEW j \in 1..N', Last(Z', i, j)
                   PROVE  ByCourse(Z'[i], Z'[j], Charas) \subseteq done'
          BY DEF Attributed
    <3>2. CASE Z'[j].t = "hello"  BY <3>2, HelloIsEmpty
    <3>3. CASE Z'[j].t # "hello"
      <4>0. Kept(Z', N', i, j, Z, N)
        <5>1. j \in 1..(N' + 1)  BY <2>4, <3>1 DEF N
        <5>2. QED  BY <2>3, <3>1, <3>3, <5>1
      <4>1. PICK i0 \in 0..N, j0 \in 1..(N + 1) :
              /\ Last(Z, i0, j0) /\ (i = 0 <=> i0 = 0) /\ (i # 0 => Z[i0] = Z'[i])
              /\ (j = N' + 1 <=> j0 = N + 1) /\ (j # N' + 1 => Z[j0] = Z'[j])
            BY <4>0 DEF Kept
      <4>2. j0 \in 1..N /\ Z[j0] = Z'[j]  BY <2>4, <4>1
      <4>3. ByCourse(Z[i0], Z[j0], Charas) \subseteq done
            BY <2>2, <4>1, <4>2 DEF Attributed
      <4>4. CASE Z'[i] = Z[i0]  BY <1>0, <4>2, <4>3, <4>4
      <4>5. CASE Z'[i] # Z[i0]
        <5>1. Z'[i].stage = None  BY <4>1, <4>5 DEF Remembers
        <5>2. QED  BY <5>1 DEF ByCourse
      <4>6. QED  BY <4>4, <4>5
    <3>4. QED  BY <3>2, <3>3
  <2>6. Visiting(Z, N)'
    <3>1. SUFFICES ASSUME at # None, NEW i \in 0..N', Last(Z', i, N' + 1)
                   PROVE  /\ Z'[i].stage \in {None, at.stage}
                          /\ Z'[i].chara \in {None, at.chara}
          BY <1>0 DEF Visiting
    <3>2. PICK i0 \in 0..N, j0 \in 1..(N + 1) :
            /\ Last(Z, i0, j0) /\ (i = 0 <=> i0 = 0) /\ (i # 0 => Z[i0] = Z'[i])
            /\ j0 = N + 1
      <4>1. N' + 1 \in 1..(N' + 1)  BY <2>4 DEF N
      <4>2. Kept(Z', N', i, N' + 1, Z, N)  BY <2>3, <3>1, <4>1
      <4>3. QED  BY <4>2 DEF Kept
    <3>3. Z[i0].stage \in {None, at.stage} /\ Z[i0].chara \in {None, at.chara}
          BY <2>2, <3>1, <3>2 DEF Visiting
    <3>4. QED  BY <3>2, <3>3 DEF Remembers
  <2>7. QED  BY <2>5, <2>6
<1>5. replayed' \/ told' + Cardinality(Deaths(Z, N))' <= deaths'
  <2>1. /\ Cardinality(Deaths(Z', N')) \in Nat /\ Cardinality(Deaths(Z, N)) \in Nat
        /\ Cardinality(Deaths(Z', N')) <= Cardinality(Deaths(Z, N))
        BY <1>0, SpliceCount
  <2>2. Cardinality(Deaths(Z, N))' = Cardinality(Deaths(Z', N'))  BY DEF Deaths
  <2>3. replayed \/ told + Cardinality(Deaths(Z, N)) <= deaths  BY <1>1 DEF SoundInv
  <2>4. replayed' = replayed  BY <1>0 DEF Lossy
  <2>5. QED  BY <1>0, <1>1, <2>1, <2>2, <2>3, <2>4
<1>6. \A c \in credited' \ done' : blind' /\ c[1] \in {"wonder_seed", "character_block"}
      BY <1>0, <1>1 DEF SoundInv, Lossy
<1>7. QED  BY <1>3, <1>4, <1>5, <1>6 DEF SoundInv

\* A check of a record without a stage is one of two kinds, and more
\* characters mean more checks.
LEMMA CourseKinds ==
    ASSUME NEW c, NEW r, NEW charas, NEW x \in ByCourse(c, r, charas)
    PROVE  /\ x[1] \in {"wonder_seed", "character_block"} /\ r.t # "hello"
           /\ \A more : charas \subseteq more => x \in ByCourse(c, r, more)
BY DEF ByCourse

\* A stream thinned of Hellos only, or with a loss on record, still carries
\* what is owed.
LEMMA ThinnedComplete ==
    ASSUME IInv, NEW p, NEW d, NEW e, Thinned(p, d, e), Remembers
    PROVE  CompleteInv'
<1>0. /\ Spliced(Z, N, Z', N', p, d, e) /\ Lossy(Z, N, p, d)
      /\ UNCHANGED <<at, done, owed, paired, deaths, credited, told>>
      BY DEF Thinned
<1>1. SUFFICES ASSUME lost' = 0
               PROVE  /\ told' + Cardinality(Deaths(Z, N))' >= deaths'
                      /\ \A c \in owed' \ credited' : Carried(Z, N, c)'
                      /\ ~forgot' => InCourse(Z, N)'
      BY DEF CompleteInv
<1>2. lost = 0  BY <1>0, <1>1 DEF Lossy, IInv, TypeOK
<1>3. /\ told + Cardinality(Deaths(Z, N)) >= deaths
      /\ \A c \in owed \ credited : Carried(Z, N, c)
      /\ ~forgot => InCourse(Z, N)
      BY <1>2 DEF IInv, CompleteInv
<1>4. \A k \in 1..N : Out(k, p, d) => Z[k].t = "hello"
      BY <1>0, <1>1, <1>2 DEF Lossy
<1>5. \A j \in 1..N : ~Out(j, p, d) =>
        To(j, p, d, e) \in 1..N' /\ Z'[To(j, p, d, e)] = Z[j]
      BY <1>0, SpliceTo
<1>6. \A i \in 0..N, j \in 1..(N + 1) :
        Last(Z, i, j) /\ ~Out(i, p, d) /\ ~Out(j, p, d) => Kept(Z, N, i, j, Z', N')
      BY <1>0, LastForth
<1>7. {N, N', p, d, e} \subseteq Nat /\ p + d <= N  BY <1>0 DEF Spliced
<1>8. \A i \in 0..N : Z[i].t = "course_in" => ~Out(i, p, d)
  <2>1. SUFFICES ASSUME NEW i \in 0..N, Z[i].t = "course_in", Out(i, p, d)  PROVE FALSE
        OBVIOUS
  <2>2. i \in 1..N  BY <1>7, <2>1 DEF Out
  <2>3. QED  BY <1>4, <2>1, <2>2
<1>9. told' + Cardinality(Deaths(Z, N))' >= deaths'
  <2>1. Cardinality(Deaths(Z', N')) = Cardinality(Deaths(Z, N))
        BY <1>0, <1>4, SpliceCount
  <2>2. Cardinality(Deaths(Z, N))' = Cardinality(Deaths(Z', N'))  BY DEF Deaths
  <2>3. QED  BY <1>0, <1>3, <2>1, <2>2
<1>10. ASSUME NEW c \in owed' \ credited'  PROVE Carried(Z, N, c)'
  <2>1. Carried(Z, N, c)  BY <1>0, <1>3, <1>10
  <2>2. CASE \E j \in 1..N : c \in Sure(Z[j])
    <3>1. PICK j \in 1..N : c \in Sure(Z[j])  BY <2>2
    <3>2. Z[j].t # "hello"  BY <3>1, HelloIsEmpty
    <3>3. ~Out(j, p, d)  BY <1>4, <3>2
    <3>4. QED  BY <1>5, <3>1, <3>3 DEF Carried
  <2>3. CASE ~forgot /\ \E i \in 0..N, j \in 1..N :
                Last(Z, i, j) /\ c \in ByCourse(Z[i], Z[j], b.unlocked_charas)
    <3>1. PICK i \in 0..N, j \in 1..N :
                Last(Z, i, j) /\ c \in ByCourse(Z[i], Z[j], b.unlocked_charas)
          BY <2>3
    <3>2. /\ Z[j].t # "hello" /\ c[1] \in {"wonder_seed", "character_block"}
          /\ \A more : b.unlocked_charas \subseteq more => c \in ByCourse(Z[i], Z[j], more)
          BY <3>1, CourseKinds
    <3>3. ~Out(i, p, d) /\ ~Out(j, p, d)  BY <1>4, <1>8, <3>1, <3>2 DEF Last
    <3>4. j \in 1..(N + 1) /\ j # N + 1  BY <1>7 DEF N
    <3>5. Kept(Z, N, i, j, Z', N')  BY <1>6, <3>1, <3>3, <3>4
    <3>6. PICK i2 \in 0..N', j2 \in 1..(N' + 1) :
            /\ Last(Z', i2, j2) /\ (i = 0 <=> i2 = 0) /\ (i # 0 => Z'[i2] = Z[i])
            /\ j2 # N' + 1 /\ Z'[j2] = Z[j]
          BY <3>4, <3>5 DEF Kept
    <3>7. j2 \in 1..N'  BY <1>7, <3>6
    <3>8. CASE /\ Z'[0] = Z[0] /\ forgot' = forgot
               /\ b.unlocked_charas \subseteq b.unlocked_charas'
      <4>1. Z'[i2] = Z[i]  BY <3>6, <3>8
      <4>2. c \in ByCourse(Z'[i2], Z'[j2], b.unlocked_charas')
            BY <3>2, <3>6, <3>8, <4>1
      <4>3. QED  BY <2>3, <3>6, <3>7, <3>8, <4>2 DEF Carried
    <3>9. CASE forgot'  BY <3>2, <3>9 DEF Carried
    <3>10. QED  BY <3>8, <3>9 DEF Remembers
  <2>4. CASE forgot /\ c[1] \in {"wonder_seed", "character_block"}
        BY <2>4 DEF Carried, Remembers
  <2>5. QED  BY <2>1, <2>2, <2>3, <2>4 DEF Carried
<1>11. ASSUME ~forgot'  PROVE InCourse(Z, N)'
  <2>1. Z'[0] = Z[0] /\ ~forgot  BY <1>11 DEF Remembers
  <2>2. SUFFICES ASSUME at # None
                 PROVE  \E i \in 0..N' : /\ Last(Z', i, N' + 1) /\ Z'[i].stage = at.stage
                                         /\ Z'[i].chara = at.report
        BY <1>0 DEF InCourse
  <2>3. PICK i \in 0..N : /\ Last(Z, i, N + 1) /\ Z[i].stage = at.stage
                          /\ Z[i].chara = at.report
        BY <1>3, <2>1, <2>2 DEF InCourse
  <2>4. ~Out(i, p, d) /\ ~Out(N + 1, p, d) /\ N + 1 \in 1..(N + 1)
        BY <1>7, <1>8, <2>3 DEF Last, Out
  <2>5. Kept(Z, N, i, N + 1, Z', N')  BY <1>6, <2>3, <2>4
  <2>6. PICK i2 \in 0..N' : /\ Last(Z', i2, N' + 1) /\ (i = 0 <=> i2 = 0)
                            /\ (i # 0 => Z'[i2] = Z[i])
        BY <2>5 DEF Kept
  <2>7. QED  BY <2>1, <2>3, <2>6
<1>12. QED  BY <1>9, <1>10, <1>11

\* Of two records one loss takes one at most.
LEMMA ThinnedPaired ==
    ASSUME IInv, NEW p, NEW d, NEW e, Thinned(p, d, e)
    PROVE  PairedInv'
<1>0. /\ Spliced(Z, N, Z', N', p, d, e) /\ Lossy(Z, N, p, d)
      /\ UNCHANGED <<at, done, owed, paired, deaths, credited, told>>
      BY DEF Thinned
<1>1. SUFFICES ASSUME NEW c \in paired' \ credited'  PROVE Twice(Z, N, c)'
      BY DEF PairedInv
<1>2. Twice(Z, N, c)  BY <1>0, <1>1 DEF IInv, PairedInv
<1>3. lost \in 0..2 /\ lost' \in 0..2 /\ lost' >= lost  BY <1>0 DEF Lossy, IInv, TypeOK
<1>4. \A k \in 1..N : Out(k, p, d) /\ c \in Sure(Z[k]) => lost' = 2 \/ lost' > lost
      BY <1>0, HelloIsEmpty DEF Lossy
<1>5. \A k, m \in 1..N : Out(k, p, d) /\ c \in Sure(Z[k]) /\ Out(m, p, d) /\ c \in Sure(Z[m])
                          /\ k # m => lost' = 2
      BY <1>0, HelloIsEmpty DEF Lossy
<1>6. \A j \in 1..N : ~Out(j, p, d) =>
        /\ To(j, p, d, e) \in 1..N' /\ Z'[To(j, p, d, e)] = Z[j]
        /\ \A k \in 1..N : ~Out(k, p, d) /\ k # j => To(k, p, d, e) # To(j, p, d, e)
      BY <1>0, SpliceTo
<1>7. CASE lost' = 2  BY <1>7 DEF Twice
<1>8. CASE lost' = 1 /\ lost = 1
  <2>1. PICK j \in 1..N : c \in Sure(Z[j])  BY <1>2, <1>8 DEF Twice
  <2>2. ~Out(j, p, d)  BY <1>4, <1>8, <2>1
  <2>3. QED  BY <1>6, <1>8, <2>1, <2>2 DEF Twice
<1>9. CASE lost = 0 /\ lost' # 2
  <2>1. PICK j, k \in 1..N : j # k /\ c \in Sure(Z[j]) \cap Sure(Z[k])
        BY <1>2, <1>9 DEF Twice
  <2>2. ~Out(j, p, d) \/ ~Out(k, p, d)  BY <1>5, <1>9, <2>1
  <2>3. CASE lost' = 1  BY <1>6, <2>1, <2>2, <2>3 DEF Twice
  <2>4. CASE lost' = 0
    <3>1. ~Out(j, p, d) /\ ~Out(k, p, d)  BY <1>4, <1>9, <2>1, <2>4
    <3>2. QED  BY <1>6, <2>1, <2>4, <3>1 DEF Twice
  <2>5. QED  BY <1>3, <1>9, <2>3, <2>4
<1>10. QED  BY <1>3, <1>7, <1>8, <1>9

-----------------------------------------------------------------------------
(* What the steps of the network do to the stream. *)

\* z is c, then the records of w, then those of r.
Laid(z, c, w, r) ==
    /\ z[0] = c
    /\ \A i \in 1..Len(w) : z[i] = w[i] /\ z[i] \in Records
    /\ \A i \in 1..Len(r) : z[Len(w) + i] = r[i] /\ z[Len(w) + i] \in Records

\* A stream, read off its two parts.
LEMMA StreamAt ==
    ASSUME NEW c, NEW w \in Seq(Records), NEW r \in Seq(Records)
    PROVE  Laid(Stream(c, w, r), c, w, r)
<1> Len(w) \in Nat /\ Len(r) \in Nat  OBVIOUS
<1>1. Stream(c, w, r)[0] = c  BY DEF Stream
<1>2. ASSUME NEW i \in 1..Len(w)
      PROVE  Stream(c, w, r)[i] = w[i] /\ Stream(c, w, r)[i] \in Records
  <2>1. i \in 0..(Len(w) + Len(r)) /\ i # 0 /\ i <= Len(w)  OBVIOUS
  <2>2. Stream(c, w, r)[i] = w[i]  BY <2>1 DEF Stream
  <2>3. QED  BY <2>2
<1>3. ASSUME NEW i \in 1..Len(r)
      PROVE  Stream(c, w, r)[Len(w) + i] = r[i] /\ Stream(c, w, r)[Len(w) + i] \in Records
  <2>1. Len(w) + i \in 0..(Len(w) + Len(r)) /\ Len(w) + i # 0 /\ ~(Len(w) + i <= Len(w))
        /\ (Len(w) + i) - Len(w) = i
        OBVIOUS
  <2>2. Stream(c, w, r)[Len(w) + i] = r[i]  BY <2>1 DEF Stream
  <2>3. QED  BY <2>2
<1>4. QED  BY <1>1, <1>2, <1>3 DEF Laid

\* The records s are the d records of z after p.
Taken(z, s, p, d) ==
    s \in Seq(Records) /\ p \in Nat /\ d = Len(s) /\ \A i \in 1..d : z[p + i] = s[i]

\* The wire is cut after k records.
LEMMA CutWire ==
    ASSUME NEW c, NEW c2, c.t = "course_in", c2.t = "course_in",
           NEW w \in Seq(Records), NEW r \in Seq(Records), NEW k \in 0..Len(w)
    PROVE  /\ Spliced(Stream(c, w, r), Len(w) + Len(r),
                      Stream(c2, SubSeq(w, 1, k), r), Len(SubSeq(w, 1, k)) + Len(r),
                      k, Len(w) - k, 0)
           /\ SubSeq(w, 1, k) \in Seq(Records)
           /\ Taken(Stream(c, w, r), SubSeq(w, k + 1, Len(w)), k, Len(w) - k)
<1> DEFINE w2 == SubSeq(w, 1, k)
           z  == Stream(c, w, r)
           z2 == Stream(c2, w2, r)
<1>1. Len(w) \in Nat /\ Len(r) \in Nat /\ k \in Nat /\ k <= Len(w)  OBVIOUS
<1>2. w2 \in Seq(Records) /\ Len(w2) = k /\ \A i \in 1..k : w2[i] = w[i]  BY <1>1
<1>3. /\ SubSeq(w, k + 1, Len(w)) \in Seq(Records)
      /\ Len(SubSeq(w, k + 1, Len(w))) = Len(w) - k
      /\ \A i \in 1..(Len(w) - k) : SubSeq(w, k + 1, Len(w))[i] = w[k + i]
      BY <1>1
<1> HIDE DEF w2
<1>4. /\ z[0] = c /\ z2[0] = c2
      /\ \A i \in 1..Len(w) : z[i] = w[i]
      /\ \A i \in 1..k : z2[i] = w2[i]
      /\ \A i \in 1..Len(r) : z[Len(w) + i] = r[i] /\ z2[k + i] = r[i]
  <2>1. Laid(z, c, w, r)  BY StreamAt
  <2>2. Laid(z2, c2, w2, r)  BY <1>2, StreamAt
  <2> HIDE DEF z, z2
  <2>3. QED  BY <1>2, <2>1, <2>2 DEF Laid
<1> HIDE DEF z, z2
<1>5. \A i \in 1..k : z2[i] = z[i]
  <2>1. \A i \in 1..k : i \in 1..Len(w)  BY <1>1
  <2>2. QED  BY <1>2, <1>4, <2>1
<1>6. \A i \in (k + 1)..(k + Len(r)) : z2[i] = z[i + (Len(w) - k)]
  <2>1. SUFFICES ASSUME NEW i \in (k + 1)..(k + Len(r))
                 PROVE  z2[i] = z[i + (Len(w) - k)]
        OBVIOUS
  <2>2. i - k \in 1..Len(r) /\ i = k + (i - k) /\ i + (Len(w) - k) = Len(w) + (i - k)
        BY <1>1
  <2>3. z2[k + (i - k)] = z[Len(w) + (i - k)]  BY <1>4, <2>2
  <2>4. QED  BY <2>2, <2>3
<1>7. Spliced(z, Len(w) + Len(r), z2, k + Len(r), k, Len(w) - k, 0)
  <2>1. \A i \in (k + 0 + 1)..(k + Len(r)) : z2[i] = z[i - 0 + (Len(w) - k)]
        BY <1>1, <1>6
  <2>2. /\ {Len(w) + Len(r), k + Len(r), k, Len(w) - k, 0} \subseteq Nat
        /\ k + (Len(w) - k) <= Len(w) + Len(r)
        /\ k + Len(r) = (Len(w) + Len(r)) - (Len(w) - k) + 0
        BY <1>1
  <2>3. \A i \in (k + 1)..(k + 0) : z2[i].t = "hello"  BY <1>1
  <2>4. QED  BY <1>4, <1>5, <2>1, <2>2, <2>3 DEF Spliced
<1>8. \A i \in 1..(Len(w) - k) : z[k + i] = SubSeq(w, k + 1, Len(w))[i]
  <2>1. \A i \in 1..(Len(w) - k) : k + i \in 1..Len(w)  BY <1>1
  <2>2. QED  BY <1>3, <1>4, <2>1
<1>9. Taken(z, SubSeq(w, k + 1, Len(w)), k, Len(w) - k)
      BY <1>1, <1>3, <1>8 DEF Taken
<1>10. QED  BY <1>2, <1>7, <1>9 DEF z, z2, w2

\* A Hello goes out after what is on the wire.
LEMMA SayHello ==
    ASSUME NEW c, c.t = "course_in", NEW w \in Seq(Records), NEW r \in Seq(Records)
    PROVE  /\ Append(w, [t |-> "hello"]) \in Seq(Records)
           /\ Spliced(Stream(c, w, r), Len(w) + Len(r),
                      Stream(c, Append(w, [t |-> "hello"]), r),
                      Len(Append(w, [t |-> "hello"])) + Len(r), Len(w), 0, 1)
<1> DEFINE w2 == Append(w, [t |-> "hello"])
           z  == Stream(c, w, r)
           z2 == Stream(c, w2, r)
<1>1. Len(w) \in Nat /\ Len(r) \in Nat  OBVIOUS
<1>2. [t |-> "hello"] \in Records  BY DEF Records
<1>3. /\ w2 \in Seq(Records) /\ Len(w2) = Len(w) + 1
      /\ \A i \in 1..Len(w) : w2[i] = w[i]
      /\ w2[Len(w) + 1].t = "hello"
      BY <1>2
<1> HIDE DEF w2
<1>4. /\ z[0] = c /\ z2[0] = c
      /\ \A i \in 1..Len(w) : z[i] = w[i]
      /\ \A i \in 1..(Len(w) + 1) : z2[i] = w2[i]
      /\ \A i \in 1..Len(r) : z[Len(w) + i] = r[i] /\ z2[Len(w) + 1 + i] = r[i]
  <2>1. Laid(z, c, w, r)  BY StreamAt
  <2>2. Laid(z2, c, w2, r)  BY <1>3, StreamAt
  <2> HIDE DEF z, z2
  <2>3. QED  BY <1>3, <2>1, <2>2 DEF Laid
<1> HIDE DEF z, z2
<1>5. \A i \in 1..Len(w) : z2[i] = z[i]  BY <1>1, <1>3, <1>4
<1>6. \A i \in (Len(w) + 1)..(Len(w) + 1) : z2[i].t = "hello"  BY <1>1, <1>3, <1>4
<1>7. \A i \in (Len(w) + 1 + 1)..(Len(w) + 1 + Len(r)) : z2[i] = z[i - 1 + 0]
  <2>1. SUFFICES ASSUME NEW i \in (Len(w) + 1 + 1)..(Len(w) + 1 + Len(r))
                 PROVE  z2[i] = z[i - 1 + 0]
        OBVIOUS
  <2>2. /\ i - (Len(w) + 1) \in 1..Len(r) /\ i = Len(w) + 1 + (i - (Len(w) + 1))
        /\ i - 1 + 0 = Len(w) + (i - (Len(w) + 1))
        BY <1>1
  <2>3. QED  BY <1>4, <2>2
<1>8. /\ {Len(w) + Len(r), Len(w) + 1 + Len(r), Len(w), 0, 1} \subseteq Nat
      /\ Len(w) + 0 <= Len(w) + Len(r)
      /\ Len(w) + 1 + Len(r) = Len(w) + Len(r) - 0 + 1
      BY <1>1
<1>9. Spliced(z, Len(w) + Len(r), z2, Len(w) + 1 + Len(r), Len(w), 0, 1)
      BY <1>4, <1>5, <1>6, <1>7, <1>8 DEF Spliced
<1>10. QED  BY <1>3, <1>9 DEF z, z2, w2

\* A record goes from the ring to the wire, or is lost from the ring.
LEMMA SendRecord ==
    ASSUME NEW c, c.t = "course_in", NEW w \in Seq(Records), NEW r \in Seq(Records), r # <<>>
    PROVE  /\ Append(w, Head(r)) \in Seq(Records) /\ Tail(r) \in Seq(Records)
           /\ Len(Tail(r)) = Len(r) - 1
           /\ Spliced(Stream(c, w, r), Len(w) + Len(r), Stream(c, Append(w, Head(r)), Tail(r)),
                      Len(Append(w, Head(r))) + Len(Tail(r)), 0, 0, 0)
           /\ Spliced(Stream(c, w, r), Len(w) + Len(r), Stream(c, w, Tail(r)),
                      Len(w) + Len(Tail(r)), Len(w), 1, 0)
           /\ Stream(c, w, r)[Len(w) + 1] = Head(r) /\ Head(r) \in Records
<1> DEFINE w2 == Append(w, Head(r))
           r2 == Tail(r)
           z  == Stream(c, w, r)
           z2 == Stream(c, w2, r2)
           z3 == Stream(c, w, r2)
<1>1. Len(w) \in Nat /\ Len(r) \in Nat /\ Len(r) >= 1 /\ Head(r) = r[1] /\ Head(r) \in Records
      OBVIOUS
<1>2. /\ w2 \in Seq(Records) /\ Len(w2) = Len(w) + 1
      /\ \A i \in 1..Len(w) : w2[i] = w[i]
      /\ w2[Len(w) + 1] = r[1]
      BY <1>1
<1>3. /\ r2 \in Seq(Records) /\ Len(r2) = Len(r) - 1
      /\ \A i \in 1..(Len(r) - 1) : r2[i] = r[i + 1]
      BY <1>1
<1> HIDE DEF w2, r2
<1>4. Laid(z, c, w, r)  BY StreamAt
<1>5. Laid(z2, c, w2, r2)  BY <1>2, <1>3, StreamAt
<1>6. Laid(z3, c, w, r2)  BY <1>3, StreamAt
<1> HIDE DEF z, z2, z3
<1>7. z[Len(w) + 1] = r[1]  BY <1>1, <1>4 DEF Laid
<1>8. \A i \in 1..(Len(r) - 1) : z2[Len(w) + 1 + i] = z[Len(w) + 1 + i]
                                 /\ z3[Len(w) + i] = z[Len(w) + 1 + i]
  <2>1. SUFFICES ASSUME NEW i \in 1..(Len(r) - 1)
                 PROVE  z2[Len(w) + 1 + i] = z[Len(w) + 1 + i]
                        /\ z3[Len(w) + i] = z[Len(w) + 1 + i]
        OBVIOUS
  <2>2. i + 1 \in 1..Len(r) /\ Len(w) + (i + 1) = Len(w) + 1 + i /\ i \in 1..Len(r2)
        BY <1>1, <1>3
  <2>3. z[Len(w) + (i + 1)] = r[i + 1]  BY <1>4, <2>2 DEF Laid
  <2>4. z2[Len(w2) + i] = r2[i] /\ z3[Len(w) + i] = r2[i]
        BY <1>5, <1>6, <2>2 DEF Laid
  <2>5. QED  BY <1>2, <1>3, <2>2, <2>3, <2>4
<1>9. z[0] = c /\ z2[0] = c /\ z3[0] = c
      /\ \A i \in 1..Len(w) : z2[i] = z[i] /\ z3[i] = z[i]
      BY <1>1, <1>2, <1>4, <1>5, <1>6 DEF Laid
<1>10. z2[Len(w) + 1] = z[Len(w) + 1]  BY <1>1, <1>2, <1>5, <1>7 DEF Laid
<1>11. Spliced(z, Len(w) + Len(r), z2, Len(w2) + Len(r2), 0, 0, 0)
  <2>1. \A i \in 1..(Len(w) + Len(r)) : z2[i] = z[i]
    <3>1. SUFFICES ASSUME NEW i \in 1..(Len(w) + Len(r)), i > Len(w) + 1
                   PROVE  z2[i] = z[i]
          BY <1>1, <1>9, <1>10
    <3>2. i - (Len(w) + 1) \in 1..(Len(r) - 1) /\ i = Len(w) + 1 + (i - (Len(w) + 1))
          BY <1>1, <3>1
    <3>3. QED  BY <1>8, <3>2
  <2>2. {Len(w) + Len(r), Len(w2) + Len(r2), 0} \subseteq Nat
        /\ Len(w2) + Len(r2) = Len(w) + Len(r)
        BY <1>1, <1>2, <1>3
  <2>3. \A i \in (0 + 0 + 1)..(Len(w2) + Len(r2)) : z2[i] = z[i - 0 + 0]
        BY <2>1, <2>2
  <2>4. QED  BY <1>9, <2>2, <2>3 DEF Spliced
<1>12. Spliced(z, Len(w) + Len(r), z3, Len(w) + Len(r2), Len(w), 1, 0)
  <2>1. \A i \in (Len(w) + 0 + 1)..(Len(w) + Len(r2)) : z3[i] = z[i - 0 + 1]
    <3>1. SUFFICES ASSUME NEW i \in (Len(w) + 0 + 1)..(Len(w) + Len(r2))
                   PROVE  z3[i] = z[i - 0 + 1]
          OBVIOUS
    <3>2. i - Len(w) \in 1..(Len(r) - 1) /\ i = Len(w) + (i - Len(w))
          /\ i - 0 + 1 = Len(w) + 1 + (i - Len(w))
          BY <1>1, <1>3, <3>1
    <3>3. QED  BY <1>8, <3>2
  <2>2. /\ {Len(w) + Len(r), Len(w) + Len(r2), Len(w), 1, 0} \subseteq Nat
        /\ Len(w) + 1 <= Len(w) + Len(r)
        /\ Len(w) + Len(r2) = Len(w) + Len(r) - 1 + 0
        /\ \A i \in (Len(w) + 1)..(Len(w) + 0) : z3[i].t = "hello"
        BY <1>1, <1>3
  <2>3. QED  BY <1>9, <2>1, <2>2 DEF Spliced
<1>13. QED  BY <1>1, <1>2, <1>3, <1>7, <1>11, <1>12 DEF w2, r2, z, z2, z3

\* The first record of the wire is eaten; or nothing moves.
LEMMA EatRecord ==
    ASSUME NEW c, NEW c2, c.t = "course_in", c2.t = "course_in",
           NEW w \in Seq(Records), NEW r \in Seq(Records), w # <<>>
    PROVE  /\ Tail(w) \in Seq(Records) /\ Stream(c, w, r)[1] = Head(w) /\ Head(w) \in Records
           /\ Spliced(Stream(c, w, r), Len(w) + Len(r),
                      Stream(c2, Tail(w), r), Len(Tail(w)) + Len(r), 0, 1, 0)
<1> DEFINE w2 == Tail(w)
           z  == Stream(c, w, r)
           z2 == Stream(c2, w2, r)
<1>1. Len(w) \in Nat /\ Len(r) \in Nat /\ Len(w) >= 1 /\ Head(w) = w[1] /\ Head(w) \in Records
      OBVIOUS
<1>2. /\ w2 \in Seq(Records) /\ Len(w2) = Len(w) - 1
      /\ \A i \in 1..(Len(w) - 1) : w2[i] = w[i + 1]
      BY <1>1
<1> HIDE DEF w2
<1>3. Laid(z, c, w, r)  BY StreamAt
<1>4. Laid(z2, c2, w2, r)  BY <1>2, StreamAt
<1> HIDE DEF z, z2
<1>5. z[0] = c /\ z2[0] = c2 /\ z[1] = w[1]  BY <1>1, <1>3, <1>4 DEF Laid
<1>6. \A i \in 1..(Len(w) - 1) : z2[i] = z[i + 1]
      BY <1>1, <1>2, <1>3, <1>4 DEF Laid
<1>7. \A i \in 1..Len(r) : z2[Len(w) - 1 + i] = z[Len(w) + i]
      BY <1>1, <1>2, <1>3, <1>4 DEF Laid
<1>8. \A i \in (0 + 0 + 1)..(Len(w2) + Len(r)) : z2[i] = z[i - 0 + 1]
  <2>1. SUFFICES ASSUME NEW i \in 1..(Len(w) - 1 + Len(r)), i > Len(w) - 1
                 PROVE  z2[i] = z[i + 1]
        BY <1>1, <1>2, <1>6
  <2>2. /\ i - (Len(w) - 1) \in 1..Len(r) /\ i = Len(w) - 1 + (i - (Len(w) - 1))
        /\ i + 1 = Len(w) + (i - (Len(w) - 1))
        BY <1>1, <2>1
  <2>3. QED  BY <1>7, <2>2
<1>9. /\ {Len(w) + Len(r), Len(w2) + Len(r), 0, 1} \subseteq Nat
      /\ 0 + 1 <= Len(w) + Len(r) /\ Len(w2) + Len(r) = Len(w) + Len(r) - 1 + 0
      BY <1>1, <1>2
<1>10. Spliced(z, Len(w) + Len(r), z2, Len(w2) + Len(r), 0, 1, 0)
       BY <1>5, <1>8, <1>9 DEF Spliced
<1>11. QED  BY <1>1, <1>2, <1>5, <1>10 DEF w2, z, z2

\* Another remembered course leaves the records as they were.
LEMMA KeepRecords ==
    ASSUME NEW c, NEW c2, c.t = "course_in", c2.t = "course_in",
           NEW w \in Seq(Records), NEW r \in Seq(Records)
    PROVE  Spliced(Stream(c, w, r), Len(w) + Len(r),
                   Stream(c2, w, r), Len(w) + Len(r), 0, 0, 0)
<1> DEFINE z  == Stream(c, w, r)
           z2 == Stream(c2, w, r)
<1>1. Len(w) \in Nat /\ Len(r) \in Nat  OBVIOUS
<1>2. z[0] = c /\ z2[0] = c2  BY StreamAt DEF Laid
<1>3. \A i \in 1..(Len(w) + Len(r)) : z2[i] = z[i]  BY <1>1 DEF Stream
<1> HIDE DEF z, z2
<1>4. \A i \in (0 + 0 + 1)..(Len(w) + Len(r)) : z2[i] = z[i - 0 + 0]  BY <1>1, <1>3
<1>5. {Len(w) + Len(r), 0} \subseteq Nat /\ Len(w) + Len(r) = Len(w) + Len(r) - 0 + 0
      BY <1>1
<1>6. QED  BY <1>2, <1>4, <1>5 DEF Spliced, z, z2

\* The ring is cut after k records.
LEMMA CutRing ==
    ASSUME NEW c, c.t = "course_in",
           NEW w \in Seq(Records), NEW r \in Seq(Records), NEW k \in 0..Len(r)
    PROVE  /\ Spliced(Stream(c, w, r), Len(w) + Len(r),
                      Stream(c, w, SubSeq(r, 1, k)), Len(w) + Len(SubSeq(r, 1, k)),
                      Len(w) + k, Len(r) - k, 0)
           /\ SubSeq(r, 1, k) \in Seq(Records) /\ Len(SubSeq(r, 1, k)) = k
           /\ Taken(Stream(c, w, r), SubSeq(r, k + 1, Len(r)), Len(w) + k, Len(r) - k)
<1> DEFINE r2 == SubSeq(r, 1, k)
           z  == Stream(c, w, r)
           z2 == Stream(c, w, r2)
<1>1. Len(w) \in Nat /\ Len(r) \in Nat /\ k \in Nat /\ k <= Len(r)  OBVIOUS
<1>2. r2 \in Seq(Records) /\ Len(r2) = k /\ \A i \in 1..k : r2[i] = r[i]  BY <1>1
<1>3. /\ SubSeq(r, k + 1, Len(r)) \in Seq(Records)
      /\ Len(SubSeq(r, k + 1, Len(r))) = Len(r) - k
      /\ \A i \in 1..(Len(r) - k) : SubSeq(r, k + 1, Len(r))[i] = r[k + i]
      BY <1>1
<1> HIDE DEF r2
<1>4. Laid(z, c, w, r)  BY StreamAt
<1>5. Laid(z2, c, w, r2)  BY <1>2, StreamAt
<1> HIDE DEF z, z2
<1>6. \A i \in 1..(Len(w) + k) : z2[i] = z[i]
  <2>1. SUFFICES ASSUME NEW i \in 1..(Len(w) + k)  PROVE z2[i] = z[i]  OBVIOUS
  <2>2. CASE i \in 1..Len(w)  BY <1>4, <1>5, <2>2 DEF Laid
  <2>3. CASE i \notin 1..Len(w)
    <3>1. i - Len(w) \in 1..k /\ i - Len(w) \in 1..Len(r) /\ i = Len(w) + (i - Len(w))
          BY <1>1, <2>3
    <3>2. z[Len(w) + (i - Len(w))] = r[i - Len(w)]  BY <1>4, <3>1 DEF Laid
    <3>3. z2[Len(w) + (i - Len(w))] = r2[i - Len(w)]  BY <1>2, <1>5, <3>1 DEF Laid
    <3>4. QED  BY <1>2, <3>1, <3>2, <3>3
  <2>4. QED  BY <2>2, <2>3
<1>7. Spliced(z, Len(w) + Len(r), z2, Len(w) + k, Len(w) + k, Len(r) - k, 0)
  <2>1. /\ {Len(w) + Len(r), Len(w) + k, Len(r) - k, 0} \subseteq Nat
        /\ (Len(w) + k) + (Len(r) - k) <= Len(w) + Len(r)
        /\ Len(w) + k = (Len(w) + Len(r)) - (Len(r) - k) + 0
        /\ (Len(w) + k + 1)..(Len(w) + k + 0) = {}
        /\ (Len(w) + k + 0 + 1)..(Len(w) + k) = {}
        BY <1>1
  <2>2. z[0] = c /\ z2[0] = c  BY <1>4, <1>5 DEF Laid
  <2>3. QED  BY <1>6, <2>1, <2>2 DEF Spliced
<1>8. Taken(z, SubSeq(r, k + 1, Len(r)), Len(w) + k, Len(r) - k)
  <2>1. ASSUME NEW i \in 1..(Len(r) - k)
        PROVE  z[(Len(w) + k) + i] = SubSeq(r, k + 1, Len(r))[i]
    <3>1. k + i \in 1..Len(r) /\ (Len(w) + k) + i = Len(w) + (k + i)  BY <1>1
    <3>2. z[Len(w) + (k + i)] = r[k + i]  BY <1>4, <3>1 DEF Laid
    <3>3. QED  BY <1>3, <3>1, <3>2
  <2>2. Len(w) + k \in Nat  BY <1>1
  <2>3. QED  BY <1>3, <2>1, <2>2 DEF Taken
<1>9. QED  BY <1>2, <1>7, <1>8 DEF z, z2, r2

\* z2 is the stream z of n records, and then the records s.
Longer(z, n, z2, s) ==
    (\A i \in 0..n : z2[i] = z[i]) /\ \A i \in 1..Len(s) : z2[n + i] = s[i]

\* Records are put after those of the ring.
LEMMA AddToRing ==
    ASSUME NEW c, NEW w \in Seq(Records), NEW r \in Seq(Records), NEW s \in Seq(Records)
    PROVE  /\ r \o s \in Seq(Records) /\ Len(r \o s) = Len(r) + Len(s)
           /\ Longer(Stream(c, w, r), Len(w) + Len(r), Stream(c, w, r \o s), s)
<1> DEFINE r2 == r \o s
           z  == Stream(c, w, r)
           z2 == Stream(c, w, r2)
<1>1. Len(w) \in Nat /\ Len(r) \in Nat /\ Len(s) \in Nat  OBVIOUS
<1>2. /\ r2 \in Seq(Records) /\ Len(r2) = Len(r) + Len(s)
      /\ \A i \in 1..Len(r) : r2[i] = r[i]
      /\ \A i \in 1..Len(s) : r2[Len(r) + i] = s[i]
  <2>1. /\ r2 \in Seq(Records) /\ Len(r2) = Len(r) + Len(s)
        /\ \A i \in 1..(Len(r) + Len(s)) : r2[i] = IF i <= Len(r) THEN r[i] ELSE s[i - Len(r)]
        BY ConcatProperties
  <2>2. \A i \in 1..Len(s) : /\ Len(r) + i \in 1..(Len(r) + Len(s))
                             /\ ~(Len(r) + i <= Len(r)) /\ (Len(r) + i) - Len(r) = i
        BY <1>1
  <2>3. \A i \in 1..Len(r) : i \in 1..(Len(r) + Len(s)) /\ i <= Len(r)  BY <1>1
  <2> HIDE DEF r2
  <2>4. QED  BY <2>1, <2>2, <2>3
<1> HIDE DEF r2
<1>3. Laid(z, c, w, r)  BY StreamAt
<1>4. Laid(z2, c, w, r2)  BY <1>2, StreamAt
<1> HIDE DEF z, z2
<1>5. \A i \in 0..(Len(w) + Len(r)) : z2[i] = z[i]
  <2>1. SUFFICES ASSUME NEW i \in 0..(Len(w) + Len(r))  PROVE z2[i] = z[i]  OBVIOUS
  <2>2. CASE i \in 0..Len(w)  BY <1>3, <1>4, <2>2 DEF Laid
  <2>3. CASE i \notin 0..Len(w)
    <3>1. i - Len(w) \in 1..Len(r) /\ i - Len(w) \in 1..Len(r2) /\ i = Len(w) + (i - Len(w))
          BY <1>1, <1>2, <2>3
    <3>2. /\ z[Len(w) + (i - Len(w))] = r[i - Len(w)]
          /\ z2[Len(w) + (i - Len(w))] = r2[i - Len(w)]
          BY <1>3, <1>4, <3>1 DEF Laid
    <3>3. QED  BY <1>2, <3>1, <3>2
  <2>4. QED  BY <2>2, <2>3
<1>6. \A i \in 1..Len(s) : z2[Len(w) + Len(r) + i] = s[i]
  <2>1. SUFFICES ASSUME NEW i \in 1..Len(s)  PROVE z2[Len(w) + Len(r) + i] = s[i]  OBVIOUS
  <2>2. Len(r) + i \in 1..Len(r2) /\ Len(w) + Len(r) + i = Len(w) + (Len(r) + i)
        BY <1>1, <1>2
  <2>3. z2[Len(w) + (Len(r) + i)] = r2[Len(r) + i]  BY <1>4, <2>2 DEF Laid
  <2>4. QED  BY <1>2, <2>2, <2>3
<1>7. Longer(z, Len(w) + Len(r), z2, s)  BY <1>5, <1>6 DEF Longer
<1>8. QED  BY <1>2, <1>7 DEF z, z2, r2

-----------------------------------------------------------------------------
(* What the ring's free slots hold. *)

\* Pieces of earned records are earned, and so are two pieces put together.
LEMMA EarnedPieces ==
    ASSUME NEW s, NEW r, NEW checks, Earned(s, checks), Earned(r, checks)
    PROVE  /\ \A i \in 1..(Len(s) + 1), j \in 0..Len(s) : Earned(SubSeq(s, i, j), checks)
           /\ Earned(s \o r, checks)
           /\ s # <<>> => Earned(Append(r, Head(s)), checks)
           /\ Earned(<<>>, checks)
           /\ \A more : checks \subseteq more => Earned(s, more)
<1>1. s \in Seq(Records) /\ r \in Seq(Records) /\ Len(s) \in Nat /\ Len(r) \in Nat  BY DEF Earned
<1>2. \A i \in 1..Len(s) : Sure(s[i]) \subseteq checks  BY DEF Earned
<1>3. \A i \in 1..Len(r) : Sure(r[i]) \subseteq checks  BY DEF Earned
<1>4. ASSUME NEW i \in 1..(Len(s) + 1), NEW j \in 0..Len(s)
      PROVE  Earned(SubSeq(s, i, j), checks)
  <2> DEFINE q == SubSeq(s, i, j)
  <2>1. /\ q \in Seq(Records) /\ Len(q) = IF i <= j THEN j - i + 1 ELSE 0
        /\ \A m \in 1..Len(q) : q[m] = s[i + m - 1]
        BY <1>1
  <2> HIDE DEF q
  <2>2. \A m \in 1..Len(q) : i + m - 1 \in 1..Len(s)  BY <1>1, <2>1
  <2>3. Earned(q, checks)  BY <1>2, <2>1, <2>2 DEF Earned
  <2>4. QED  BY <2>3 DEF q
<1>5. Earned(s \o r, checks)
  <2>1. /\ s \o r \in Seq(Records) /\ Len(s \o r) = Len(s) + Len(r)
        /\ \A i \in 1..(Len(s) + Len(r)) :
             (s \o r)[i] = IF i <= Len(s) THEN s[i] ELSE r[i - Len(s)]
        BY <1>1, ConcatProperties
  <2>2. \A i \in 1..(Len(s) + Len(r)) : i \in 1..Len(s) \/ i - Len(s) \in 1..Len(r)
        BY <1>1
  <2>3. \A i \in 1..(Len(s) + Len(r)) : Sure((s \o r)[i]) \subseteq checks
        BY <1>1, <1>2, <1>3, <2>1, <2>2
  <2>4. QED  BY <2>1, <2>3 DEF Earned
<1>6. ASSUME s # <<>>  PROVE Earned(Append(r, Head(s)), checks)
  <2>1. Head(s) = s[1] /\ 1 \in 1..Len(s) /\ Head(s) \in Records  BY <1>1, <1>6
  <2> DEFINE q == Append(r, Head(s))
  <2>2. /\ q \in Seq(Records) /\ Len(q) = Len(r) + 1
        /\ \A i \in 1..Len(r) : q[i] = r[i]
        /\ q[Len(r) + 1] = Head(s)
        BY <1>1, <2>1
  <2> HIDE DEF q
  <2>3. \A i \in 1..Len(q) : Sure(q[i]) \subseteq checks  BY <1>1, <1>2, <1>3, <2>1, <2>2
  <2>4. Earned(q, checks)  BY <2>2, <2>3 DEF Earned
  <2>5. QED  BY <2>4 DEF q
<1>7. Earned(<<>>, checks)  BY DEF Earned
<1>8. \A more : checks \subseteq more => Earned(s, more)  BY <1>1, <1>2 DEF Earned
<1>9. QED  BY <1>4, <1>5, <1>6, <1>7, <1>8

\* What leaves the ring was earned.
LEMMA RingEarned ==
    ASSUME IInv
    PROVE  Earned(ring, done)
<1>1. TypeOK /\ Justified(Z, N)  BY DEF IInv, SoundInv
<1>2. wire \in Seq(Records) /\ ring \in Seq(Records)  BY <1>1 DEF TypeOK
<1>3. Len(wire) \in Nat /\ Len(ring) \in Nat  BY <1>2
<1>4. Laid(Z, Ctx, wire, ring)  BY <1>2, StreamAt DEF Z
<1>5. ASSUME NEW i \in 1..Len(ring)  PROVE Sure(ring[i]) \subseteq done
  <2>1. Len(wire) + i \in 1..N  BY <1>3 DEF N
  <2>2. Z[Len(wire) + i] = ring[i]  BY <1>4 DEF Laid
  <2>3. QED  BY <1>1, <2>1, <2>2 DEF Justified
<1>6. QED  BY <1>2, <1>5 DEF Earned

\* Whatever else a fault remembers of the free slots, or forgets.
LEMMA SpareKept ==
    ASSUME NEW s, Spare(s), Earned(s, done')
    PROVE  Stale'
<1>1. Earned(<<>>, done')  BY DEF Earned
<1>2. spare' = s \/ spare' = <<>>  BY DEF Spare
<1>3. QED  BY <1>1, <1>2 DEF Stale

-----------------------------------------------------------------------------
(* The steps of the network, the faults, and the bridge's other handlers. *)

\* A step that only thins the stream keeps the invariant.
LEMMA ThinnedStep ==
    ASSUME IInv, TypeOK', Credited', Stale', Remembers, NEW p, NEW d, NEW e, Thinned(p, d, e)
    PROVE  IInv'
<1>1. Reported'  BY DEF IInv, Reported, Thinned
<1>2. QED  BY <1>1, ThinnedSound, ThinnedComplete, ThinnedPaired DEF IInv

\* A piece of the stream that Lose was given is a recorded loss.
LEMMA LossyCut ==
    ASSUME TypeOK, NEW s, NEW p, NEW d, Taken(Z, s, p, d), Lose(s)
    PROVE  Lossy(Z, N, p, d) /\ lost' \in 0..2 /\ blind' \in BOOLEAN /\ replayed' = replayed
<1>0. s \in Seq(Records) /\ p \in Nat /\ d = Len(s) /\ \A i \in 1..d : Z[p + i] = s[i]
      BY DEF Taken
<1>1. lost \in 0..2 /\ blind \in BOOLEAN  BY DEF TypeOK
<1>2. /\ replayed' = replayed
      /\ lost' \in 0..2 /\ lost' >= lost /\ (blind => blind') /\ blind' \in BOOLEAN
      /\ \A k \in 1..Len(s) : s[k].t = "course_in" => blind'
      /\ \A k \in 1..Len(s) : s[k].t # "hello" => lost' = 2 \/ lost' > lost
      /\ \A k, m \in 1..Len(s) : s[k].t # "hello" /\ s[m].t # "hello" /\ k # m => lost' = 2
      BY <1>0, <1>1, Losing
<1>3. \A k \in 1..N : Out(k, p, d) => k - p \in 1..Len(s) /\ s[k - p] = Z[k]
  <2>1. SUFFICES ASSUME NEW k \in 1..N, Out(k, p, d)
                 PROVE  k - p \in 1..Len(s) /\ s[k - p] = Z[k]
        OBVIOUS
  <2>2. k \in Int /\ p < k /\ k <= p + d  BY <2>1 DEF Out
  <2>3. k - p \in 1..d /\ p + (k - p) = k  BY <1>0, <2>2
  <2>4. QED  BY <1>0, <2>3
<1>4. \A k, m \in 1..N : k # m => k - p # m - p  BY <1>0
<1>5. \A k \in 1..N : Out(k, p, d) /\ Z[k].t = "course_in" => blind'  BY <1>2, <1>3
<1>6. \A k \in 1..N : Out(k, p, d) /\ Z[k].t # "hello" => lost' = 2 \/ lost' > lost
      BY <1>2, <1>3
<1>7. \A k, m \in 1..N : k # m /\ Out(k, p, d) /\ Out(m, p, d)
                           /\ Z[k].t # "hello" /\ Z[m].t # "hello" => lost' = 2
  <2>1. SUFFICES ASSUME NEW k \in 1..N, NEW m \in 1..N, k # m,
                        Out(k, p, d), Z[k].t # "hello", Out(m, p, d), Z[m].t # "hello"
                 PROVE  lost' = 2
        OBVIOUS
  <2>2. k - p \in 1..Len(s) /\ s[k - p].t # "hello" /\ m - p \in 1..Len(s)
        /\ s[m - p].t # "hello" /\ k - p # m - p
        BY <1>3, <1>4, <2>1
  <2>3. QED  BY <1>2, <2>2
<1>8. QED  BY <1>2, <1>5, <1>6, <1>7, Zenon DEF Lossy

\* The stream is made of records, and starts with a course.
LEMMA StreamOf ==
    ASSUME TypeOK
    PROVE  /\ wire \in Seq(Records) /\ ring \in Seq(Records)
           /\ Ctx.t = "course_in" /\ Ctx'.t = "course_in"
BY DEF TypeOK, Ctx

\* Nothing of the stream moves and nothing is lost.
LEMMA StillThinned ==
    ASSUME IInv,
           UNCHANGED <<wire, ring, lost, replayed, blind, at, done, owed, paired, deaths,
                       credited, told>>
    PROVE  Thinned(0, 0, 0)
<1>1. TypeOK  BY DEF IInv
<1>2. Spliced(Z, N, Z', N', 0, 0, 0)
  <2>1. /\ wire \in Seq(Records) /\ ring \in Seq(Records)
        /\ Ctx.t = "course_in" /\ Ctx'.t = "course_in"
        BY <1>1, StreamOf
  <2>2. Z' = Stream(Ctx', wire, ring) /\ N' = Len(wire) + Len(ring)  BY DEF Z, N
  <2>3. QED  BY <2>1, <2>2, KeepRecords DEF Z, N
<1>3. \A k \in 1..N : ~Out(k, 0, 0)  BY DEF Out, N
<1>4. Lossy(Z, N, 0, 0)
  <2>1. replayed' = replayed /\ lost' \in 0..2 /\ lost' >= lost /\ (blind => blind')
        BY <1>1 DEF TypeOK
  <2>2. /\ \A k \in 1..N : Out(k, 0, 0) /\ Z[k].t = "course_in" => blind'
        /\ \A k \in 1..N : Out(k, 0, 0) /\ Z[k].t # "hello" => lost' = 2 \/ lost' > lost
        /\ \A k, m \in 1..N : k # m /\ Out(k, 0, 0) /\ Out(m, 0, 0)
                                /\ Z[k].t # "hello" /\ Z[m].t # "hello" => lost' = 2
        BY <1>3
  <2>3. QED  BY <2>1, <2>2, Zenon DEF Lossy
<1>5. QED  BY <1>2, <1>4 DEF Thinned

\* A probe and a disconnect do not touch the stream.
LEMMA StepResolve ==
    ASSUME IInv, Resolve \/ Disconnect
    PROVE  IInv'
<1> USE DEF Resolve, Disconnect
<1>1. /\ UNCHANGED <<wire, ring, lost, replayed, blind, at, done, owed, paired, deaths,
                     credited, told>>
      /\ UNCHANGED <<b, forgot, unlocked>>
      BY DEF gameVars, bridgeVars, lossVars
<1>2. Thinned(0, 0, 0)  BY <1>1, StillThinned
<1>3. TypeOK'
      BY DEF IInv, TypeOK, gameVars, bridgeVars, lossVars
<1>4. Credited'  BY <1>1 DEF IInv, Credited
<1>5. Remembers  BY <1>1 DEF Remembers, Z, Ctx
<1>6. Stale'  BY DEF IInv, Stale, gameVars
<1>7. QED  BY <1>2, <1>3, <1>4, <1>5, <1>6, ThinnedStep

\* An item that unlocks a character changes nothing that is under way.
LEMMA StepItems ==
    ASSUME IInv, NEW new, ReceivedItems(new)
    PROVE  IInv'
<1>1. /\ UNCHANGED <<wire, ring, lost, replayed, blind, at, done, owed, paired, deaths,
                     credited, told>>
      /\ UNCHANGED <<forgot, conn, target, socket, up, advertised, host_ip>>
      BY DEF ReceivedItems, gameVars, netVars, lossVars
<1>2. unlocked' = unlocked \cup new /\ new \subseteq Charas
      /\ b' = [b EXCEPT !.unlocked_charas = unlocked']
      BY DEF ReceivedItems
<1>3. TypeOK  BY DEF IInv
<1>4. /\ DOMAIN b' = DOMAIN b /\ b'.death_count = b.death_count
      /\ b'.current_course = b.current_course /\ b'.chara = b.chara
      /\ b'.emitted = b.emitted /\ b'.goal_complete = b.goal_complete
      /\ b'.unlocked_charas = unlocked'
      BY <1>2, <1>3 DEF TypeOK, BridgeState0
<1>5. Thinned(0, 0, 0)  BY <1>1, StillThinned
<1>6. TypeOK'  BY <1>1, <1>2, <1>3, <1>4 DEF TypeOK
<1>7. Credited'  BY <1>1, <1>4 DEF IInv, Credited
<1>8. Remembers
  <2>1. b.unlocked_charas \subseteq b.unlocked_charas'  BY <1>2, <1>3, <1>4 DEF TypeOK
  <2>2. Ctx' = Ctx  BY <1>4 DEF Ctx
  <2>3. Z'[0] = Z[0]  BY <1>1, <2>2 DEF Z
  <2>4. QED  BY <1>1, <2>1, <2>3 DEF Remembers
<1>9. Stale'  BY DEF IInv, Stale, ReceivedItems, gameVars
<1>10. QED  BY <1>5, <1>6, <1>7, <1>8, <1>9, ThinnedStep

\* Nor does a bridge that starts.
LEMMA StepStart ==
    ASSUME IInv, NEW address \in Hosts \cup {Loopback, None}, Start(address)
    PROVE  IInv'
<1>1. /\ UNCHANGED <<wire, ring, lost, replayed, blind, at, done, owed, paired, deaths,
                     credited, told>>
      /\ UNCHANGED <<b, forgot, unlocked>>
      BY DEF Start, gameVars, lossVars
<1>2. Thinned(0, 0, 0)  BY <1>1, StillThinned
<1>3. TypeOK'
      BY DEF Start, IInv, TypeOK, gameVars, netVars, lossVars
<1>4. Credited'  BY <1>1 DEF IInv, Credited
<1>5. Remembers  BY <1>1 DEF Remembers, Z, Ctx
<1>6. Stale'  BY DEF IInv, Stale, Start, gameVars
<1>7. QED  BY <1>2, <1>3, <1>4, <1>5, <1>6, ThinnedStep

\* Taking nothing out is no loss.
LEMMA LossyNone ==
    ASSUME TypeOK, UNCHANGED <<lost, replayed, blind>>, NEW p \in Nat
    PROVE  Lossy(Z, N, p, 0)
<1>1. replayed' = replayed /\ lost' \in 0..2 /\ lost' >= lost /\ (blind => blind')
      BY DEF TypeOK
<1>2. \A k \in 1..N : ~Out(k, p, 0)
  <2>1. \A k \in 1..N : k \in Int  BY DEF N
  <2>2. QED  BY <2>1 DEF Out
<1>3. /\ \A k \in 1..N : Out(k, p, 0) /\ Z[k].t = "course_in" => blind'
      /\ \A k \in 1..N : Out(k, p, 0) /\ Z[k].t # "hello" => lost' = 2 \/ lost' > lost
      /\ \A k, m \in 1..N : k # m /\ Out(k, p, 0) /\ Out(m, p, 0)
                              /\ Z[k].t # "hello" /\ Z[m].t # "hello" => lost' = 2
      BY <1>2
<1>4. QED  BY <1>1, <1>3, Zenon DEF Lossy

\* A connection puts a Hello before the ring's records.
LEMMA StepConnect ==
    ASSUME IInv, ConnectOnce
    PROVE  IInv'
<1>1. UNCHANGED <<ring, lost, replayed, blind, at, done, owed, paired, deaths, credited, told,
                  b, forgot, unlocked, up, advertised, target, host_ip>>
      BY DEF ConnectOnce, gameVars, bridgeVars, lossVars
<1>2. TypeOK  BY DEF IInv
<1>3. /\ wire \in Seq(Records) /\ ring \in Seq(Records)
      /\ Ctx.t = "course_in" /\ Ctx'.t = "course_in" /\ Ctx' = Ctx
      BY <1>1, <1>2, StreamOf DEF Ctx
<1>4. Credited'  BY <1>1 DEF IInv, Credited
<1>a. Stale'  BY DEF IInv, Stale, ConnectOnce, gameVars
<1>5. CASE up /\ target = host_ip
  <2>1. /\ socket' = TRUE /\ conn' = "ready" /\ wire' = Append(wire, [t |-> "hello"])
        BY <1>5 DEF ConnectOnce
  <2>2. /\ wire' \in Seq(Records)
        /\ Spliced(Z, N, Z', N', Len(wire), 0, 1)
    <3>1. Z' = Stream(Ctx, wire', ring) /\ N' = Len(wire') + Len(ring)
          BY <1>1, <1>3 DEF Z, N
    <3>2. QED  BY <1>3, <2>1, <3>1, SayHello DEF Z, N
  <2>3. Lossy(Z, N, Len(wire), 0)  BY <1>1, <1>2, <1>3, LossyNone
  <2>4. Thinned(Len(wire), 0, 1)  BY <1>1, <2>2, <2>3 DEF Thinned
  <2>5. TypeOK'
    <3>1. (socket => up /\ conn = "ready")'  BY <1>1, <1>5, <2>1
    <3>2. QED  BY <1>1, <1>2, <2>1, <2>2, <3>1 DEF TypeOK
  <2>6. Remembers
    <3>1. Z'[0] = Ctx /\ Z[0] = Ctx
      <4>1. Laid(Stream(Ctx, wire', ring'), Ctx, wire', ring')
            BY <1>1, <1>3, <2>2, StreamAt
      <4>2. QED  BY <1>3, <4>1, StreamAt DEF Laid, Z
    <3>2. QED  BY <1>1, <3>1 DEF Remembers
  <2>7. QED  BY <1>4, <1>a, <2>4, <2>5, <2>6, ThinnedStep
<1>6. CASE ~(up /\ target = host_ip)
  <2>1. conn = "connect" /\ conn' = "resolve" /\ UNCHANGED <<socket, wire>>
        BY <1>6 DEF ConnectOnce
  <2>2. Thinned(0, 0, 0)  BY <1>1, <2>1, StillThinned
  <2>3. TypeOK'  BY <1>1, <1>2, <2>1 DEF TypeOK
  <2>4. Remembers  BY <1>1, <2>1 DEF Remembers, Z, Ctx
  <2>5. QED  BY <1>4, <1>a, <2>2, <2>3, <2>4, ThinnedStep
<1>7. QED  BY <1>5, <1>6

\* A record moves from the ring to the wire, or its send fails and it is lost.
LEMMA StepPump ==
    ASSUME IInv, PumpOutbound
    PROVE  IInv'
<1>1. UNCHANGED <<at, done, owed, paired, deaths, credited, told,
                  b, forgot, unlocked, up, advertised, target, socket, conn, host_ip>>
      BY DEF PumpOutbound, gameVars, bridgeVars, netVars
<1>2. TypeOK  BY DEF IInv
<1>3. /\ wire \in Seq(Records) /\ ring \in Seq(Records) /\ ring # <<>> /\ ring' = Tail(ring)
      /\ Ctx.t = "course_in" /\ Ctx'.t = "course_in" /\ Ctx' = Ctx
      BY <1>1, <1>2, StreamOf DEF Ctx, PumpOutbound
<1>4. Credited'  BY <1>1 DEF IInv, Credited
<1>5. /\ Append(wire, Head(ring)) \in Seq(Records) /\ ring' \in Seq(Records)
      /\ Len(ring') = Len(ring) - 1
      /\ Spliced(Z, N, Stream(Ctx, Append(wire, Head(ring)), ring'),
                 Len(Append(wire, Head(ring))) + Len(ring'), 0, 0, 0)
      /\ Spliced(Z, N, Stream(Ctx, wire, ring'), Len(wire) + Len(ring'), Len(wire), 1, 0)
      /\ Z[Len(wire) + 1] = Head(ring) /\ Head(ring) \in Records
      BY <1>3, SendRecord DEF Z, N
<1>6. wire' \in Seq(Records) => Remembers
  <2>1. SUFFICES ASSUME wire' \in Seq(Records)  PROVE Remembers  OBVIOUS
  <2>2. Laid(Stream(Ctx, wire', ring'), Ctx, wire', ring')  BY <1>5, <2>1, StreamAt
  <2>3. Laid(Stream(Ctx, wire, ring), Ctx, wire, ring)  BY <1>3, StreamAt
  <2>4. Z'[0] = Ctx /\ Z[0] = Ctx  BY <1>3, <2>2, <2>3 DEF Laid, Z
  <2>5. QED  BY <1>1, <2>4 DEF Remembers
<1>7. Len(ring) \in Nat /\ Len(ring') \in Nat /\ Cap \in Nat /\ Len(ring') <= Cap
      BY <1>2, <1>3, <1>5, EventPathAssumption DEF TypeOK
<1>a. Stale'
  <2>1. Earned(ring, done) /\ Earned(spare, done)  BY RingEarned DEF IInv, Stale
  <2>2. Earned(Append(spare, Head(ring)), done')  BY <1>1, <1>3, <2>1, EarnedPieces
  <2>3. QED  BY <2>2, SpareKept DEF PumpOutbound
<1>8. CASE socket
  <2>1. wire' = Append(wire, Head(ring)) /\ UNCHANGED <<lost, replayed, blind>>
        BY <1>8 DEF PumpOutbound, lossVars
  <2>2. Spliced(Z, N, Z', N', 0, 0, 0)  BY <1>3, <1>5, <2>1 DEF Z, N
  <2>3. Lossy(Z, N, 0, 0)  BY <1>2, <2>1, LossyNone
  <2>4. Thinned(0, 0, 0)  BY <1>1, <2>2, <2>3 DEF Thinned
  <2>5. TypeOK'  BY <1>1, <1>2, <1>5, <1>7, <2>1 DEF TypeOK
  <2>6. QED  BY <1>4, <1>5, <1>6, <1>a, <2>1, <2>4, <2>5, ThinnedStep
<1>9. CASE ~socket
  <2>1. Lose(<<Head(ring)>>) /\ wire' = wire  BY <1>9 DEF PumpOutbound
  <2>2. Taken(Z, <<Head(ring)>>, Len(wire), 1)
    <3>1. <<Head(ring)>> \in Seq(Records) /\ Len(<<Head(ring)>>) = 1 /\ Len(wire) \in Nat
          BY <1>3, <1>5
    <3>2. \A i \in 1..1 : Z[Len(wire) + i] = <<Head(ring)>>[i]  BY <1>5
    <3>3. QED  BY <3>1, <3>2 DEF Taken
  <2>3. Lossy(Z, N, Len(wire), 1) /\ lost' \in 0..2 /\ blind' \in BOOLEAN /\ replayed' = replayed
        BY <1>2, <2>1, <2>2, LossyCut
  <2>4. Spliced(Z, N, Z', N', Len(wire), 1, 0)  BY <1>3, <1>5, <2>1 DEF Z, N
  <2>5. Thinned(Len(wire), 1, 0)  BY <1>1, <2>3, <2>4 DEF Thinned
  <2>6. TypeOK'  BY <1>1, <1>2, <1>5, <1>7, <2>1, <2>3 DEF TypeOK
  <2>7. QED  BY <1>3, <1>4, <1>6, <1>a, <2>1, <2>5, <2>6, ThinnedStep
<1>10. QED  BY <1>8, <1>9

\* The wire is cut: what was after k records is lost.
LEMMA WireIsCut ==
    ASSUME TypeOK, NEW k \in 0..Len(wire), wire' = SubSeq(wire, 1, k), ring' = ring
    PROVE  /\ Spliced(Z, N, Z', N', k, Len(wire) - k, 0) /\ wire' \in Seq(Records)
           /\ Taken(Z, SubSeq(wire, k + 1, Len(wire)), k, Len(wire) - k)
<1>1. /\ wire \in Seq(Records) /\ ring \in Seq(Records)
      /\ Ctx.t = "course_in" /\ Ctx'.t = "course_in"
      BY StreamOf
<1>2. /\ Spliced(Stream(Ctx, wire, ring), Len(wire) + Len(ring),
                 Stream(Ctx', SubSeq(wire, 1, k), ring), Len(SubSeq(wire, 1, k)) + Len(ring),
                 k, Len(wire) - k, 0)
      /\ SubSeq(wire, 1, k) \in Seq(Records)
      /\ Taken(Stream(Ctx, wire, ring), SubSeq(wire, k + 1, Len(wire)), k, Len(wire) - k)
      BY <1>1, CutWire
<1>3. Spliced(Z, N, Z', N', k, Len(wire) - k, 0)
  <2>1. Z' = Stream(Ctx', wire', ring) /\ N' = Len(wire') + Len(ring)  BY DEF Z, N
  <2>2. QED  BY <1>2, <2>1 DEF Z, N
<1>4. Taken(Z, SubSeq(wire, k + 1, Len(wire)), k, Len(wire) - k)  BY <1>2 DEF Z
<1>5. QED  BY <1>2, <1>3, <1>4

\* All of it, when the connection ends with the bridge or its address.
LEMMA WireIsGone ==
    ASSUME TypeOK, wire' = <<>>, ring' = ring, Lose(wire)
    PROVE  /\ Spliced(Z, N, Z', N', 0, Len(wire), 0)
           /\ Lossy(Z, N, 0, Len(wire))
           /\ lost' \in 0..2 /\ blind' \in BOOLEAN /\ replayed' = replayed
<1>1. wire \in Seq(Records) /\ Len(wire) \in Nat  BY StreamOf
<1>2. wire' = SubSeq(wire, 1, 0) /\ 0 \in 0..Len(wire)  BY <1>1
<1>3. SubSeq(wire, 0 + 1, Len(wire)) = wire  BY <1>1
<1>4. Len(wire) - 0 = Len(wire)  BY <1>1
<1>5. /\ Spliced(Z, N, Z', N', 0, Len(wire) - 0, 0)
      /\ Taken(Z, SubSeq(wire, 0 + 1, Len(wire)), 0, Len(wire) - 0)
      BY <1>2, WireIsCut
<1>6. Taken(Z, wire, 0, Len(wire))  BY <1>3, <1>4, <1>5
<1>7. QED  BY <1>4, <1>5, <1>6, LossyCut

\* A lost link takes the wire's records with it.
LEMMA StepDropLink ==
    ASSUME IInv, DropLink
    PROVE  IInv'
<1>1. /\ UNCHANGED <<ring, at, done, owed, paired, deaths, credited, told,
                     b, forgot, unlocked, up, advertised, target, conn, host_ip>>
      /\ socket' = FALSE
      BY DEF DropLink, gameVars, bridgeVars
<1>2. PICK k \in 0..Len(wire) :
        wire' = SubSeq(wire, 1, k) /\ Lose(SubSeq(wire, k + 1, Len(wire)))
      BY DEF DropLink
<1>3. TypeOK  BY DEF IInv
<1>4. /\ Spliced(Z, N, Z', N', k, Len(wire) - k, 0) /\ wire' \in Seq(Records)
      /\ Taken(Z, SubSeq(wire, k + 1, Len(wire)), k, Len(wire) - k)
      BY <1>1, <1>2, <1>3, WireIsCut
<1>5. /\ Lossy(Z, N, k, Len(wire) - k)
      /\ lost' \in 0..2 /\ blind' \in BOOLEAN /\ replayed' = replayed
      BY <1>2, <1>3, <1>4, LossyCut
<1>6. Thinned(k, Len(wire) - k, 0)  BY <1>1, <1>4, <1>5 DEF Thinned
<1>7. TypeOK'  BY <1>1, <1>3, <1>4, <1>5 DEF TypeOK
<1>8. Credited'  BY <1>1 DEF IInv, Credited
<1>9. Remembers
  <2>1. Laid(Z, Ctx, wire, ring) /\ Laid(Z', Ctx', wire', ring')
        BY <1>1, <1>3, <1>4, StreamOf, StreamAt DEF Z
  <2>2. Ctx' = Ctx  BY <1>1 DEF Ctx
  <2>3. QED  BY <1>1, <2>1, <2>2 DEF Laid, Remembers
<1>10. Stale'  BY <1>1, SpareKept DEF IInv, Stale, DropLink
<1>11. QED  BY <1>6, <1>7, <1>8, <1>9, <1>10, ThinnedStep

\* A renumbered host cuts the link as well.
LEMMA StepRenumber ==
    ASSUME IInv, Renumber
    PROVE  IInv'
<1>1. /\ UNCHANGED <<ring, at, done, owed, paired, deaths, credited, told,
                     b, forgot, unlocked, up, advertised, target, conn>>
      /\ socket' = FALSE /\ wire' = <<>> /\ Lose(wire) /\ host_ip' \in Hosts
      BY DEF Renumber, gameVars, bridgeVars
<1>2. TypeOK  BY DEF IInv
<1>3. /\ Spliced(Z, N, Z', N', 0, Len(wire), 0)
      /\ Lossy(Z, N, 0, Len(wire)) /\ lost' \in 0..2 /\ blind' \in BOOLEAN /\ replayed' = replayed
      BY <1>1, <1>2, WireIsGone
<1>4. Thinned(0, Len(wire), 0)  BY <1>1, <1>3 DEF Thinned
<1>5. wire' \in Seq(Records)  BY <1>1
<1>6. TypeOK'  BY <1>1, <1>2, <1>3, <1>5 DEF TypeOK
<1>7. Credited'  BY <1>1 DEF IInv, Credited
<1>8. Remembers
  <2>1. Laid(Z, Ctx, wire, ring) /\ Laid(Z', Ctx', wire', ring')
        BY <1>1, <1>2, <1>5, StreamOf, StreamAt DEF Z
  <2>2. Ctx' = Ctx  BY <1>1 DEF Ctx
  <2>3. QED  BY <1>1, <2>1, <2>2 DEF Laid, Remembers
<1>9. Stale'  BY <1>1, SpareKept DEF IInv, Stale, Renumber
<1>10. QED  BY <1>4, <1>6, <1>7, <1>8, <1>9, ThinnedStep

\* A bridge that exits takes the wire's records, and what it remembered.
LEMMA StepStop ==
    ASSUME IInv, Stop
    PROVE  IInv'
<1>1. /\ UNCHANGED <<ring, at, done, owed, paired, deaths, credited, told,
                     unlocked, target, conn, host_ip>>
      /\ socket' = FALSE /\ wire' = <<>> /\ Lose(wire) /\ up' = FALSE
      /\ forgot' = TRUE /\ b' = BridgeState0 /\ advertised' = None
      BY DEF Stop, gameVars
<1>2. TypeOK  BY DEF IInv
<1>3. /\ Spliced(Z, N, Z', N', 0, Len(wire), 0)
      /\ Lossy(Z, N, 0, Len(wire)) /\ lost' \in 0..2 /\ blind' \in BOOLEAN /\ replayed' = replayed
      BY <1>1, <1>2, WireIsGone
<1>4. Thinned(0, Len(wire), 0)  BY <1>1, <1>3 DEF Thinned
<1>5. wire' \in Seq(Records)  BY <1>1
<1>6. /\ b'.current_course = None /\ b'.chara = None /\ b'.death_count = 0
      /\ b'.unlocked_charas = {} /\ DOMAIN b' = DOMAIN BridgeState0
      /\ b'.emitted = {} /\ b'.goal_complete = FALSE
      BY <1>1 DEF BridgeState0
<1>7. TypeOK'
  <2>1. (/\ DOMAIN b = DOMAIN BridgeState0 /\ b.death_count \in Nat
         /\ b.current_course \in Stages \cup {None} /\ b.chara \in Charas \cup {None}
         /\ b.unlocked_charas \subseteq unlocked)'
        BY <1>6
  <2>2. up' \in BOOLEAN /\ socket' \in BOOLEAN /\ forgot' \in BOOLEAN  BY <1>1
  <2>3. QED  BY <1>1, <1>2, <1>3, <1>5, <2>1, <2>2 DEF TypeOK
<1>8. Credited'  BY <1>6 DEF Credited
<1>9. Remembers
  <2>1. Laid(Z', Ctx', wire', ring')
        BY <1>1, <1>2, <1>5, StreamOf, StreamAt DEF Z
  <2>2. Ctx'.stage = None /\ Ctx'.chara = None  BY <1>6 DEF Ctx
  <2>3. QED  BY <1>1, <2>1, <2>2 DEF Laid, Remembers
<1>10. Stale'  BY <1>1, SpareKept DEF IInv, Stale, Stop
<1>11. QED  BY <1>4, <1>7, <1>8, <1>9, <1>10, ThinnedStep

\* Pushes that overlap cut the ring.
LEMMA StepOverlapLoses ==
    ASSUME IInv, OverlapLoses
    PROVE  IInv'
<1>1. UNCHANGED <<wire, at, done, owed, paired, deaths, credited, told, b, forgot, unlocked,
                  up, advertised, target, conn, socket, host_ip>>
      BY DEF OverlapLoses, gameVars, netVars, bridgeVars
<1>2. TypeOK  BY DEF IInv
<1>3. /\ wire \in Seq(Records) /\ ring \in Seq(Records) /\ Len(ring) <= Cap
      /\ Ctx.t = "course_in" /\ Ctx' = Ctx
      BY <1>1, <1>2, StreamOf DEF Ctx, TypeOK
<1>4. PICK k \in 0..(Len(ring) - 1) :
        /\ ring' = SubSeq(ring, 1, k) /\ Lose(SubSeq(ring, k + 1, Len(ring)))
        /\ Spare(SubSeq(ring, k + 1, Len(ring)) \o spare)
      BY DEF OverlapLoses
<1>5. k \in 0..Len(ring) /\ k <= Cap  BY <1>3, <1>4, EventPathAssumption
<1>6. /\ Spliced(Stream(Ctx, wire, ring), Len(wire) + Len(ring),
                 Stream(Ctx, wire, ring'), Len(wire) + Len(ring'),
                 Len(wire) + k, Len(ring) - k, 0)
      /\ ring' \in Seq(Records) /\ Len(ring') = k
      /\ Taken(Z, SubSeq(ring, k + 1, Len(ring)), Len(wire) + k, Len(ring) - k)
      BY <1>3, <1>4, <1>5, CutRing DEF Z
<1>7. Spliced(Z, N, Z', N', Len(wire) + k, Len(ring) - k, 0)
  <2>1. Z' = Stream(Ctx, wire, ring') /\ N' = Len(wire) + Len(ring')
        BY <1>1, <1>3 DEF Z, N
  <2>2. QED  BY <1>6, <2>1 DEF Z, N
<1>8. /\ Lossy(Z, N, Len(wire) + k, Len(ring) - k)
      /\ lost' \in 0..2 /\ blind' \in BOOLEAN /\ replayed' = replayed
      BY <1>2, <1>4, <1>6, LossyCut
<1>9. Thinned(Len(wire) + k, Len(ring) - k, 0)  BY <1>1, <1>7, <1>8 DEF Thinned
<1>10. TypeOK'  BY <1>1, <1>2, <1>5, <1>6, <1>8 DEF TypeOK
<1>11. Credited'  BY <1>1 DEF IInv, Credited
<1>12. Remembers
  <2>1. Laid(Z, Ctx, wire, ring) /\ Laid(Z', Ctx', wire', ring')
        BY <1>1, <1>3, <1>6, StreamAt DEF Z
  <2>2. QED  BY <1>1, <1>3, <2>1 DEF Laid, Remembers
<1>13. Stale'
  <2>1. Earned(ring, done) /\ Earned(spare, done)  BY RingEarned DEF IInv, Stale
  <2>2. k + 1 \in 1..(Len(ring) + 1) /\ Len(ring) \in 0..Len(ring)  BY <1>3, <1>5
  <2>3. Earned(SubSeq(ring, k + 1, Len(ring)), done)  BY <2>1, <2>2, EarnedPieces
  <2>4. Earned(SubSeq(ring, k + 1, Len(ring)) \o spare, done')
        BY <1>1, <2>1, <2>3, EarnedPieces
  <2>5. QED  BY <1>4, <2>4, SpareKept
<1>14. QED  BY <1>9, <1>10, <1>11, <1>12, <1>13, ThinnedStep

\* They put records again that were sent: each was earned, and what the
\* bridge attributes is excused from then on.
LEMMA StepOverlapReplays ==
    ASSUME IInv, OverlapReplays
    PROVE  IInv'
<1>1. /\ UNCHANGED <<wire, at, done, owed, paired, deaths, credited, told, b, unlocked, lost,
                     up, advertised, target, conn, socket, host_ip>>
      /\ replayed' = TRUE /\ blind' = TRUE /\ forgot' = TRUE
      BY DEF OverlapReplays, gameVars, netVars
<1>2. TypeOK /\ SoundInv /\ CompleteInv /\ PairedInv /\ Stale  BY DEF IInv
<1>3. /\ wire \in Seq(Records) /\ ring \in Seq(Records) /\ Ctx' = Ctx
      BY <1>1, <1>2, StreamOf DEF Ctx
<1>4. PICK k \in 1..Len(spare) :
        /\ Len(ring) + k <= Cap /\ ring' = ring \o SubSeq(spare, 1, k)
        /\ Spare(SubSeq(spare, k + 1, Len(spare)))
      BY DEF OverlapReplays
<1> DEFINE s == SubSeq(spare, 1, k)
<1>5. s \in Seq(Records) /\ Len(s) = k /\ k \in Nat
      /\ \A i \in 1..k : Sure(s[i]) \subseteq done
  <2>1. Earned(spare, done) /\ spare \in Seq(Records) /\ Len(spare) \in Nat
        BY <1>2 DEF Stale, Earned
  <2>2. 1 \in 1..(Len(spare) + 1) /\ k \in 0..Len(spare) /\ k \in Nat  BY <1>4, <2>1
  <2>3. Len(s) = k  BY <2>1, <2>2
  <2>4. Earned(s, done)  BY <2>1, <2>2, EarnedPieces
  <2>5. QED  BY <2>2, <2>3, <2>4 DEF Earned
<1> HIDE DEF s
<1>6. /\ ring' \in Seq(Records) /\ Len(ring') = Len(ring) + k
      /\ \A i \in 0..N : Z'[i] = Z[i]
      /\ \A i \in 1..k : Z'[N + i] = s[i]
  <2>1. ring' = ring \o s  BY <1>4 DEF s
  <2>2. Z' = Stream(Ctx, wire, ring \o s)  BY <1>1, <1>3, <2>1 DEF Z
  <2>3. /\ ring \o s \in Seq(Records) /\ Len(ring \o s) = Len(ring) + Len(s)
        /\ Longer(Stream(Ctx, wire, ring), Len(wire) + Len(ring),
                  Stream(Ctx, wire, ring \o s), s)
        BY <1>3, <1>5, AddToRing
  <2>4. Z = Stream(Ctx, wire, ring) /\ N = Len(wire) + Len(ring)  BY DEF Z, N
  <2>5. ring' \in Seq(Records) /\ Len(ring') = Len(ring) + k  BY <1>5, <2>1, <2>3, Zenon
  <2>6. Longer(Z, N, Z', s)  BY <2>2, <2>3, <2>4, Zenon
  <2>7. QED  BY <1>5, <2>5, <2>6 DEF Longer
<1>7. N \in Nat /\ N' = N + k
  <2>1. Len(wire) \in Nat /\ Len(ring) \in Nat  BY <1>3
  <2>2. QED  BY <1>1, <1>5, <1>6, <2>1 DEF N
<1>8. \A i \in 1..N : i \in 1..N' /\ Z'[i] = Z[i]  BY <1>5, <1>6, <1>7
<1>9. TypeOK'
  <2>1. Len(ring') <= Cap  BY <1>4, <1>6
  <2>2. QED  BY <1>1, <1>2, <1>6, <2>1 DEF TypeOK
<1>10. Credited' /\ Reported'  BY <1>1 DEF IInv, Credited, Reported
<1>11. SoundInv'
  <2>1. Justified(Z, N)'
    <3>1. SUFFICES ASSUME NEW i \in 1..N'  PROVE Sure(Z'[i]) \subseteq done
          BY <1>1 DEF Justified
    <3>2. CASE i \in 1..N  BY <1>2, <1>8, <3>2 DEF SoundInv, Justified
    <3>3. CASE i \notin 1..N
      <4>1. i - N \in 1..k /\ N + (i - N) = i  BY <1>5, <1>7, <3>3
      <4>2. QED  BY <1>5, <1>6, <4>1
    <3>4. QED  BY <3>2, <3>3
  <2>2. QED  BY <1>1, <1>2, <2>1 DEF SoundInv
<1>12. CompleteInv'
  <2>1. SUFFICES ASSUME lost = 0
                 PROVE  /\ told' + Cardinality(Deaths(Z, N))' >= deaths'
                        /\ \A c \in owed' \ credited' : Carried(Z, N, c)'
        BY <1>1 DEF CompleteInv
  <2>2. told + Cardinality(Deaths(Z, N)) >= deaths /\ \A c \in owed \ credited : Carried(Z, N, c)
        BY <1>2, <2>1 DEF CompleteInv
  <2>3. told' + Cardinality(Deaths(Z, N))' >= deaths'
    <3>1. Deaths(Z, N) \in SUBSET Deaths(Z', N')  BY <1>8 DEF Deaths
    <3>2. N' \in Nat  BY <1>5, <1>7
    <3>3. /\ IsFiniteSet(Deaths(Z', N')) /\ Cardinality(Deaths(Z', N')) \in Nat
          /\ Cardinality(Deaths(Z, N)) \in Nat
          BY <1>7, <3>2, DeathsFinite
    <3>4. Cardinality(Deaths(Z, N)) <= Cardinality(Deaths(Z', N'))  BY <3>1, <3>3, FS_Subset
    <3>5. Cardinality(Deaths(Z, N))' = Cardinality(Deaths(Z', N'))  BY DEF Deaths
    <3>6. told \in Nat /\ deaths \in Nat  BY <1>2 DEF TypeOK
    <3>7. QED  BY <1>1, <2>2, <3>3, <3>4, <3>5, <3>6
  <2>4. ASSUME NEW c \in owed \ credited  PROVE Carried(Z, N, c)'
    <3>1. Carried(Z, N, c)  BY <2>2, <2>4
    <3>2. CASE \E j \in 1..N : c \in Sure(Z[j])  BY <1>8, <3>2 DEF Carried
    <3>3. CASE c[1] \in {"wonder_seed", "character_block"}  BY <1>1, <3>3 DEF Carried
    <3>4. QED  BY <3>1, <3>2, <3>3, CourseKinds DEF Carried
  <2>5. QED  BY <1>1, <2>3, <2>4
<1>13. PairedInv'
  <2>1. SUFFICES ASSUME NEW c \in paired \ credited  PROVE Twice(Z, N, c)'
        BY <1>1 DEF PairedInv
  <2>2. Twice(Z, N, c)  BY <1>2, <2>1 DEF PairedInv
  <2>3. QED  BY <1>1, <1>8, <2>2 DEF Twice
<1>14. Stale'
  <2>1. Earned(spare, done) /\ Len(spare) \in Nat  BY <1>2 DEF Stale, Earned
  <2>2. k + 1 \in 1..(Len(spare) + 1) /\ Len(spare) \in 0..Len(spare)  BY <1>4, <2>1
  <2>3. Earned(SubSeq(spare, k + 1, Len(spare)), done')
        BY <1>1, <2>1, <2>2, EarnedPieces
  <2>4. QED  BY <1>4, <2>3, SpareKept
<1>15. QED  BY <1>9, <1>10, <1>11, <1>12, <1>13, <1>14 DEF IInv

-----------------------------------------------------------------------------
(* The processor eats the first record. *)

Gained(r) == Sure(r) \cup ByCourse(Ctx, r, b.unlocked_charas)

\* What the processor makes of a record: the checks it gains are those of the
\* record by itself and those of the record in the course it remembers.
LEMMA ChecksGained ==
    ASSUME NEW r \in Records
    PROVE  /\ ChecksOf(b, r) \subseteq Gained(r)
           /\ Gained(r) = ChecksOf(b, r) \cup (IF r.t = "game_goal_reached" THEN {Goal} ELSE {})
<1>1. CASE r.t = "wonder_seed_awarded"
  <2>1. ChecksOf(b, r) = SeedChecks(b) /\ Sure(r) = {}  BY <1>1 DEF ChecksOf, Sure
  <2>2. SeedChecks(b) = ByCourse(Ctx, r, b.unlocked_charas)
        BY <1>1 DEF SeedChecks, ByCourse, Ctx
  <2>3. QED  BY <1>1, <2>1, <2>2 DEF Gained
<1>2. CASE r.t = "char_block_hit"
  <2>1. ChecksOf(b, r) = BlockChecks(b, r.chara) /\ Sure(r) = {}
        BY <1>2 DEF ChecksOf, Sure
  <2>2. BlockChecks(b, r.chara) = ByCourse(Ctx, r, b.unlocked_charas)
        BY <1>2 DEF BlockChecks, ByCourse, Ctx
  <2>3. QED  BY <1>2, <2>1, <2>2 DEF Gained
<1>3. CASE r.t \in {"course_result", "koopajr_result", "badge_acquired", "general_shop_result"}
  <2>1. ChecksOf(b, r) = Sure(r)  BY <1>3 DEF ChecksOf, Sure
  <2>2. ByCourse(Ctx, r, b.unlocked_charas) = {}  BY <1>3 DEF ByCourse
  <2>3. QED  BY <1>3, <2>1, <2>2 DEF Gained
<1>4. CASE r.t \in {"hello", "course_in", "death_detected", "game_goal_reached"}
  <2>1. ChecksOf(b, r) = {} /\ ByCourse(Ctx, r, b.unlocked_charas) = {}
        BY <1>4 DEF ChecksOf, ByCourse
  <2>2. Sure(r) = IF r.t = "game_goal_reached" THEN {Goal} ELSE {}  BY <1>4 DEF Sure
  <2>3. QED  BY <2>1, <2>2 DEF Gained
<1>5. QED  BY <1>1, <1>2, <1>3, <1>4 DEF Records

\* What process_event does with the first record of the wire.
LEMMA Dispatched ==
    ASSUME TypeOK, Credited, Dispatch
    PROVE  LET r == Head(wire)
           IN /\ DOMAIN b' = DOMAIN BridgeState0
              /\ b'.current_course = IF r.t = "course_in" THEN r.stage ELSE b.current_course
              /\ b'.chara = IF r.t = "course_in" THEN r.chara ELSE b.chara
              /\ b'.unlocked_charas = b.unlocked_charas
              /\ b'.death_count = b.death_count + (IF r.t = "death_detected" THEN 1 ELSE 0)
              /\ credited' = credited \cup Gained(r)
              /\ Credited'
<1> DEFINE r == Head(wire)
<1>1. r \in Records  BY DEF TypeOK, Dispatch
<1>2. DOMAIN b = DOMAIN BridgeState0  BY DEF TypeOK
<1>3. credited' = credited \cup b'.emitted \cup (IF b'.goal_complete THEN {Goal} ELSE {})
      BY DEF Dispatch, Goal
<1>4. b' = IF r.t = "hello" THEN [b EXCEPT !.in_course = FALSE] ELSE Process(b, r)
      BY DEF Dispatch
<1>5. b.death_count \in Nat  BY DEF TypeOK
<1> HIDE DEF r
<1>6. CASE r.t = "hello"
  <2>1. b' = [b EXCEPT !.in_course = FALSE]  BY <1>4, <1>6
  <2>2. /\ DOMAIN b' = DOMAIN b /\ b'.current_course = b.current_course
        /\ b'.chara = b.chara /\ b'.unlocked_charas = b.unlocked_charas
        /\ b'.death_count = b.death_count
        /\ b'.emitted = b.emitted /\ b'.goal_complete = b.goal_complete
        BY <1>2, <2>1 DEF BridgeState0
  <2>3. Gained(r) = {}  BY <1>6, HelloIsEmpty DEF Gained
  <2>4. credited' = credited  BY <1>3, <2>2 DEF Credited
  <2>5. QED  BY <1>2, <1>5, <1>6, <2>2, <2>3, <2>4 DEF Credited, r
<1>7. CASE r.t # "hello"
  <2>1. b' = Process(b, r)  BY <1>4, <1>7
  <2>2. DOMAIN b' = DOMAIN b  BY <2>1 DEF Process
  <2>3. /\ b'.current_course = IF r.t = "course_in" THEN r.stage ELSE b.current_course
        /\ b'.chara = IF r.t = "course_in" THEN r.chara ELSE b.chara
        /\ b'.unlocked_charas = b.unlocked_charas
        BY <1>2, <2>1 DEF Process, BridgeState0
  <2>4. b'.death_count = b.death_count + (IF r.t = "death_detected" THEN 1 ELSE 0)
        BY <1>2, <1>5, <2>1 DEF Process, BridgeState0
  <2>5. b'.emitted = b.emitted \cup ChecksOf(b, r)
        BY <1>2, <2>1 DEF Process, BridgeState0
  <2>6. b'.goal_complete = (b.goal_complete \/ r.t = "game_goal_reached")
        BY <1>2, <2>1 DEF Process, BridgeState0
  <2>7. Gained(r) = ChecksOf(b, r) \cup (IF r.t = "game_goal_reached" THEN {Goal} ELSE {})
        BY <1>1, ChecksGained
  <2>8. credited' = credited \cup Gained(r)
        BY <1>3, <2>5, <2>6, <2>7 DEF Credited
  <2>9. Credited'  BY <1>3 DEF Credited
  <2>10. QED  BY <1>2, <2>2, <2>3, <2>4, <2>8, <2>9 DEF r
<1>8. QED  BY <1>6, <1>7

\* z2 is z without its first record, which the processor remembers if it is
\* a course_in.
Eaten(z, n, z2, n2) ==
    /\ n \in Nat /\ n >= 1 /\ n2 = n - 1
    /\ \A i \in 1..n2 : z2[i] = z[i + 1]
    /\ z[0].t = "course_in" /\ z2[0] = IF z[1].t = "course_in" THEN z[1] ELSE z[0]

Follows(z, n, i, j, z2, n2) ==
    \E i2 \in 0..n2, j2 \in 1..(n2 + 1) :
      /\ Last(z2, i2, j2) /\ z2[i2] = z[i]
      /\ (j = n + 1 <=> j2 = n2 + 1) /\ (j # n + 1 => z2[j2] = z[j])

\* A record belongs to the same course after the first one is eaten.
LEMMA EatenForth ==
    ASSUME NEW z, NEW n, NEW z2, NEW n2, Eaten(z, n, z2, n2)
    PROVE  \A i \in 0..n, j \in 2..(n + 1) : Last(z, i, j) => Follows(z, n, i, j, z2, n2)
<1>0. n \in Nat /\ n >= 1 /\ n2 = n - 1  BY DEF Eaten
<1>1. SUFFICES ASSUME NEW i \in 0..n, NEW j \in 2..(n + 1), Last(z, i, j)
               PROVE  Follows(z, n, i, j, z2, n2)
      OBVIOUS
<1>2. i < j /\ z[i].t = "course_in" /\ \A k \in (i + 1)..(j - 1) : z[k].t # "course_in"
      BY <1>1 DEF Last
<1>3. i = 0 => z[1].t # "course_in"  BY <1>0, <1>2
<1>4. i = 1 => z[1].t = "course_in"  BY <1>2
<1> DEFINE i2 == IF i = 0 THEN 0 ELSE i - 1
           j2 == j - 1
<1>5. i2 \in 0..n2 /\ j2 \in 1..(n2 + 1) /\ i2 < j2  BY <1>0, <1>2
<1>6. z2[i2] = z[i]
  <2>1. CASE i \in {0, 1}  BY <1>3, <1>4, <2>1 DEF Eaten
  <2>2. CASE i \notin {0, 1}
    <3>1. i2 \in 1..n2 /\ i2 + 1 = i  BY <1>0, <2>2
    <3> HIDE DEF i2
    <3>2. QED  BY <3>1 DEF Eaten
  <2>3. QED  BY <2>1, <2>2
<1>7. \A k \in (i2 + 1)..(j2 - 1) : z2[k].t # "course_in"
  <2>1. SUFFICES ASSUME NEW k \in (i2 + 1)..(j2 - 1)  PROVE z2[k].t # "course_in"
        OBVIOUS
  <2>2. k \in 1..n2 /\ k + 1 \in (i + 1)..(j - 1)  BY <1>0
  <2>3. z2[k] = z[k + 1]  BY <2>2 DEF Eaten
  <2>4. QED  BY <1>2, <2>2, <2>3
<1>8. (j = n + 1 <=> j2 = n2 + 1) /\ (j # n + 1 => z2[j2] = z[j])
  <2>1. j = n + 1 <=> j2 = n2 + 1  BY <1>0
  <2>2. j # n + 1 => j2 \in 1..n2 /\ j2 + 1 = j  BY <1>0
  <2> HIDE DEF j2
  <2>3. j # n + 1 => z2[j2] = z[j]  BY <2>2 DEF Eaten
  <2>4. QED  BY <2>1, <2>3
<1> HIDE DEF i2, j2
<1>9. Last(z2, i2, j2)  BY <1>2, <1>5, <1>6, <1>7 DEF Last
<1>10. QED  BY <1>5, <1>6, <1>8, <1>9 DEF Follows

\* And it belonged to it before.
LEMMA EatenBack ==
    ASSUME NEW z, NEW n, NEW z2, NEW n2, Eaten(z, n, z2, n2)
    PROVE  \A i \in 0..n2, j \in 1..(n2 + 1) : Last(z2, i, j) => Follows(z2, n2, i, j, z, n)
<1>0. n \in Nat /\ n >= 1 /\ n2 = n - 1  BY DEF Eaten
<1>1. SUFFICES ASSUME NEW i \in 0..n2, NEW j \in 1..(n2 + 1), Last(z2, i, j)
               PROVE  Follows(z2, n2, i, j, z, n)
      OBVIOUS
<1>2. i < j /\ z2[i].t = "course_in" /\ \A k \in (i + 1)..(j - 1) : z2[k].t # "course_in"
      BY <1>1 DEF Last
<1> DEFINE i0 == IF i = 0 /\ z[1].t # "course_in" THEN 0 ELSE i + 1
           j0 == j + 1
<1>3. i0 \in 0..n /\ j0 \in 1..(n + 1) /\ i0 < j0  BY <1>0, <1>2
<1>4. z[i0] = z2[i]
  <2>1. CASE i = 0  BY <2>1 DEF Eaten
  <2>2. CASE i # 0
    <3>1. i \in 1..n2 /\ i0 = i + 1  BY <1>0, <2>2
    <3> HIDE DEF i0
    <3>2. QED  BY <3>1 DEF Eaten
  <2>3. QED  BY <2>1, <2>2
<1>5. \A k \in (i0 + 1)..(j0 - 1) : z[k].t # "course_in"
  <2>1. SUFFICES ASSUME NEW k \in (i0 + 1)..(j0 - 1)  PROVE z[k].t # "course_in"
        OBVIOUS
  <2>2. CASE k = 1  BY <2>2
  <2>3. CASE k # 1
    <3>1. k - 1 \in 1..n2 /\ k - 1 \in (i + 1)..(j - 1) /\ (k - 1) + 1 = k
          BY <1>0, <2>3
    <3>2. z2[k - 1] = z[k]  BY <3>1 DEF Eaten
    <3>3. QED  BY <1>2, <3>1, <3>2
  <2>4. QED  BY <2>2, <2>3
<1>6. (j = n2 + 1 <=> j0 = n + 1) /\ (j # n2 + 1 => z[j0] = z2[j])
  <2>1. j = n2 + 1 <=> j0 = n + 1  BY <1>0
  <2>2. j # n2 + 1 => j \in 1..n2  BY <1>0
  <2>3. j # n2 + 1 => z[j0] = z2[j]  BY <2>2 DEF Eaten
  <2>4. QED  BY <2>1, <2>3
<1> HIDE DEF i0, j0
<1>7. Last(z, i0, j0)  BY <1>2, <1>3, <1>4, <1>5 DEF Last
<1>8. QED  BY <1>3, <1>4, <1>6, <1>7 DEF Follows

Ate ==
    /\ Eaten(Z, N, Z', N') /\ Spliced(Z, N, Z', N', 0, 1, 0) /\ Z[0] = Ctx
    /\ credited' = credited \cup Gained(Z[1])
    /\ told' = told + (IF Z[1].t = "death_detected" THEN 1 ELSE 0)
    /\ b'.unlocked_charas = b.unlocked_charas
    /\ UNCHANGED <<at, done, owed, paired, deaths, lost, replayed, blind, forgot>>

\* The dispatch of a record eats the stream's first.
LEMMA DispatchEats ==
    ASSUME IInv, Dispatch
    PROVE  Ate /\ TypeOK' /\ Credited'
<1> DEFINE r == Head(wire)
<1>1. TypeOK /\ Credited  BY DEF IInv
<1>2. /\ wire # <<>> /\ wire' = Tail(wire)
      /\ UNCHANGED <<at, done, owed, paired, deaths, lost, replayed, blind, forgot, ring, conn,
                     target, socket, up, advertised, unlocked, host_ip>>
      /\ told' = told + (b'.death_count - b.death_count)
      BY DEF Dispatch, gameVars, netVars, lossVars
<1>3. /\ wire \in Seq(Records) /\ ring \in Seq(Records)
      /\ Ctx.t = "course_in" /\ Ctx'.t = "course_in"
      BY <1>1, StreamOf
<1>4. /\ wire' \in Seq(Records) /\ Z[1] = r /\ r \in Records
      /\ Spliced(Z, N, Z', N', 0, 1, 0)
  <2>1. Z' = Stream(Ctx', Tail(wire), ring) /\ N' = Len(Tail(wire)) + Len(ring)
        BY <1>2 DEF Z, N
  <2>2. QED  BY <1>2, <1>3, <2>1, EatRecord DEF Z, N
<1>5. /\ DOMAIN b' = DOMAIN BridgeState0
      /\ b'.current_course = IF r.t = "course_in" THEN r.stage ELSE b.current_course
      /\ b'.chara = IF r.t = "course_in" THEN r.chara ELSE b.chara
      /\ b'.unlocked_charas = b.unlocked_charas
      /\ b'.death_count = b.death_count + (IF r.t = "death_detected" THEN 1 ELSE 0)
      /\ credited' = credited \cup Gained(r)
      /\ Credited'
      BY <1>1, Dispatched
<1> HIDE DEF r
<1>6. told' = told + (IF r.t = "death_detected" THEN 1 ELSE 0)
      /\ told' \in Nat /\ b'.death_count \in Nat
      BY <1>1, <1>2, <1>5 DEF TypeOK
<1>7. r.t = "course_in" => /\ r.stage \in Stages /\ r.chara \in Charas \cup {None}
                           /\ r = [t |-> "course_in", stage |-> r.stage, chara |-> r.chara]
      BY <1>4 DEF Records
<1>8. Z[0] = Ctx /\ Z'[0] = Ctx'
  <2>1. Laid(Z, Ctx, wire, ring) /\ Laid(Z', Ctx', wire', ring')
        BY <1>2, <1>3, <1>4, StreamAt DEF Z
  <2>2. QED  BY <2>1 DEF Laid
<1>9. Eaten(Z, N, Z', N')
  <2>1. N \in Nat /\ N >= 1 /\ N' = N - 1  BY <1>4 DEF Spliced
  <2>2. \A i \in 1..N' : Z'[i] = Z[i + 1]
    <3>1. \A i \in (0 + 0 + 1)..N' : Z'[i] = Z[i - 0 + 1]  BY <1>4 DEF Spliced
    <3>2. QED  BY <2>1, <3>1
  <2>3. Z'[0] = IF Z[1].t = "course_in" THEN Z[1] ELSE Z[0]
        BY <1>4, <1>5, <1>7, <1>8 DEF Ctx
  <2>4. QED  BY <1>3, <1>8, <2>1, <2>2, <2>3 DEF Eaten
<1>10. TypeOK'
  <2>1. b'.current_course \in Stages \cup {None} /\ b'.chara \in Charas \cup {None}
        BY <1>1, <1>5, <1>7 DEF TypeOK
  <2>2. b'.unlocked_charas \subseteq unlocked'  BY <1>1, <1>2, <1>5 DEF TypeOK
  <2>3. QED  BY <1>1, <1>2, <1>4, <1>5, <1>6, <2>1, <2>2 DEF TypeOK
<1>11. QED  BY <1>2, <1>4, <1>5, <1>6, <1>8, <1>9, <1>10 DEF Ate

\* What is credited for the eaten record was earned.
LEMMA EatenSound ==
    ASSUME IInv, Ate
    PROVE  SoundInv'
<1>0. /\ Eaten(Z, N, Z', N') /\ Spliced(Z, N, Z', N', 0, 1, 0) /\ Z[0] = Ctx
      /\ credited' = credited \cup Gained(Z[1])
      /\ told' = told + (IF Z[1].t = "death_detected" THEN 1 ELSE 0)
      /\ UNCHANGED <<at, done, owed, paired, deaths, lost, replayed, blind, forgot>>
      BY DEF Ate
<1>1. SoundInv /\ told \in Nat /\ deaths \in Nat /\ b.unlocked_charas \subseteq Charas
      BY DEF IInv, TypeOK
<1>2. N \in Nat /\ N >= 1 /\ N' = N - 1 /\ \A i \in 1..N' : Z'[i] = Z[i + 1]
      BY <1>0 DEF Eaten
<1>3. Justified(Z, N)'
      BY <1>0, <1>1, <1>2 DEF SoundInv, Justified
<1>4. \A i \in 0..N', j \in 1..(N' + 1) : Last(Z', i, j) => Follows(Z', N', i, j, Z, N)
      BY <1>0, EatenBack
<1>5. ASSUME ~blind'  PROVE Attributed(Z, N)' /\ Visiting(Z, N)'
  <2>1. Attributed(Z, N) /\ Visiting(Z, N)  BY <1>0, <1>1, <1>5 DEF SoundInv
  <2>2. Attributed(Z, N)'
    <3>1. SUFFICES ASSUME NEW i \in 0..N', NEW j \in 1..N', Last(Z', i, j)
                   PROVE  ByCourse(Z'[i], Z'[j], Charas) \subseteq done'
          BY DEF Attributed
    <3>2. j \in 1..(N' + 1) /\ j # N' + 1  BY <1>2
    <3>3. Follows(Z', N', i, j, Z, N)  BY <1>4, <3>1, <3>2
    <3>4. PICK i0 \in 0..N, j0 \in 1..(N + 1) :
            Last(Z, i0, j0) /\ Z[i0] = Z'[i] /\ j0 # N + 1 /\ Z[j0] = Z'[j]
          BY <3>2, <3>3 DEF Follows
    <3>5. j0 \in 1..N  BY <1>2, <3>4
    <3>6. ByCourse(Z[i0], Z[j0], Charas) \subseteq done  BY <2>1, <3>4, <3>5 DEF Attributed
    <3>7. QED  BY <1>0, <3>4, <3>6
  <2>3. Visiting(Z, N)'
    <3>1. SUFFICES ASSUME at # None, NEW i \in 0..N', Last(Z', i, N' + 1)
                   PROVE  /\ Z'[i].stage \in {None, at.stage}
                          /\ Z'[i].chara \in {None, at.chara}
          BY <1>0 DEF Visiting
    <3>2. N' + 1 \in 1..(N' + 1)  BY <1>2
    <3>3. Follows(Z', N', i, N' + 1, Z, N)  BY <1>4, <3>1, <3>2
    <3>4. PICK i0 \in 0..N : Last(Z, i0, N + 1) /\ Z[i0] = Z'[i]
          BY <3>3 DEF Follows
    <3>5. QED  BY <2>1, <3>1, <3>4 DEF Visiting
  <2>4. QED  BY <2>2, <2>3
<1>6. replayed' \/ told' + Cardinality(Deaths(Z, N))' <= deaths'
  <2>1. Cardinality(Deaths(Z, N)) =
          Cardinality(Deaths(Z', N')) + (IF Z[1].t = "death_detected" THEN 1 ELSE 0)
        BY <1>0, EatCount
  <2>2. Cardinality(Deaths(Z', N')) \in Nat  BY <1>0, SpliceCount
  <2>3. Cardinality(Deaths(Z, N))' = Cardinality(Deaths(Z', N'))  BY DEF Deaths
  <2>4. replayed \/ told + Cardinality(Deaths(Z, N)) <= deaths  BY <1>1 DEF SoundInv
  <2>5. QED  BY <1>0, <1>1, <2>1, <2>2, <2>3, <2>4
<1>7. ASSUME NEW c \in credited' \ done'
      PROVE  blind' /\ c[1] \in {"wonder_seed", "character_block"}
  <2>1. CASE c \in credited  BY <1>0, <1>1, <1>7, <2>1 DEF SoundInv
  <2>2. CASE c \in Sure(Z[1])
    <3>1. 1 \in 1..N  BY <1>2
    <3>2. QED  BY <1>0, <1>1, <1>7, <2>2, <3>1 DEF SoundInv, Justified
  <2>3. CASE c \in ByCourse(Ctx, Z[1], b.unlocked_charas)
    <3>1. c[1] \in {"wonder_seed", "character_block"} /\ c \in ByCourse(Ctx, Z[1], Charas)
          BY <1>1, <2>3, CourseKinds
    <3>2. Last(Z, 0, 1) /\ 0 \in 0..N /\ 1 \in 1..N  BY <1>0, <1>2 DEF Last, Eaten
    <3>3. ~blind => c \in done  BY <1>0, <1>1, <3>1, <3>2 DEF SoundInv, Attributed
    <3>4. QED  BY <1>0, <1>7, <3>1, <3>3
  <2>4. QED  BY <1>0, <1>7, <2>1, <2>2, <2>3 DEF Gained
<1>8. QED  BY <1>3, <1>5, <1>6, <1>7 DEF SoundInv

\* What the eaten record carried is credited now, or was before.
LEMMA EatenComplete ==
    ASSUME IInv, Ate
    PROVE  CompleteInv'
<1>0. /\ Eaten(Z, N, Z', N') /\ Spliced(Z, N, Z', N', 0, 1, 0) /\ Z[0] = Ctx
      /\ credited' = credited \cup Gained(Z[1])
      /\ told' = told + (IF Z[1].t = "death_detected" THEN 1 ELSE 0)
      /\ b'.unlocked_charas = b.unlocked_charas
      /\ UNCHANGED <<at, done, owed, paired, deaths, lost, replayed, blind, forgot>>
      BY DEF Ate
<1>1. SUFFICES ASSUME lost = 0
               PROVE  /\ told' + Cardinality(Deaths(Z, N))' >= deaths'
                      /\ \A c \in owed' \ credited' : Carried(Z, N, c)'
                      /\ ~forgot' => InCourse(Z, N)'
      BY <1>0 DEF CompleteInv
<1>2. /\ told + Cardinality(Deaths(Z, N)) >= deaths
      /\ \A c \in owed \ credited : Carried(Z, N, c)
      /\ ~forgot => InCourse(Z, N)
      BY <1>1 DEF IInv, CompleteInv
<1>3. told \in Nat /\ deaths \in Nat  BY DEF IInv, TypeOK
<1>4. N \in Nat /\ N >= 1 /\ N' = N - 1 /\ \A i \in 1..N' : Z'[i] = Z[i + 1]
      BY <1>0 DEF Eaten
<1>5. \A i \in 0..N, j \in 2..(N + 1) : Last(Z, i, j) => Follows(Z, N, i, j, Z', N')
      BY <1>0, EatenForth
<1>6. told' + Cardinality(Deaths(Z, N))' >= deaths'
  <2>1. Cardinality(Deaths(Z, N)) =
          Cardinality(Deaths(Z', N')) + (IF Z[1].t = "death_detected" THEN 1 ELSE 0)
        BY <1>0, EatCount
  <2>2. Cardinality(Deaths(Z', N')) \in Nat  BY <1>0, SpliceCount
  <2>3. Cardinality(Deaths(Z, N))' = Cardinality(Deaths(Z', N'))  BY DEF Deaths
  <2>4. QED  BY <1>0, <1>2, <1>3, <2>1, <2>2, <2>3
<1>7. ASSUME NEW c \in owed' \ credited'  PROVE Carried(Z, N, c)'
  <2>1. Carried(Z, N, c) /\ c \notin Gained(Z[1])  BY <1>0, <1>2, <1>7
  <2>2. CASE \E j \in 1..N : c \in Sure(Z[j])
    <3>1. PICK j \in 1..N : c \in Sure(Z[j])  BY <2>2
    <3>2. j # 1  BY <2>1, <3>1 DEF Gained
    <3>3. j - 1 \in 1..N' /\ Z'[j - 1] = Z[j]  BY <1>4, <3>2
    <3>4. QED  BY <3>1, <3>3 DEF Carried
  <2>3. CASE ~forgot /\ \E i \in 0..N, j \in 1..N :
                Last(Z, i, j) /\ c \in ByCourse(Z[i], Z[j], b.unlocked_charas)
    <3>1. PICK i \in 0..N, j \in 1..N :
                Last(Z, i, j) /\ c \in ByCourse(Z[i], Z[j], b.unlocked_charas)
          BY <2>3
    <3>2. j # 1
      <4>1. SUFFICES ASSUME j = 1  PROVE FALSE  OBVIOUS
      <4>2. i = 0  BY <3>1, <4>1 DEF Last
      <4>3. QED  BY <1>0, <2>1, <3>1, <4>1, <4>2 DEF Gained
    <3>3. j \in 2..(N + 1) /\ j # N + 1  BY <1>4, <3>2
    <3>4. Follows(Z, N, i, j, Z', N')  BY <1>5, <3>1, <3>3
    <3>5. PICK i2 \in 0..N', j2 \in 1..(N' + 1) :
            Last(Z', i2, j2) /\ Z'[i2] = Z[i] /\ j2 # N' + 1 /\ Z'[j2] = Z[j]
          BY <3>3, <3>4 DEF Follows
    <3>6. j2 \in 1..N'  BY <1>4, <3>5
    <3>7. QED  BY <1>0, <2>3, <3>1, <3>5, <3>6 DEF Carried
  <2>4. CASE forgot /\ c[1] \in {"wonder_seed", "character_block"}
        BY <1>0, <2>4 DEF Carried
  <2>5. QED  BY <2>1, <2>2, <2>3, <2>4 DEF Carried
<1>8. ASSUME ~forgot'  PROVE InCourse(Z, N)'
  <2>1. SUFFICES ASSUME at # None
                 PROVE  \E i \in 0..N' : /\ Last(Z', i, N' + 1) /\ Z'[i].stage = at.stage
                                         /\ Z'[i].chara = at.report
        BY <1>0 DEF InCourse
  <2>2. PICK i \in 0..N : /\ Last(Z, i, N + 1) /\ Z[i].stage = at.stage
                          /\ Z[i].chara = at.report
        BY <1>0, <1>2, <1>8, <2>1 DEF InCourse
  <2>3. N + 1 \in 2..(N + 1)  BY <1>4
  <2>4. Follows(Z, N, i, N + 1, Z', N')  BY <1>5, <2>2, <2>3
  <2>5. PICK i2 \in 0..N' : Last(Z', i2, N' + 1) /\ Z'[i2] = Z[i]  BY <2>4 DEF Follows
  <2>6. QED  BY <2>2, <2>5
<1>9. QED  BY <1>6, <1>7, <1>8

\* Of a pair, the record that is eaten is credited.
LEMMA EatenPaired ==
    ASSUME IInv, Ate
    PROVE  PairedInv'
<1>0. /\ Eaten(Z, N, Z', N') /\ credited' = credited \cup Gained(Z[1])
      /\ UNCHANGED <<paired, lost>>
      BY DEF Ate
<1>1. SUFFICES ASSUME NEW c \in paired' \ credited'  PROVE Twice(Z, N, c)'
      BY DEF PairedInv
<1>2. Twice(Z, N, c) /\ c \notin Sure(Z[1])
      BY <1>0, <1>1 DEF IInv, PairedInv, Gained
<1>3. N \in Nat /\ N >= 1 /\ N' = N - 1 /\ \A i \in 1..N' : Z'[i] = Z[i + 1]
      BY <1>0 DEF Eaten
<1>4. \A j \in 1..N : c \in Sure(Z[j]) => j - 1 \in 1..N' /\ c \in Sure(Z'[j - 1])
  <2>1. SUFFICES ASSUME NEW j \in 1..N, c \in Sure(Z[j])
                 PROVE  j - 1 \in 1..N' /\ c \in Sure(Z'[j - 1])
        OBVIOUS
  <2>2. j # 1  BY <1>2, <2>1
  <2>3. j - 1 \in 1..N' /\ (j - 1) + 1 = j  BY <1>3, <2>2
  <2>4. Z'[j - 1] = Z[j]  BY <1>3, <2>3
  <2>5. QED  BY <2>1, <2>3, <2>4
<1>5. CASE lost = 2  BY <1>0, <1>5 DEF Twice
<1>6. CASE lost = 1 /\ \E j \in 1..N : c \in Sure(Z[j])
      BY <1>0, <1>4, <1>6 DEF Twice
<1>7. CASE lost = 0 /\ \E j, k \in 1..N : j # k /\ c \in Sure(Z[j]) \cap Sure(Z[k])
  <2>1. PICK j, k \in 1..N : j # k /\ c \in Sure(Z[j]) \cap Sure(Z[k])  BY <1>7
  <2>2. j - 1 # k - 1  BY <1>3, <2>1
  <2>3. QED  BY <1>0, <1>4, <1>7, <2>1, <2>2 DEF Twice
<1>8. QED  BY <1>2, <1>5, <1>6, <1>7 DEF Twice

\* The dispatch keeps the invariant.
LEMMA StepDispatch ==
    ASSUME IInv, Dispatch
    PROVE  IInv'
<1>1. Ate /\ TypeOK' /\ Credited'  BY DispatchEats
<1>2. Reported'  BY <1>1 DEF IInv, Reported, Ate
<1>3. Stale'  BY DEF IInv, Stale, Dispatch, gameVars
<1>4. QED  BY <1>1, <1>2, <1>3, EatenSound, EatenComplete, EatenPaired DEF IInv

-----------------------------------------------------------------------------
(* The game appends to the stream. *)

\* Of the records rs, the first k are put and the others lost.
Queued(rs, k) ==
    /\ k \in 0..Len(rs) /\ N \in Nat /\ N' = N + k
    /\ \A i \in 0..N : Z'[i] = Z[i]
    /\ \A i \in 1..k : Z'[N + i] = rs[i]
    /\ replayed' = replayed
    /\ lost' \in 0..2 /\ lost' >= lost /\ (blind => blind')
    /\ \A j \in (k + 1)..Len(rs) : rs[j].t = "course_in" => blind'
    /\ \A j \in (k + 1)..Len(rs) : rs[j].t # "hello" => lost' = 2 \/ lost' > lost
    /\ \A j, m \in (k + 1)..Len(rs) :
         j # m /\ rs[j].t # "hello" /\ rs[m].t # "hello" => lost' = 2

\* The ring takes the first k records and drops the rest.
LEMMA Enqueued ==
    ASSUME TypeOK, NEW rs \in Seq(Records), Enqueue(rs), wire' = wire, b' = b
    PROVE  /\ \E k \in 0..Len(rs) : Queued(rs, k)
           /\ ring' \in Seq(Records) /\ Len(ring') <= Cap
           /\ lost' \in 0..2 /\ blind' \in BOOLEAN /\ replayed' = replayed
<1> DEFINE n  == IF Cap - Len(ring) < Len(rs) THEN Cap - Len(ring) ELSE Len(rs)
           in == SubSeq(rs, 1, n)
           out == SubSeq(rs, n + 1, Len(rs))
<1>1. /\ ring \in Seq(Records) /\ wire \in Seq(Records) /\ Len(ring) <= Cap
      /\ Cap \in Nat /\ Len(ring) \in Nat /\ Len(wire) \in Nat /\ Len(rs) \in Nat
      /\ lost \in 0..2 /\ blind \in BOOLEAN
      BY EventPathAssumption DEF TypeOK
<1>2. ring' = ring \o in /\ Lose(out)  BY DEF Enqueue
<1>3. n \in 0..Len(rs) /\ n \in Nat /\ Len(ring) + n <= Cap  BY <1>1
<1> HIDE DEF n
<1>4. in \in Seq(Records) /\ Len(in) = n /\ \A i \in 1..n : in[i] = rs[i]
      BY <1>3
<1>5. out \in Seq(Records) /\ Len(out) = Len(rs) - n
      /\ \A i \in 1..(Len(rs) - n) : out[i] = rs[n + i]
      BY <1>1, <1>3
<1> HIDE DEF in, out
<1>6. /\ ring' \in Seq(Records) /\ Len(ring') = Len(ring) + n
      /\ \A i \in 0..N : Z'[i] = Z[i]
      /\ \A i \in 1..n : Z'[N + i] = rs[i]
  <2>1. Ctx' = Ctx  BY DEF Ctx
  <2>2. Z' = Stream(Ctx, wire, ring \o in)  BY <1>2, <2>1 DEF Z
  <2>3. /\ ring \o in \in Seq(Records) /\ Len(ring \o in) = Len(ring) + Len(in)
        /\ Longer(Stream(Ctx, wire, ring), Len(wire) + Len(ring),
                  Stream(Ctx, wire, ring \o in), in)
        BY <1>1, <1>4, AddToRing
  <2>4. Z = Stream(Ctx, wire, ring) /\ N = Len(wire) + Len(ring)  BY DEF Z, N
  <2>5. ring' \in Seq(Records) /\ Len(ring') = Len(ring) + n  BY <1>2, <1>4, <2>3, Zenon
  <2>6. Longer(Z, N, Z', in)  BY <2>2, <2>3, <2>4, Zenon
  <2>7. QED  BY <1>4, <2>5, <2>6 DEF Longer
<1>7. /\ replayed' = replayed
      /\ lost' \in 0..2 /\ lost' >= lost /\ (blind => blind') /\ blind' \in BOOLEAN
      /\ \A k \in 1..Len(out) : out[k].t = "course_in" => blind'
      /\ \A k \in 1..Len(out) : out[k].t # "hello" => lost' = 2 \/ lost' > lost
      /\ \A k, m \in 1..Len(out) :
           out[k].t # "hello" /\ out[m].t # "hello" /\ k # m => lost' = 2
      BY <1>1, <1>2, <1>5, Losing
<1>8. \A j \in (n + 1)..Len(rs) : j - n \in 1..Len(out) /\ out[j - n] = rs[j]
  <2>1. SUFFICES ASSUME NEW j \in (n + 1)..Len(rs)
                 PROVE  j - n \in 1..Len(out) /\ out[j - n] = rs[j]
        OBVIOUS
  <2>2. j - n \in 1..(Len(rs) - n) /\ n + (j - n) = j  BY <1>1, <1>3
  <2>3. QED  BY <1>5, <2>2
<1>9. /\ \A j \in (n + 1)..Len(rs) : rs[j].t = "course_in" => blind'
      /\ \A j \in (n + 1)..Len(rs) : rs[j].t # "hello" => lost' = 2 \/ lost' > lost
      /\ \A j, m \in (n + 1)..Len(rs) :
           j # m /\ rs[j].t # "hello" /\ rs[m].t # "hello" => lost' = 2
  <2>1. \A j \in (n + 1)..Len(rs) : rs[j].t = "course_in" => blind'  BY <1>7, <1>8
  <2>2. \A j \in (n + 1)..Len(rs) : rs[j].t # "hello" => lost' = 2 \/ lost' > lost
        BY <1>7, <1>8
  <2>3. ASSUME NEW j \in (n + 1)..Len(rs), NEW m \in (n + 1)..Len(rs),
               j # m, rs[j].t # "hello", rs[m].t # "hello"
        PROVE  lost' = 2
    <3>1. j - n # m - n  BY <1>1, <1>3, <2>3
    <3>2. QED  BY <1>7, <1>8, <2>3, <3>1
  <2>4. QED  BY <2>1, <2>2, <2>3
<1>10. N \in Nat /\ N' = N + n  BY <1>1, <1>3, <1>6, wire' = wire DEF N
<1>11. Queued(rs, n)  BY <1>3, <1>6, <1>7, <1>9, <1>10, Zenon DEF Queued
<1>12. QED  BY <1>3, <1>4, <1>6, <1>7, <1>11

\* The player does something that puts the records rs.
Played(rs) ==
    /\ rs \in Seq(Records) /\ Enqueue(rs)
    /\ UNCHANGED <<wire, b, credited, told, forgot>>
    /\ \A j \in 1..Len(rs) : rs[j].t # "hello" /\ Sure(rs[j]) \subseteq done'
    /\ done \subseteq done' /\ owed \subseteq owed'
    /\ \A c \in paired' \ paired :
         \E j, m \in 1..Len(rs) : j # m /\ c \in Sure(rs[j]) \cap Sure(rs[m])

\* Either a stage is entered, or what is done is done in the stage entered.
Entered(rs) ==
    /\ Len(rs) = 1 /\ rs[1].t = "course_in" /\ UNCHANGED <<owed, deaths>>
    /\ at' # None /\ rs[1].stage = at'.stage /\ rs[1].chara = at'.report
    /\ at'.report \in {None, at'.chara}

Here(x) == at # None => x.stage \in {None, at.stage} /\ x.chara \in {None, at.chara}

Acted(rs) ==
    /\ at' \in {None, at} /\ \A j \in 1..Len(rs) : rs[j].t # "course_in"
    /\ \/ deaths' = deaths /\ \A j \in 1..Len(rs) : rs[j].t # "death_detected"
       \/ deaths' = deaths + 1 /\ Len(rs) = 1 /\ rs[1].t = "death_detected"
    /\ \A j \in 1..Len(rs) : \A x : Here(x) => ByCourse(x, rs[j], Charas) \subseteq done'
    /\ \A c \in owed' \ owed :
         \/ \E j \in 1..Len(rs) : c \in Sure(rs[j])
         \/ /\ at # None /\ c[1] \in {"wonder_seed", "character_block"}
            /\ \E j \in 1..Len(rs) : \A x :
                 x.stage = at.stage /\ x.chara = at.report
                   => c \in ByCourse(x, rs[j], b.unlocked_charas)

\* A death of the player puts one record, if there is room.
LEMMA PlayedDeaths ==
    ASSUME IInv, NEW rs, NEW k, Queued(rs, k), Entered(rs) \/ Acted(rs)
    PROVE  /\ Cardinality(Deaths(Z', N')) \in Nat /\ Cardinality(Deaths(Z, N)) \in Nat
           /\ deaths' - deaths \in {0, 1} /\ deaths' \in Nat
           /\ Cardinality(Deaths(Z', N')) <= Cardinality(Deaths(Z, N)) + (deaths' - deaths)
           /\ k = Len(rs) => Cardinality(Deaths(Z', N'))
                               = Cardinality(Deaths(Z, N)) + (deaths' - deaths)
<1>1. /\ k \in 0..Len(rs) /\ N \in Nat /\ N' = N + k
      /\ \A i \in 0..N : Z'[i] = Z[i]
      /\ \A i \in 1..k : Z'[N + i] = rs[i]
      BY DEF Queued
<1>2. deaths \in Nat  BY DEF IInv, TypeOK
<1>3. k \in Nat /\ N' \in Nat  BY <1>1
<1>4. /\ IsFiniteSet(Deaths(Z, N)) /\ Cardinality(Deaths(Z, N)) \in Nat
      /\ Cardinality(Deaths(Z', N')) \in Nat
      BY <1>1, <1>3, DeathsFinite
<1>5. \A i \in 1..N' : i \in 1..N \/ (i - N \in 1..k /\ i = N + (i - N))  BY <1>1, <1>3
<1>6. CASE deaths' = deaths /\ \A j \in 1..Len(rs) : rs[j].t # "death_detected"
  <2>1. \A i \in 1..N' : i \notin 1..N => Z'[i].t # "death_detected"
    <3>1. \A i \in 1..k : i \in 1..Len(rs)  BY <1>1
    <3>2. QED  BY <1>1, <1>5, <1>6, <3>1
  <2>2. Deaths(Z', N') = Deaths(Z, N)  BY <1>1, <2>1 DEF Deaths
  <2>3. QED  BY <1>2, <1>4, <1>6, <2>2
<1>7. CASE deaths' = deaths + 1 /\ Len(rs) = 1 /\ rs[1].t = "death_detected"
  <2>1. CASE k = 0
    <3>1. Deaths(Z', N') = Deaths(Z, N)  BY <1>1, <2>1 DEF Deaths
    <3>2. QED  BY <1>2, <1>4, <1>7, <2>1, <3>1
  <2>2. CASE k = 1
    <3>1. Z'[N + 1].t = "death_detected" /\ N' = N + 1  BY <1>1, <1>7, <2>2
    <3>2. Deaths(Z', N') = Deaths(Z, N) \cup {N + 1}  BY <1>1, <3>1 DEF Deaths
    <3>3. N + 1 \notin Deaths(Z, N)  BY <1>1 DEF Deaths
    <3>4. Cardinality(Deaths(Z, N) \cup {N + 1}) =
            IF N + 1 \in Deaths(Z, N) THEN Cardinality(Deaths(Z, N))
            ELSE Cardinality(Deaths(Z, N)) + 1
          BY <1>4, FS_AddElement
    <3>5. QED  BY <1>2, <1>4, <1>7, <3>2, <3>3, <3>4
  <2>3. QED  BY <1>1, <1>7, <2>1, <2>2
<1>8. QED
  <2>1. Entered(rs) =>
          deaths' = deaths /\ \A j \in 1..Len(rs) : rs[j].t # "death_detected"
        BY DEF Entered
  <2>2. QED  BY <1>6, <1>7, <2>1 DEF Acted

\* A course_in that a record or the end of the stream belongs to was there
\* already, if the records put are none.
LEMMA PlayedBack ==
    ASSUME NEW rs, NEW k, Queued(rs, k), \A j \in 1..Len(rs) : rs[j].t # "course_in",
           NEW i \in 0..N', NEW j \in 1..(N' + 1), Last(Z', i, j)
    PROVE  /\ i \in 0..N /\ Z'[i] = Z[i]
           /\ j <= N => Last(Z, i, j)
           /\ j > N => Last(Z, i, N + 1)
<1>1. /\ k \in 0..Len(rs) /\ N \in Nat /\ N' = N + k
      /\ \A m \in 0..N : Z'[m] = Z[m]
      /\ \A m \in 1..k : Z'[N + m] = rs[m]
      BY DEF Queued
<1>2. i < j /\ Z'[i].t = "course_in" /\ \A m \in (i + 1)..(j - 1) : Z'[m].t # "course_in"
      BY DEF Last
<1>3. i \in 0..N
  <2>1. SUFFICES ASSUME i > N  PROVE FALSE  BY <1>1
  <2>2. i - N \in 1..k /\ i - N \in 1..Len(rs) /\ i = N + (i - N)  BY <1>1, <2>1
  <2>3. QED  BY <1>1, <1>2, <2>2
<1>4. ASSUME j <= N  PROVE Last(Z, i, j)
  <2>1. \A m \in (i + 1)..(j - 1) : Z[m].t # "course_in"  BY <1>1, <1>2, <1>4
  <2>2. QED  BY <1>1, <1>2, <1>3, <2>1 DEF Last
<1>5. ASSUME j > N  PROVE Last(Z, i, N + 1)
  <2>1. \A m \in (i + 1)..((N + 1) - 1) : Z[m].t # "course_in"  BY <1>1, <1>2, <1>5
  <2>2. QED  BY <1>1, <1>2, <1>3, <2>1 DEF Last
<1>6. QED  BY <1>1, <1>3, <1>4, <1>5

\* What is put behind the stream leaves its courses alone.
LEMMA PlayedForth ==
    ASSUME NEW rs, NEW k, Queued(rs, k), NEW i \in 0..N, NEW j \in 1..N, Last(Z, i, j)
    PROVE  i \in 0..N' /\ j \in 1..N' /\ Last(Z', i, j) /\ Z'[i] = Z[i] /\ Z'[j] = Z[j]
<1>1. k \in 0..Len(rs) /\ N \in Nat /\ N' = N + k /\ \A m \in 0..N : Z'[m] = Z[m]
      BY DEF Queued
<1>2. i < j /\ Z[i].t = "course_in" /\ \A m \in (i + 1)..(j - 1) : Z[m].t # "course_in"
      BY DEF Last
<1>3. \A m \in (i + 1)..(j - 1) : Z'[m].t # "course_in"  BY <1>1, <1>2
<1>4. QED  BY <1>1, <1>2, <1>3 DEF Last

\* What the player's records carry, the player has earned.
LEMMA PlayedSound ==
    ASSUME IInv, NEW rs, NEW k, Queued(rs, k), Played(rs), Entered(rs) \/ Acted(rs)
    PROVE  SoundInv'
<1>1. /\ k \in 0..Len(rs) /\ N \in Nat /\ N' = N + k
      /\ \A i \in 0..N : Z'[i] = Z[i]
      /\ \A i \in 1..k : Z'[N + i] = rs[i]
      /\ (blind => blind') /\ replayed' = replayed
      /\ \A j \in (k + 1)..Len(rs) : rs[j].t = "course_in" => blind'
      BY DEF Queued
<1>2. SoundInv /\ told \in Nat /\ deaths \in Nat  BY DEF IInv, TypeOK
<1>3. /\ done \subseteq done' /\ UNCHANGED <<b, credited, told, forgot>>
      /\ \A j \in 1..Len(rs) : Sure(rs[j]) \subseteq done'
      BY DEF Played
<1>4. \A i \in 1..N' : i \in 1..N \/ (i - N \in 1..k /\ i - N \in 1..Len(rs) /\ Z'[i] = rs[i - N])
  <2>1. SUFFICES ASSUME NEW i \in 1..N', i \notin 1..N
                 PROVE  i - N \in 1..k /\ i - N \in 1..Len(rs) /\ Z'[i] = rs[i - N]
        OBVIOUS
  <2>2. i - N \in 1..k /\ i - N \in 1..Len(rs) /\ N + (i - N) = i  BY <1>1, <2>1
  <2>3. QED  BY <1>1, <2>2
<1>5. Justified(Z, N)'
  <2>1. SUFFICES ASSUME NEW i \in 1..N'  PROVE Sure(Z'[i]) \subseteq done'
        BY DEF Justified
  <2>2. CASE i \in 1..N
    <3>1. Z'[i] = Z[i]  BY <1>1, <2>2
    <3>2. QED  BY <1>2, <1>3, <2>2, <3>1 DEF SoundInv, Justified
  <2>3. CASE i \notin 1..N  BY <1>3, <1>4, <2>3
  <2>4. QED  BY <2>2, <2>3
<1>6. ASSUME ~blind'  PROVE Attributed(Z, N)' /\ Visiting(Z, N)'
  <2>1. Attributed(Z, N) /\ Visiting(Z, N)  BY <1>1, <1>2, <1>6 DEF SoundInv
  <2>2. CASE Acted(rs)
    <3>1. at' \in {None, at} /\ \A j \in 1..Len(rs) : rs[j].t # "course_in"
          BY <2>2 DEF Acted
    <3>2. \A i \in 0..N', j \in 1..(N' + 1) : Last(Z', i, j) =>
            /\ i \in 0..N /\ Z'[i] = Z[i]
            /\ j <= N => Last(Z, i, j)
            /\ j > N => Last(Z, i, N + 1)
          BY <3>1, PlayedBack
    <3>3. Attributed(Z, N)'
      <4>1. SUFFICES ASSUME NEW i \in 0..N', NEW j \in 1..N', Last(Z', i, j)
                     PROVE  ByCourse(Z'[i], Z'[j], Charas) \subseteq done'
            BY DEF Attributed
      <4>2. /\ i \in 0..N /\ Z'[i] = Z[i]
            /\ j <= N => Last(Z, i, j)
            /\ j > N => Last(Z, i, N + 1)
        <5>1. j \in 1..(N' + 1)  BY <1>1, <4>1
        <5>2. QED  BY <3>2, <4>1, <5>1
      <4>3. CASE j \in 1..N
        <5>1. Z'[j] = Z[j] /\ Last(Z, i, j)  BY <1>1, <4>2, <4>3
        <5>2. ByCourse(Z[i], Z[j], Charas) \subseteq done
              BY <2>1, <4>2, <4>3, <5>1 DEF Attributed
        <5>3. QED  BY <1>3, <4>2, <5>1, <5>2
      <4>4. CASE j \notin 1..N
        <5>1. j - N \in 1..Len(rs) /\ Z'[j] = rs[j - N]  BY <1>4, <4>4
        <5>2. Last(Z, i, N + 1)  BY <1>1, <4>2, <4>4
        <5>3. Here(Z[i])  BY <2>1, <4>2, <5>2 DEF Visiting, Here
        <5>4. ByCourse(Z[i], rs[j - N], Charas) \subseteq done'
              BY <2>2, <5>1, <5>3 DEF Acted
        <5>5. QED  BY <4>2, <5>1, <5>4
      <4>5. QED  BY <4>3, <4>4
    <3>4. Visiting(Z, N)'
      <4>1. SUFFICES ASSUME at' # None, NEW i \in 0..N', Last(Z', i, N' + 1)
                     PROVE  /\ Z'[i].stage \in {None, at'.stage}
                            /\ Z'[i].chara \in {None, at'.chara}
            BY DEF Visiting
      <4>2. N' + 1 \in 1..(N' + 1) /\ N' + 1 > N  BY <1>1
      <4>3. i \in 0..N /\ Z'[i] = Z[i] /\ Last(Z, i, N + 1)  BY <3>2, <4>1, <4>2
      <4>4. at' = at  BY <3>1, <4>1
      <4>5. QED  BY <2>1, <4>1, <4>3, <4>4 DEF Visiting
    <3>5. QED  BY <3>3, <3>4
  <2>3. CASE Entered(rs)
    <3>1. /\ Len(rs) = 1 /\ rs[1].t = "course_in" /\ at' # None
          /\ rs[1].stage = at'.stage /\ rs[1].chara \in {None, at'.chara}
          BY <2>3 DEF Entered
    <3>2. k = 1 /\ N' = N + 1 /\ Z'[N + 1] = rs[1]  BY <1>1, <1>6, <3>1
    <3>3. Attributed(Z, N)'
      <4>1. SUFFICES ASSUME NEW i \in 0..N', NEW j \in 1..N', Last(Z', i, j)
                     PROVE  ByCourse(Z'[i], Z'[j], Charas) \subseteq done'
            BY DEF Attributed
      <4>2. CASE j = N + 1
        <5>1. Z'[j].t = "course_in"  BY <3>1, <3>2, <4>2
        <5>2. QED  BY <5>1 DEF ByCourse
      <4>3. CASE j # N + 1
        <5>1. j \in 1..N /\ i \in 0..N /\ Z'[j] = Z[j] /\ Z'[i] = Z[i]
              BY <1>1, <3>2, <4>1, <4>3 DEF Last
        <5>2. Last(Z, i, j)
          <6>1. i < j /\ Z'[i].t = "course_in"
                /\ \A m \in (i + 1)..(j - 1) : Z'[m].t # "course_in"
                BY <4>1 DEF Last
          <6>2. \A m \in (i + 1)..(j - 1) : Z'[m] = Z[m]  BY <1>1, <5>1
          <6>3. QED  BY <5>1, <6>1, <6>2 DEF Last
        <5>3. ByCourse(Z[i], Z[j], Charas) \subseteq done  BY <2>1, <5>1, <5>2 DEF Attributed
        <5>4. QED  BY <1>3, <5>1, <5>3
      <4>4. QED  BY <4>2, <4>3
    <3>4. Visiting(Z, N)'
      <4>1. SUFFICES ASSUME NEW i \in 0..N', Last(Z', i, N' + 1)
                     PROVE  /\ Z'[i].stage \in {None, at'.stage}
                            /\ Z'[i].chara \in {None, at'.chara}
            BY DEF Visiting
      <4>2. i = N + 1
        <5>1. \A m \in (i + 1)..((N' + 1) - 1) : Z'[m].t # "course_in"  BY <4>1 DEF Last
        <5>2. i \notin 0..N
          <6>1. i \in 0..N => N + 1 \in (i + 1)..((N' + 1) - 1)  BY <1>1, <3>2
          <6>2. QED  BY <3>1, <3>2, <5>1, <6>1
        <5>3. QED  BY <1>1, <3>2, <4>1, <5>2
      <4>3. QED  BY <3>1, <3>2, <4>2
    <3>5. QED  BY <3>3, <3>4
  <2>4. QED  BY <2>2, <2>3
<1>7. replayed' \/ told' + Cardinality(Deaths(Z, N))' <= deaths'
  <2>1. /\ Cardinality(Deaths(Z', N')) \in Nat /\ Cardinality(Deaths(Z, N)) \in Nat
        /\ deaths' - deaths \in {0, 1} /\ deaths' \in Nat
        /\ Cardinality(Deaths(Z', N')) <= Cardinality(Deaths(Z, N)) + (deaths' - deaths)
        BY PlayedDeaths
  <2>2. Cardinality(Deaths(Z, N))' = Cardinality(Deaths(Z', N'))  BY DEF Deaths
  <2>3. replayed \/ told + Cardinality(Deaths(Z, N)) <= deaths  BY <1>2 DEF SoundInv
  <2>4. QED  BY <1>1, <1>2, <1>3, <2>1, <2>2, <2>3
<1>8. \A c \in credited' \ done' : blind' /\ c[1] \in {"wonder_seed", "character_block"}
      BY <1>1, <1>2, <1>3 DEF SoundInv
<1>9. QED  BY <1>5, <1>6, <1>7, <1>8 DEF SoundInv

\* What the player earns is carried, unless the ring was full.
LEMMA PlayedComplete ==
    ASSUME IInv, NEW rs, NEW k, Queued(rs, k), Played(rs), Entered(rs) \/ Acted(rs)
    PROVE  CompleteInv'
<1>1. /\ k \in 0..Len(rs) /\ N \in Nat /\ N' = N + k
      /\ \A i \in 0..N : Z'[i] = Z[i]
      /\ \A i \in 1..k : Z'[N + i] = rs[i]
      /\ lost' \in 0..2 /\ lost' >= lost
      /\ \A j \in (k + 1)..Len(rs) : rs[j].t # "hello" => lost' = 2 \/ lost' > lost
      BY DEF Queued
<1>2. /\ UNCHANGED <<b, credited, told, forgot>> /\ Len(rs) \in Nat
      /\ \A j \in 1..Len(rs) : rs[j].t # "hello"
      BY DEF Played
<1>3. SUFFICES ASSUME lost' = 0
               PROVE  /\ told' + Cardinality(Deaths(Z, N))' >= deaths'
                      /\ \A c \in owed' \ credited' : Carried(Z, N, c)'
                      /\ ~forgot' => InCourse(Z, N)'
      BY DEF CompleteInv
<1>4. lost = 0 /\ told \in Nat /\ deaths \in Nat
      BY <1>1, <1>3 DEF IInv, TypeOK
<1>5. k = Len(rs)
  <2>1. SUFFICES ASSUME k # Len(rs)  PROVE FALSE  OBVIOUS
  <2>2. k + 1 \in (k + 1)..Len(rs) /\ k + 1 \in 1..Len(rs)  BY <1>1, <1>2, <2>1
  <2>3. QED  BY <1>1, <1>2, <1>3, <1>4, <2>2
<1>6. /\ told + Cardinality(Deaths(Z, N)) >= deaths
      /\ \A c \in owed \ credited : Carried(Z, N, c)
      /\ ~forgot => InCourse(Z, N)
      BY <1>4 DEF IInv, CompleteInv
<1>7. told' + Cardinality(Deaths(Z, N))' >= deaths'
  <2>1. /\ Cardinality(Deaths(Z', N')) \in Nat /\ Cardinality(Deaths(Z, N)) \in Nat
        /\ deaths' - deaths \in {0, 1} /\ deaths' \in Nat
        /\ Cardinality(Deaths(Z', N')) = Cardinality(Deaths(Z, N)) + (deaths' - deaths)
        BY <1>5, PlayedDeaths
  <2>2. Cardinality(Deaths(Z, N))' = Cardinality(Deaths(Z', N'))  BY DEF Deaths
  <2>3. QED  BY <1>2, <1>4, <1>6, <2>1, <2>2
<1>8. \A j \in 1..Len(rs) : N + j \in 1..N' /\ Z'[N + j] = rs[j]
      BY <1>1, <1>5
<1>9. ASSUME Acted(rs), at # None, ~forgot, NEW j \in 1..(Len(rs) + 1)
      PROVE  \E i \in 0..N : /\ Last(Z', i, N + j) /\ Z'[i].stage = at.stage
                             /\ Z'[i].chara = at.report
  <2>1. PICK i \in 0..N : /\ Last(Z, i, N + 1) /\ Z[i].stage = at.stage
                          /\ Z[i].chara = at.report
        BY <1>6, <1>9 DEF InCourse
  <2>2. i < N + 1 /\ Z[i].t = "course_in"
        /\ \A m \in (i + 1)..((N + 1) - 1) : Z[m].t # "course_in"
        BY <2>1 DEF Last
  <2>3. \A m \in (i + 1)..((N + j) - 1) : Z'[m].t # "course_in"
    <3>1. SUFFICES ASSUME NEW m \in (i + 1)..((N + j) - 1)  PROVE Z'[m].t # "course_in"
          OBVIOUS
    <3>2. CASE m <= N
      <4>1. m \in (i + 1)..((N + 1) - 1) /\ m \in 0..N  BY <1>1, <3>2
      <4>2. QED  BY <1>1, <2>2, <4>1
    <3>3. CASE m > N
      <4>1. m - N \in 1..Len(rs) /\ m = N + (m - N)  BY <1>1, <1>2, <3>3
      <4>2. QED  BY <1>8, <1>9, <4>1 DEF Acted
    <3>4. QED  BY <1>1, <3>2, <3>3
  <2>4. i < N + j  BY <1>1, <1>2, <2>2
  <2>5. Last(Z', i, N + j)  BY <1>1, <2>2, <2>3, <2>4 DEF Last
  <2>6. QED  BY <1>1, <2>1, <2>5
<1>10. ASSUME NEW c \in owed' \ credited'  PROVE Carried(Z, N, c)'
  <2>1. CASE c \in owed
    <3>1. Carried(Z, N, c)  BY <1>2, <1>6, <1>10, <2>1
    <3>2. CASE \E j \in 1..N : c \in Sure(Z[j])
      <4>1. PICK j \in 1..N : c \in Sure(Z[j])  BY <3>2
      <4>2. j \in 1..N' /\ Z'[j] = Z[j]  BY <1>1
      <4>3. QED  BY <4>1, <4>2 DEF Carried
    <3>3. CASE ~forgot /\ \E i \in 0..N, j \in 1..N :
                  Last(Z, i, j) /\ c \in ByCourse(Z[i], Z[j], b.unlocked_charas)
      <4>1. PICK i \in 0..N, j \in 1..N :
                  Last(Z, i, j) /\ c \in ByCourse(Z[i], Z[j], b.unlocked_charas)
            BY <3>3
      <4>2. i \in 0..N' /\ j \in 1..N' /\ Last(Z', i, j) /\ Z'[i] = Z[i] /\ Z'[j] = Z[j]
            BY <4>1, PlayedForth
      <4>3. QED  BY <1>2, <3>3, <4>1, <4>2 DEF Carried
    <3>4. CASE forgot /\ c[1] \in {"wonder_seed", "character_block"}
          BY <1>2, <3>4 DEF Carried
    <3>5. QED  BY <3>1, <3>2, <3>3, <3>4 DEF Carried
  <2>2. CASE c \notin owed
    <3>1. Acted(rs)  BY <1>10, <2>2 DEF Entered
    <3>2. CASE \E j \in 1..Len(rs) : c \in Sure(rs[j])  BY <1>8, <3>2 DEF Carried
    <3>3. CASE /\ at # None /\ c[1] \in {"wonder_seed", "character_block"}
               /\ \E j \in 1..Len(rs) : \A x :
                    x.stage = at.stage /\ x.chara = at.report
                      => c \in ByCourse(x, rs[j], b.unlocked_charas)
      <4>1. CASE forgot  BY <1>2, <3>3, <4>1 DEF Carried
      <4>2. CASE ~forgot
        <5>1. PICK j \in 1..Len(rs) : \A x :
                    x.stage = at.stage /\ x.chara = at.report
                      => c \in ByCourse(x, rs[j], b.unlocked_charas)
              BY <3>3
        <5>2. j \in 1..(Len(rs) + 1)  BY <1>2
        <5>3. PICK i \in 0..N : /\ Last(Z', i, N + j) /\ Z'[i].stage = at.stage
                                /\ Z'[i].chara = at.report
              BY <1>9, <3>1, <3>3, <4>2, <5>2
        <5>4. c \in ByCourse(Z'[i], Z'[N + j], b.unlocked_charas)  BY <1>8, <5>1, <5>3
        <5>5. i \in 0..N' /\ N + j \in 1..N'  BY <1>1, <1>8
        <5>6. QED  BY <1>2, <4>2, <5>3, <5>4, <5>5 DEF Carried
      <4>3. QED  BY <4>1, <4>2
    <3>4. QED  BY <1>10, <2>2, <3>1, <3>2, <3>3 DEF Acted
  <2>3. QED  BY <2>1, <2>2
<1>11. ASSUME ~forgot'  PROVE InCourse(Z, N)'
  <2>1. SUFFICES ASSUME at' # None
                 PROVE  \E i \in 0..N' : /\ Last(Z', i, N' + 1) /\ Z'[i].stage = at'.stage
                                         /\ Z'[i].chara = at'.report
        BY DEF InCourse
  <2>2. CASE Acted(rs)
    <3>1. at' = at /\ at # None /\ ~forgot  BY <1>2, <1>11, <2>1, <2>2 DEF Acted
    <3>2. Len(rs) + 1 \in 1..(Len(rs) + 1) /\ N + (Len(rs) + 1) = N' + 1
          BY <1>1, <1>2, <1>5
    <3>3. PICK i \in 0..N : /\ Last(Z', i, N' + 1) /\ Z'[i].stage = at.stage
                            /\ Z'[i].chara = at.report
          BY <1>9, <2>2, <3>1, <3>2
    <3>4. i \in 0..N'  BY <1>1
    <3>5. QED  BY <3>1, <3>3, <3>4
  <2>3. CASE Entered(rs)
    <3>1. N' = N + 1 /\ N' \in 0..N' /\ Z'[N'] = rs[1]  BY <1>1, <1>5, <2>3 DEF Entered
    <3>2. Last(Z', N', N' + 1)  BY <1>1, <2>3, <3>1 DEF Entered, Last
    <3>3. QED  BY <2>3, <3>1, <3>2 DEF Entered
  <2>4. QED  BY <2>2, <2>3
<1>12. QED  BY <1>7, <1>10, <1>11

\* What two records are put for loses one of them at a loss.
LEMMA PlayedPaired ==
    ASSUME IInv, NEW rs, NEW k, Queued(rs, k), Played(rs)
    PROVE  PairedInv'
<1>1. /\ k \in 0..Len(rs) /\ N \in Nat /\ N' = N + k
      /\ \A i \in 0..N : Z'[i] = Z[i]
      /\ \A i \in 1..k : Z'[N + i] = rs[i]
      /\ lost' \in 0..2 /\ lost' >= lost
      /\ \A j \in (k + 1)..Len(rs) : rs[j].t # "hello" => lost' = 2 \/ lost' > lost
      /\ \A j, m \in (k + 1)..Len(rs) :
           j # m /\ rs[j].t # "hello" /\ rs[m].t # "hello" => lost' = 2
      BY DEF Queued
<1>2. /\ UNCHANGED credited /\ Len(rs) \in Nat
      /\ \A j \in 1..Len(rs) : rs[j].t # "hello"
      /\ \A c \in paired' \ paired :
           \E j, m \in 1..Len(rs) : j # m /\ c \in Sure(rs[j]) \cap Sure(rs[m])
      BY DEF Played
<1>3. lost \in 0..2  BY DEF IInv, TypeOK
<1>4. SUFFICES ASSUME NEW c \in paired' \ credited'  PROVE Twice(Z, N, c)'
      BY DEF PairedInv
<1>5. \A j \in 1..N : j \in 1..N' /\ Z'[j] = Z[j]  BY <1>1
<1>6. \A j \in 1..Len(rs) : j <= k => N + j \in 1..N' /\ Z'[N + j] = rs[j]  BY <1>1
<1>7. CASE lost' = 2  BY <1>7 DEF Twice
<1>8. CASE lost' # 2 /\ c \in paired
  <2>1. Twice(Z, N, c)  BY <1>2, <1>4, <1>8 DEF IInv, PairedInv
  <2>2. CASE lost = 1
    <3>1. lost' = 1 /\ \E j \in 1..N : c \in Sure(Z[j])
          BY <1>1, <1>8, <2>1, <2>2 DEF Twice
    <3>2. QED  BY <1>5, <3>1 DEF Twice
  <2>3. CASE lost = 0
    <3>1. PICK j, m \in 1..N : j # m /\ c \in Sure(Z[j]) \cap Sure(Z[m])
          BY <2>1, <2>3 DEF Twice
    <3>2. lost' \in {0, 1}  BY <1>1, <1>8
    <3>3. QED  BY <1>5, <3>1, <3>2 DEF Twice
  <2>4. QED  BY <1>1, <1>3, <1>8, <2>2, <2>3
<1>9. CASE lost' # 2 /\ c \notin paired
  <2>1. PICK j, m \in 1..Len(rs) : j # m /\ c \in Sure(rs[j]) \cap Sure(rs[m])
        BY <1>2, <1>4, <1>9
  <2>2. ~(j <= k) => j \in (k + 1)..Len(rs)  BY <1>1, <1>2
  <2>3. ~(m <= k) => m \in (k + 1)..Len(rs)  BY <1>1, <1>2
  <2>4. j <= k \/ m <= k  BY <1>1, <1>2, <1>9, <2>1, <2>2, <2>3
  <2>5. CASE lost' = 1  BY <1>6, <2>1, <2>4, <2>5 DEF Twice
  <2>6. CASE lost' = 0
    <3>1. j <= k /\ m <= k  BY <1>1, <1>2, <1>3, <2>1, <2>2, <2>3, <2>6
    <3>2. N + j # N + m  BY <1>1, <2>1
    <3>3. QED  BY <1>6, <2>1, <2>6, <3>1, <3>2 DEF Twice
  <2>7. QED  BY <1>1, <1>9, <2>5, <2>6
<1>10. QED  BY <1>7, <1>8, <1>9

\* A push writes over the oldest of what the free slots hold.
LEMMA EnqueueSpares ==
    ASSUME IInv, NEW rs \in Seq(Records), Enqueue(rs)
    PROVE  Earned(spare', done)
<1> DEFINE n    == IF Cap - Len(ring) < Len(rs) THEN Cap - Len(ring) ELSE Len(rs)
           free == Cap + 1 - Len(ring) - n
<1>1. Earned(spare, done) /\ Len(spare) \in Nat  BY DEF IInv, Stale, Earned
<1>2. Len(ring) \in Nat /\ Cap \in Nat /\ Len(ring) <= Cap /\ Len(rs) \in Nat
      BY EventPathAssumption DEF IInv, TypeOK
<1>3. free \in Nat  BY <1>2
<1>4. \/ spare' = <<>> \/ spare' = spare
      \/ Len(spare) > free /\ spare' = SubSeq(spare, Len(spare) - free + 1, Len(spare))
  <2>1. spare' = IF faults' < MaxFaults
                 THEN IF Len(spare) <= free THEN spare
                      ELSE SubSeq(spare, Len(spare) - free + 1, Len(spare))
                 ELSE <<>>
        BY DEF Enqueue, Spare
  <2> HIDE DEF free
  <2>2. QED  BY <1>1, <1>3, <2>1
<1> HIDE DEF free
<1>5. CASE spare' = <<>>  BY <1>5 DEF Earned
<1>6. CASE spare' = spare  BY <1>1, <1>6
<1>7. CASE Len(spare) > free /\ spare' = SubSeq(spare, Len(spare) - free + 1, Len(spare))
  <2>1. Len(spare) - free + 1 \in 1..(Len(spare) + 1) /\ Len(spare) \in 0..Len(spare)
        BY <1>1, <1>3, <1>7
  <2>2. QED  BY <1>1, <1>7, <2>1, EarnedPieces
<1>8. QED  BY <1>4, <1>5, <1>6, <1>7

\* A step of the player keeps the invariant.
LEMMA PlayedStep ==
    ASSUME IInv, TypeOK', NEW rs, Played(rs), Entered(rs) \/ Acted(rs)
    PROVE  IInv'
<1>1. \E k \in 0..Len(rs) : Queued(rs, k)  BY Enqueued DEF IInv, Played
<1>2. PICK k \in 0..Len(rs) : Queued(rs, k)  BY <1>1
<1>3. Credited'  BY DEF IInv, Played, Credited
<1>4. Reported'  BY DEF IInv, Entered, Acted, Reported
<1>5. Stale'
  <2>1. rs \in Seq(Records) /\ Enqueue(rs) /\ done \subseteq done'  BY DEF Played
  <2>2. Earned(spare', done)  BY <2>1, EnqueueSpares
  <2>3. QED  BY <2>1, <2>2 DEF Stale, Earned
<1>6. QED  BY <1>2, <1>3, <1>4, <1>5, PlayedSound, PlayedComplete, PlayedPaired DEF IInv

-----------------------------------------------------------------------------
(* What the player does. *)

In(r, s) == \E j \in 1..Len(s) : s[j] = r

\* A move that puts one record.
LEMMA OneIn ==
    ASSUME NEW r \in Records
    PROVE  /\ <<r>> \in Seq(Records) /\ Len(<<r>>) = 1 /\ <<r>>[1] = r
           /\ \A x : In(x, <<r>>) <=> x = r
BY DEF In

\* A move that puts none.
LEMMA NoneIn ==
    <<>> \in Seq(Records) /\ \A x : ~In(x, <<>>)
BY DEF In

\* A move that puts some records and then others.
LEMMA JoinIn ==
    ASSUME NEW p \in Seq(Records), NEW q \in Seq(Records)
    PROVE  p \o q \in Seq(Records) /\ \A x : In(x, p \o q) <=> In(x, p) \/ In(x, q)
<1>1. /\ p \o q \in Seq(Records) /\ Len(p \o q) = Len(p) + Len(q)
      /\ \A i \in 1..(Len(p) + Len(q)) :
           (p \o q)[i] = IF i <= Len(p) THEN p[i] ELSE q[i - Len(p)]
      BY ConcatProperties
<1>2. Len(p) \in Nat /\ Len(q) \in Nat  OBVIOUS
<1>3. ASSUME NEW x, In(x, p \o q)  PROVE In(x, p) \/ In(x, q)
  <2>1. PICK i \in 1..(Len(p) + Len(q)) : (p \o q)[i] = x  BY <1>1, <1>3 DEF In
  <2>2. CASE i <= Len(p)
    <3>1. i \in 1..Len(p) /\ p[i] = x  BY <1>1, <1>2, <2>1, <2>2
    <3>2. QED  BY <3>1 DEF In
  <2>3. CASE ~(i <= Len(p))
    <3>1. i - Len(p) \in 1..Len(q) /\ q[i - Len(p)] = x  BY <1>1, <1>2, <2>1, <2>3
    <3>2. QED  BY <3>1 DEF In
  <2>4. QED  BY <2>2, <2>3
<1>4. ASSUME NEW x, In(x, p)  PROVE In(x, p \o q)
  <2>1. PICK i \in 1..Len(p) : p[i] = x  BY <1>4 DEF In
  <2>2. i \in 1..(Len(p) + Len(q)) /\ i <= Len(p)  BY <1>2
  <2>3. (p \o q)[i] = x  BY <1>1, <2>1, <2>2
  <2>4. QED  BY <1>1, <2>2, <2>3 DEF In
<1>5. ASSUME NEW x, In(x, q)  PROVE In(x, p \o q)
  <2>1. PICK i \in 1..Len(q) : q[i] = x  BY <1>5 DEF In
  <2>2. /\ Len(p) + i \in 1..(Len(p) + Len(q)) /\ ~(Len(p) + i <= Len(p))
        /\ (Len(p) + i) - Len(p) = i
        BY <1>2
  <2>3. (p \o q)[Len(p) + i] = x  BY <1>1, <2>1, <2>2
  <2>4. QED  BY <1>1, <2>2, <2>3 DEF In
<1>6. QED  BY <1>1, <1>3, <1>4, <1>5

\* What the game does besides, and what it leaves alone.
Offstage == UNCHANGED <<netVars, wire, bridgeVars, host_ip, faults>>

\* A step of the game, told by the records it puts in any order.
Putting(rs) ==
    /\ rs \in Seq(Records) /\ Enqueue(rs) /\ Offstage
    /\ \A r : In(r, rs) => r.t # "hello" /\ Sure(r) \subseteq done'
    /\ done \subseteq done' /\ owed \subseteq owed' /\ owed' \subseteq done'
    /\ \A c \in paired' \ paired : \E q, r : /\ In(q, rs) /\ In(r, rs) /\ q # r
                                             /\ c \in Sure(q) \cap Sure(r)
    /\ paired' \subseteq owed'

\* What is left to show of a move: what its records, as a set, carry.
LEMMA PuttingPlays ==
    ASSUME IInv, NEW rs, Putting(rs), Entered(rs) \/ Acted(rs),
           at' \in Visits \cup {None}
    PROVE  IInv'
<1>1. TypeOK  BY DEF IInv
<1>2. /\ rs \in Seq(Records) /\ Enqueue(rs)
      /\ UNCHANGED <<wire, b, credited, told, forgot, conn, target, socket, up, advertised,
                     unlocked, host_ip>>
      /\ done \subseteq done' /\ owed \subseteq owed'
      BY DEF Putting, Offstage, netVars, bridgeVars
<1>3. /\ ring' \in Seq(Records) /\ Len(ring') <= Cap
      /\ lost' \in 0..2 /\ blind' \in BOOLEAN /\ replayed' = replayed
      BY <1>1, <1>2, Enqueued
<1>4. deaths' \in Nat  BY <1>1 DEF TypeOK, Entered, Acted
<1>5. TypeOK'  BY <1>1, <1>2, <1>3, <1>4 DEF TypeOK, Putting
<1>6. \A j \in 1..Len(rs) : In(rs[j], rs)  BY DEF In
<1>7. \A j \in 1..Len(rs) : rs[j].t # "hello" /\ Sure(rs[j]) \subseteq done'
      BY <1>6 DEF Putting
<1>8. ASSUME NEW c \in paired' \ paired
      PROVE  \E j, m \in 1..Len(rs) : j # m /\ c \in Sure(rs[j]) \cap Sure(rs[m])
  <2>1. PICK q, r : In(q, rs) /\ In(r, rs) /\ q # r /\ c \in Sure(q) \cap Sure(r)
        BY <1>8 DEF Putting
  <2>2. PICK j \in 1..Len(rs) : rs[j] = q  BY <2>1 DEF In
  <2>3. PICK m \in 1..Len(rs) : rs[m] = r  BY <2>1 DEF In
  <2>4. QED  BY <2>1, <2>2, <2>3
<1>9. Played(rs)  BY <1>2, <1>7, <1>8 DEF Played
<1>10. QED  BY <1>5, <1>9, PlayedStep

\* A move whose records all name their stage.
LEMMA QuietActs ==
    ASSUME NEW rs, at' \in {None, at}, deaths' = deaths,
           \A r : In(r, rs) => r.t \notin {"course_in", "death_detected",
                                           "wonder_seed_awarded", "char_block_hit"},
           \A c \in owed' \ owed : \E r : In(r, rs) /\ c \in Sure(r)
    PROVE  Acted(rs)
<1>1. \A j \in 1..Len(rs) : In(rs[j], rs)  BY DEF In
<1>2. \A j \in 1..Len(rs) : \A x : ByCourse(x, rs[j], Charas) = {}
      BY <1>1 DEF ByCourse
<1>3. \A c \in owed' \ owed : \E j \in 1..Len(rs) : c \in Sure(rs[j])
  <2>1. SUFFICES ASSUME NEW c \in owed' \ owed
                 PROVE  \E j \in 1..Len(rs) : c \in Sure(rs[j])
        OBVIOUS
  <2>2. PICK r : In(r, rs) /\ c \in Sure(r)  BY <2>1
  <2>3. PICK j \in 1..Len(rs) : rs[j] = r  BY <2>2 DEF In
  <2>4. QED  BY <2>2, <2>3
<1>4. \A j \in 1..Len(rs) : rs[j].t # "course_in" /\ rs[j].t # "death_detected"  BY <1>1
<1>5. QED  BY <1>2, <1>3, <1>4 DEF Acted

\* The player enters a course.
LEMMA StepEnter ==
    ASSUME IInv, NEW s \in Stages, NEW c \in Charas \cup {None}, NEW known \in BOOLEAN,
           Enter(s, c, known), Offstage
    PROVE  IInv'
<1> DEFINE r == [t |-> "course_in", stage |-> s, chara |-> IF known THEN c ELSE None]
<1>1. r \in Records  BY DEF Records
<1>2. /\ at' = [stage |-> s, chara |-> c, report |-> IF known THEN c ELSE None]
      /\ Enqueue(<<r>>) /\ UNCHANGED <<done, owed, paired, deaths>>
      BY DEF Enter
<1>3. TypeOK  BY DEF IInv
<1>4. at' \in Visits /\ at' # None  BY <1>2, EventPathAssumption DEF Visits
<1>5. at'.stage = s /\ at'.chara = c /\ at'.report = r.chara /\ r.chara \in {None, c}
      /\ r.stage = s /\ r.t = "course_in"
      BY <1>2
<1> HIDE DEF r
<1>6. Sure(r) = {} /\ r.t # "hello"  BY <1>5 DEF Sure
<1>7. /\ <<r>> \in Seq(Records) /\ Len(<<r>>) = 1 /\ <<r>>[1] = r
      /\ \A x : In(x, <<r>>) <=> x = r
      BY <1>1, OneIn
<1>8. Putting(<<r>>)  BY <1>2, <1>3, <1>6, <1>7 DEF Putting, TypeOK
<1>9. Entered(<<r>>)  BY <1>2, <1>4, <1>5, <1>7 DEF Entered
<1>10. QED  BY <1>4, <1>8, <1>9, PuttingPlays

\* The player takes the Wonder Seed.
LEMMA StepTakeSeed ==
    ASSUME IInv, TakeSeed, Offstage
    PROVE  IInv'
<1> DEFINE r == [t |-> "wonder_seed_awarded"]
           k == <<"wonder_seed", at.stage.stage_key, 0>>
<1>1. r \in Records  BY DEF Records
<1>2. /\ at # None /\ at.stage.kind \in {"course", "fake", "house"}
      /\ Enqueue(<<r>>) /\ UNCHANGED <<at, paired, deaths>>
      /\ IF at.stage.kind = "house" THEN UNCHANGED <<done, owed>>
         ELSE done' = done \cup {k} /\ owed' = owed \cup {k}
      BY DEF TakeSeed, Earn
<1>3. TypeOK  BY DEF IInv
<1>4. at \in Visits /\ at.stage \in Stages /\ at.stage # None
      BY <1>2, <1>3, EventPathAssumption DEF TypeOK, Visits
<1>5. Sure(r) = {} /\ r.t = "wonder_seed_awarded"  BY DEF Sure
<1> HIDE DEF r
<1>6. /\ <<r>> \in Seq(Records) /\ Len(<<r>>) = 1 /\ <<r>>[1] = r
      /\ \A x : In(x, <<r>>) <=> x = r
      BY <1>1, OneIn
<1>7. done \subseteq done' /\ owed \subseteq owed' /\ owed' \subseteq done' /\ paired \subseteq owed
      BY <1>2, <1>3 DEF TypeOK
<1>8. Putting(<<r>>)  BY <1>2, <1>5, <1>6, <1>7 DEF Putting
<1>9. \A x : Here(x) => ByCourse(x, r, Charas) \subseteq done'
  <2>1. SUFFICES ASSUME NEW x, x.stage \in {None, at.stage}
                 PROVE  ByCourse(x, r, Charas) \subseteq done'
        BY <1>2 DEF Here
  <2>2. CASE x.stage = None  BY <2>2 DEF ByCourse
  <2>3. CASE x.stage = at.stage /\ at.stage.kind = "house"
    <3>1. SeedOnly(x.stage)  BY <2>3 DEF SeedOnly
    <3>2. QED  BY <1>5, <3>1 DEF ByCourse
  <2>4. CASE x.stage = at.stage /\ at.stage.kind # "house"
    <3>1. ByCourse(x, r, Charas) \subseteq {k}  BY <1>5, <2>4 DEF ByCourse
    <3>2. QED  BY <1>2, <2>4, <3>1
  <2>5. QED  BY <2>1, <2>2, <2>3, <2>4
<1>10. ASSUME NEW c \in owed' \ owed
       PROVE  /\ c[1] \in {"wonder_seed", "character_block"}
              /\ \A x : x.stage = at.stage => c \in ByCourse(x, r, b.unlocked_charas)
  <2>1. c = k /\ at.stage.kind # "house"  BY <1>2, <1>10
  <2>2. ~SeedOnly(at.stage)  BY <1>2, <2>1 DEF SeedOnly
  <2>3. QED  BY <1>4, <1>5, <2>1, <2>2 DEF ByCourse
<1>11. Acted(<<r>>)  BY <1>2, <1>5, <1>6, <1>9, <1>10 DEF Acted
<1>12. at' \in Visits \cup {None}  BY <1>2, <1>4
<1>13. QED  BY <1>8, <1>11, <1>12, PuttingPlays

\* The player hits a character block.
LEMMA StepHitBlock ==
    ASSUME IInv, NEW read \in BOOLEAN, HitBlock(read), Offstage
    PROVE  IInv'
<1> DEFINE r == [t |-> "char_block_hit", chara |-> IF read THEN at.chara ELSE None]
           k == <<"character_block", at.stage.stage_key, at.chara>>
<1>1. TypeOK  BY DEF IInv
<1>2. /\ at # None /\ at.chara \in at.stage.blocks
      /\ Enqueue(<<r>>) /\ UNCHANGED <<at, paired, deaths>>
      /\ done' = done \cup {k}
      /\ owed' = owed \cup
           (IF /\ at.chara \in b.unlocked_charas
               /\ read \/ at.report # None \/ at.stage.blocks = {at.chara}
            THEN {k} ELSE {})
      BY DEF HitBlock
<1>3. at \in Visits /\ at.stage \in Stages /\ at.stage # None /\ at.chara \in Charas \cup {None}
      BY <1>1, <1>2, EventPathAssumption DEF TypeOK, Visits
<1>4. r \in Records  BY <1>3 DEF Records
<1>5. Sure(r) = {} /\ r.t = "char_block_hit" /\ r.chara = IF read THEN at.chara ELSE None
      BY DEF Sure
<1> HIDE DEF r
<1>6. /\ <<r>> \in Seq(Records) /\ Len(<<r>>) = 1 /\ <<r>>[1] = r
      /\ \A x : In(x, <<r>>) <=> x = r
      BY <1>4, OneIn
<1>7. done \subseteq done' /\ owed \subseteq owed' /\ owed' \subseteq done' /\ paired \subseteq owed
      BY <1>1, <1>2 DEF TypeOK
<1>8. Putting(<<r>>)  BY <1>2, <1>5, <1>6, <1>7 DEF Putting
<1>9. \A x : Here(x) => ByCourse(x, r, Charas) \subseteq done'
  <2>1. SUFFICES ASSUME NEW x, x.stage = at.stage, x.chara \in {None, at.chara}
                 PROVE  ByCourse(x, r, Charas) \subseteq done'
    <3>1. \A x : x.stage = None => ByCourse(x, r, Charas) = {}  BY DEF ByCourse
    <3>2. QED  BY <1>2, <3>1 DEF Here
  <2>2. HitBy(at.stage, r.chara, x.chara) \cap at.stage.blocks \cap Charas \subseteq {at.chara}
    <3>1. CASE r.chara # None \/ x.chara # None  BY <1>5, <2>1, <3>1 DEF HitBy
    <3>2. CASE r.chara = None /\ x.chara = None
      <4>1. HitBy(at.stage, r.chara, x.chara) =
              IF Cardinality(at.stage.blocks) = 1 THEN at.stage.blocks ELSE {}
            BY <3>2 DEF HitBy
      <4>2. CASE Cardinality(at.stage.blocks) = 1
        <5>1. IsFiniteSet(at.stage.blocks)  BY <1>3, EventPathAssumption
        <5>2. \E y : at.stage.blocks = {y}  BY <4>2, <5>1, FS_Singleton
        <5>3. at.stage.blocks = {at.chara}  BY <1>2, <5>2
        <5>4. QED  BY <4>1, <5>3
      <4>3. QED  BY <4>1, <4>2
    <3>3. QED  BY <3>1, <3>2
  <2>3. ByCourse(x, r, Charas) \subseteq {k}
        BY <1>3, <1>5, <2>1, <2>2 DEF ByCourse
  <2>4. QED  BY <1>2, <2>3
<1>10. ASSUME NEW c \in owed' \ owed
       PROVE  /\ c[1] \in {"wonder_seed", "character_block"}
              /\ \A x : x.stage = at.stage /\ x.chara = at.report
                          => c \in ByCourse(x, r, b.unlocked_charas)
  <2>1. /\ c = k /\ at.chara \in b.unlocked_charas
        /\ read \/ at.report # None \/ at.stage.blocks = {at.chara}
        BY <1>2, <1>10
  <2>2. at.chara \in Charas /\ at.chara # None /\ at.report \in {None, at.chara}
        BY <1>1, <1>2, <2>1, EventPathAssumption DEF TypeOK, IInv, Reported
  <2>3. SUFFICES ASSUME NEW x, x.stage = at.stage, x.chara = at.report
                 PROVE  c \in ByCourse(x, r, b.unlocked_charas)
        BY <2>1
  <2>4. at.chara \in HitBy(at.stage, r.chara, x.chara)
    <3>1. CASE read  BY <1>5, <2>2, <3>1 DEF HitBy
    <3>2. CASE ~read /\ at.report # None  BY <1>5, <2>2, <2>3, <3>2 DEF HitBy
    <3>3. CASE ~read /\ at.report = None /\ at.stage.blocks = {at.chara}
      <4>1. Cardinality(at.stage.blocks) = 1  BY <3>3, FS_Singleton
      <4>2. QED  BY <1>2, <1>5, <2>3, <3>3, <4>1 DEF HitBy
    <3>4. QED  BY <2>1, <3>1, <3>2, <3>3
  <2>5. QED  BY <1>2, <1>3, <1>5, <2>1, <2>3, <2>4 DEF ByCourse
<1>11. Acted(<<r>>)  BY <1>2, <1>5, <1>6, <1>9, <1>10 DEF Acted
<1>12. at' \in Visits \cup {None}  BY <1>2, <1>3
<1>13. QED  BY <1>8, <1>11, <1>12, PuttingPlays

\* The player dies.
LEMMA StepDie ==
    ASSUME IInv, Die, Offstage
    PROVE  IInv'
<1> DEFINE r == [t |-> "death_detected"]
<1>1. r \in Records  BY DEF Records
<1>2. Enqueue(<<r>>) /\ deaths' = deaths + 1 /\ UNCHANGED <<at, done, owed, paired>>
      BY DEF Die
<1>3. TypeOK  BY DEF IInv
<1>4. Sure(r) = {} /\ r.t = "death_detected" /\ \A x : ByCourse(x, r, Charas) = {}
      BY DEF Sure, ByCourse
<1> HIDE DEF r
<1>5. /\ <<r>> \in Seq(Records) /\ Len(<<r>>) = 1 /\ <<r>>[1] = r
      /\ \A x : In(x, <<r>>) <=> x = r
      BY <1>1, OneIn
<1>6. Putting(<<r>>)  BY <1>2, <1>3, <1>4, <1>5 DEF Putting, TypeOK
<1>7. Acted(<<r>>)  BY <1>2, <1>4, <1>5 DEF Acted
<1>8. at' \in Visits \cup {None}  BY <1>2, <1>3 DEF TypeOK
<1>9. QED  BY <1>6, <1>7, <1>8, PuttingPlays

\* The records the processor takes no check from.
LEMMA StepLeaveEmpty ==
    ASSUME IInv, Quit \/ LoseToBoss, Offstage
    PROVE  IInv'
<1>1. TypeOK  BY DEF IInv
<1>2. at \in Visits /\ at.stage \in Stages  BY <1>1 DEF TypeOK, Visits, Quit, LoseToBoss
<1>3. at' = None /\ UNCHANGED <<done, owed, paired, deaths>>  BY DEF Quit, LoseToBoss
<1>4. ASSUME NEW r \in Records, Enqueue(<<r>>), Sure(r) = {},
             r.t \in {"course_result", "koopajr_result"}
      PROVE  IInv'
  <2>1. /\ <<r>> \in Seq(Records) /\ Len(<<r>>) = 1 /\ <<r>>[1] = r
        /\ \A x : In(x, <<r>>) <=> x = r
        BY <1>4, OneIn
  <2>2. Putting(<<r>>)  BY <1>1, <1>3, <1>4, <2>1 DEF Putting, TypeOK
  <2>3. \A x : ByCourse(x, r, Charas) = {}  BY <1>4 DEF ByCourse
  <2>4. Acted(<<r>>)  BY <1>3, <1>4, <2>1, <2>3 DEF Acted
  <2>5. at' \in Visits \cup {None}  BY <1>3
  <2>6. QED  BY <2>2, <2>4, <2>5, PuttingPlays
<1>5. CASE Quit
  <2> DEFINE r == [t |-> "course_result", stage |-> at.stage, result |-> 3, top |-> FALSE,
                   goal_id |-> 0, coins_in |-> {}, coins_out |-> {}]
  <2>1. r \in Records /\ Enqueue(<<r>>)  BY <1>2, <1>5 DEF Records, Quit
  <2>2. r.t = "course_result" /\ Sure(r) = {}  BY DEF Sure, ChecksOf, ResultChecks
  <2> HIDE DEF r
  <2>3. QED  BY <1>4, <2>1, <2>2
<1>6. CASE LoseToBoss
  <2> DEFINE r == [t |-> "koopajr_result", stage |-> at.stage, won |-> FALSE]
  <2>1. r \in Records /\ Enqueue(<<r>>)  BY <1>2, <1>6 DEF Records, LoseToBoss
  <2>2. r.t = "koopajr_result" /\ Sure(r) = {}  BY DEF Sure, ChecksOf, BossChecks
  <2> HIDE DEF r
  <2>3. QED  BY <1>4, <2>1, <2>2
<1>7. QED  BY <1>5, <1>6

\* The player buys a Wonder Seed.
LEMMA StepBuySeed ==
    ASSUME IInv, BuySeed, Offstage
    PROVE  IInv'
<1> DEFINE r == [t |-> "general_shop_result", item |-> "seed", shop |-> 0, value |-> 0]
           k == <<"shop_seed", 0, 0>>
<1>1. TypeOK  BY DEF IInv
<1>2. /\ Enqueue(<<r>>) /\ UNCHANGED <<at, paired, deaths>>
      /\ done' = done \cup {k} /\ owed' = owed \cup {k}
      BY DEF BuySeed, Earn
<1>3. r \in Records  BY DEF Records
<1>4. r.t = "general_shop_result" /\ Sure(r) = {k}  BY DEF Sure, ChecksOf, ShopChecks
<1> HIDE DEF r, k
<1>5. /\ <<r>> \in Seq(Records) /\ Len(<<r>>) = 1 /\ <<r>>[1] = r
      /\ \A x : In(x, <<r>>) <=> x = r
      BY <1>3, OneIn
<1>6. Putting(<<r>>)  BY <1>1, <1>2, <1>4, <1>5 DEF Putting, TypeOK
<1>7. \A x : ByCourse(x, r, Charas) = {}  BY <1>4 DEF ByCourse
<1>8. Acted(<<r>>)  BY <1>2, <1>4, <1>5, <1>7 DEF Acted
<1>9. at' \in Visits \cup {None}  BY <1>1, <1>2 DEF TypeOK
<1>10. QED  BY <1>6, <1>8, <1>9, PuttingPlays

\* The player buys a badge.
LEMMA StepBuyBadge ==
    ASSUME IInv, NEW badge \in ShopBadges, NEW seen \in BOOLEAN, BuyBadge(badge, seen), Offstage
    PROVE  IInv'
<1> DEFINE r  == [t |-> "general_shop_result", item |-> "badge", shop |-> 0, value |-> badge]
           q  == [t |-> "badge_acquired", badge |-> badge]
           k  == <<"badge_acquired", badge, 0>>
           q1 == IF seen THEN <<q>> ELSE <<>>
           rs == <<r>> \o q1
<1>1. TypeOK  BY DEF IInv
<1>2. /\ Enqueue(rs) /\ UNCHANGED <<at, deaths>>
      /\ done' = done \cup {k} /\ owed' = owed \cup {k}
      /\ paired' = paired \cup (IF seen THEN {k} ELSE {})
      BY DEF BuyBadge, Earn
<1>3. r \in Records /\ q \in Records  BY DEF Records
<1>4. /\ r.t = "general_shop_result" /\ Sure(r) = {k}
      /\ q.t = "badge_acquired" /\ Sure(q) = {k}
      BY DEF Sure, ChecksOf, ShopChecks, BadgeChecks
<1> HIDE DEF r, q, k
<1>5. q1 \in Seq(Records) /\ \A x : In(x, q1) <=> seen /\ x = q
      BY <1>3, OneIn, NoneIn
<1>6. <<r>> \in Seq(Records) /\ \A x : In(x, <<r>>) <=> x = r
      BY <1>3, OneIn
<1> HIDE DEF q1
<1>7. rs \in Seq(Records) /\ \A x : In(x, rs) <=> x = r \/ (seen /\ x = q)
      BY <1>5, <1>6, JoinIn
<1> HIDE DEF rs
<1>8. q # r  BY <1>4
<1>9. \A c \in paired' \ paired : seen /\ c = k  BY <1>2
<1>10. Putting(rs)
  <2>1. \A x : In(x, rs) => x.t # "hello" /\ Sure(x) \subseteq done'
        BY <1>2, <1>4, <1>7
  <2>2. /\ done \subseteq done' /\ owed \subseteq owed' /\ owed' \subseteq done'
        /\ paired' \subseteq owed'
        BY <1>1, <1>2 DEF TypeOK
  <2>3. \A c \in paired' \ paired : \E y, x : /\ In(y, rs) /\ In(x, rs) /\ y # x
                                              /\ c \in Sure(y) \cap Sure(x)
        BY <1>4, <1>7, <1>8, <1>9
  <2>4. QED  BY <1>2, <1>7, <2>1, <2>2, <2>3 DEF Putting
<1>11. Acted(rs)
  <2>1. \A x : In(x, rs) => x.t \notin {"course_in", "death_detected",
                                        "wonder_seed_awarded", "char_block_hit"}
        BY <1>4, <1>7
  <2>2. \A c \in owed' \ owed : \E x : In(x, rs) /\ c \in Sure(x)
        BY <1>2, <1>4, <1>7
  <2>3. at' \in {None, at} /\ deaths' = deaths  BY <1>2
  <2>4. QED  BY <2>1, <2>2, <2>3, QuietActs
<1>12. at' \in Visits \cup {None}  BY <1>1, <1>2 DEF TypeOK
<1>13. QED  BY <1>10, <1>11, <1>12, PuttingPlays

\* A result's checks are what the player achieved by leaving.
LEMMA ResultIsAchieved ==
    ASSUME NEW s \in Stages, NEW exit \in Exits(s), NEW top \in BOOLEAN, NEW coins, NEW got,
           top => s.kind \in {"course", "fake"}, got \cap coins = {},
           NEW r, r.t = "course_result", r.stage = s, r.result = 1, r.top = top,
           r.goal_id = GoalId(exit), r.coins_in = coins, r.coins_out = coins \cup got
    PROVE  Sure(r) = Achieved(s, exit, top, got)
<1> DEFINE kinds ==
             CASE exit = "door" \/ (s.kind = "break" /\ exit = "main") -> {"wonder_seed"}
               [] s.kind = "palace" /\ exit = "main" -> {"palace_clear"}
               [] s.kind \in {"course", "fake"} /\ exit = "main" -> {"normal_exit"}
               [] exit = "secret" -> {"secret_exit"}
               [] exit = "fake"   -> {"fake_exit"}
               [] OTHER           -> {}
           flag == IF top THEN {"top_of_flag"} ELSE {}
<1>1. s.kind \in {"course", "fake", "palace", "house", "break"}  BY EventPathAssumption
<1>2. ExitKinds(s, GoalId(exit), top) = kinds \cup flag
  <2>1. CASE s.kind = "course"
    <3>1. exit \in {"main", "secret"}  BY <2>1 DEF Exits
    <3>2. CASE exit = "main"
      <4>1. GoalId(exit) = 0 /\ kinds = {"normal_exit"}  BY <2>1, <3>2 DEF GoalId
      <4> HIDE DEF kinds
      <4>2. QED  BY <2>1, <4>1 DEF ExitKinds, FlagKinds
    <3>3. CASE exit = "secret"
      <4>1. GoalId(exit) = 1 /\ kinds = {"secret_exit"}  BY <2>1, <3>3 DEF GoalId
      <4> HIDE DEF kinds
      <4>2. QED  BY <2>1, <4>1 DEF ExitKinds, FlagKinds
    <3>4. QED  BY <3>1, <3>2, <3>3
  <2>2. CASE s.kind = "fake"
    <3>1. exit \in {"main", "fake"}  BY <2>2 DEF Exits
    <3>2. CASE exit = "main"
      <4>1. GoalId(exit) = 0 /\ kinds = {"normal_exit"}  BY <2>2, <3>2 DEF GoalId
      <4> HIDE DEF kinds
      <4>2. QED  BY <2>2, <4>1 DEF ExitKinds, FlagKinds
    <3>3. CASE exit = "fake"
      <4>1. GoalId(exit) = 1 /\ kinds = {"fake_exit"}  BY <2>2, <3>3 DEF GoalId
      <4> HIDE DEF kinds
      <4>2. QED  BY <2>2, <4>1 DEF ExitKinds, FlagKinds
    <3>4. QED  BY <3>1, <3>2, <3>3
  <2>3. CASE s.kind = "palace"
    <3>1. exit \in {"main", "secret"} /\ ~top  BY <2>3 DEF Exits
    <3>2. CASE exit = "main"
      <4>1. GoalId(exit) = 0 /\ kinds = {"palace_clear"}  BY <2>3, <3>2 DEF GoalId
      <4> HIDE DEF kinds
      <4>2. QED  BY <2>3, <3>1, <4>1 DEF ExitKinds
    <3>3. CASE exit = "secret"
      <4>1. GoalId(exit) = 1 /\ kinds = {"secret_exit"}  BY <2>3, <3>3 DEF GoalId
      <4> HIDE DEF kinds
      <4>2. QED  BY <2>3, <3>1, <4>1 DEF ExitKinds, FlagKinds
    <3>4. QED  BY <3>1, <3>2, <3>3
  <2>4. CASE s.kind = "house"
    <3>1. exit = "door" /\ ~top  BY <2>4 DEF Exits
    <3>2. kinds = {"wonder_seed"}  BY <3>1
    <3> HIDE DEF kinds
    <3>3. QED  BY <2>4, <3>1, <3>2 DEF ExitKinds
  <2>5. CASE s.kind = "break"
    <3>1. exit \in {"main", "entrance"} /\ ~top  BY <2>5 DEF Exits
    <3>2. CASE exit = "main"
      <4>1. GoalId(exit) = 0 /\ kinds = {"wonder_seed"}  BY <2>5, <3>2 DEF GoalId
      <4> HIDE DEF kinds
      <4>2. QED  BY <2>5, <3>1, <4>1 DEF ExitKinds
    <3>3. CASE exit = "entrance"
      <4>1. GoalId(exit) = -1 /\ kinds = {}  BY <2>5, <3>3 DEF GoalId
      <4> HIDE DEF kinds
      <4>2. QED  BY <2>5, <3>1, <4>1 DEF ExitKinds
    <3>4. QED  BY <3>1, <3>2, <3>3
  <2>6. QED  BY <1>1, <2>1, <2>2, <2>3, <2>4, <2>5
<1>3. Sure(r) = {<<k, s.stage_key, 0>> : k \in ExitKinds(s, GoalId(exit), top)}
                \cup TenCoinChecks(r) \cup ClearBadge(s)
      BY DEF Sure, ChecksOf, ResultChecks
<1>4. TenCoinChecks(r) = {<<"ten_coin", s.stage_key, i>> : i \in got}
  <2>1. r.coins_out \ r.coins_in = got  OBVIOUS
  <2>2. QED  BY <2>1 DEF TenCoinChecks
<1>5. Achieved(s, exit, top, got) =
        {<<k, s.stage_key, 0>> : k \in kinds}
        \cup (IF top THEN {<<"top_of_flag", s.stage_key, 0>>} ELSE {})
        \cup {<<"ten_coin", s.stage_key, i>> : i \in got}
        \cup (IF s.badge = None THEN {} ELSE {<<"badge_acquired", s.badge, 0>>})
      BY DEF Achieved
<1> HIDE DEF kinds
<1>6. {<<k, s.stage_key, 0>> : k \in kinds \cup flag} =
        {<<k, s.stage_key, 0>> : k \in kinds}
        \cup (IF top THEN {<<"top_of_flag", s.stage_key, 0>>} ELSE {})
      OBVIOUS
<1>7. ClearBadge(s) = IF s.badge = None THEN {} ELSE {<<"badge_acquired", s.badge, 0>>}
      BY DEF ClearBadge
<1>8. QED  BY <1>2, <1>3, <1>4, <1>5, <1>6, <1>7

\* The player clears a course: the result, the palace's other records, the
\* badge and the goal, in the order the hooks put them.
LEMMA StepClear ==
    ASSUME IInv, NEW exit, NEW top \in BOOLEAN, NEW got \in SUBSET Coins,
           NEW skips \in BOOLEAN, NEW seen \in BOOLEAN,
           Clear(exit, top, got, skips, seen), Offstage
    PROVE  IInv'
<1> DEFINE s     == at.stage
           coins == {i \in Coins : <<"coin", s.stage_key, i>> \in saved}
           first == s.castle = "final" /\ exit = "main" /\ <<"goal">> \notin saved
           boss  == s.kind = "palace" /\ exit = "main" /\ ~skips
           rb    == [t |-> "badge_acquired", badge |-> s.badge]
           rr    == [t |-> "course_result", stage |-> s, result |-> 1, top |-> top,
                     goal_id |-> GoalId(exit), coins_in |-> coins, coins_out |-> coins \cup got]
           rk    == [t |-> "koopajr_result", stage |-> s, won |-> TRUE]
           rg    == [t |-> "game_goal_reached"]
           kb    == <<"badge_acquired", s.badge, 0>>
           kp    == <<"palace_clear", s.stage_key, 0>>
           won   == Achieved(s, exit, top, got)
           qb    == IF seen THEN <<rb>> ELSE <<>>
           qk    == IF boss THEN <<rk>> ELSE <<>>
           qg    == IF first THEN <<rg>> ELSE <<>>
           rs    == qb \o <<rr>> \o qk \o qg
<1>1. TypeOK  BY DEF IInv
<1>2. /\ at # None /\ exit \in Exits(s) /\ (top => s.kind \in {"course", "fake"})
      /\ got \subseteq Coins \ coins /\ (seen => s.badge # None)
      /\ at' = None /\ UNCHANGED deaths
      BY DEF Clear
<1>3. /\ done' = done \cup (won \cup (IF first THEN {Goal} ELSE {}))
      /\ owed' = owed \cup (won \cup (IF first THEN {Goal} ELSE {}))
      /\ paired' = paired \cup (IF boss THEN {kp} ELSE {}) \cup (IF seen THEN {kb} ELSE {})
      BY DEF Clear, Earn, Goal
<1>4. Enqueue(rs)  BY DEF Clear
<1>5. s \in Stages  BY <1>1, <1>2 DEF TypeOK, Visits
<1>6. GoalId(exit) \in {-1, 0, 1}  BY DEF GoalId
<1>7. rb \in Records /\ rk \in Records /\ rg \in Records  BY <1>5 DEF Records
<1>8. rr \in Records
  <2>1. coins \in SUBSET Coins /\ coins \cup got \in SUBSET Coins  OBVIOUS
  <2> HIDE DEF s, coins
  <2>2. QED  BY <1>5, <1>6, <2>1 DEF Records
<1>9. Sure(rr) = won
  <2>1. got \cap coins = {}  BY <1>2
  <2>2. /\ rr.t = "course_result" /\ rr.stage = s /\ rr.result = 1 /\ rr.top = top
        /\ rr.goal_id = GoalId(exit) /\ rr.coins_in = coins /\ rr.coins_out = coins \cup got
        OBVIOUS
  <2> HIDE DEF s, coins, rr
  <2>3. QED  BY <1>2, <1>5, <2>1, <2>2, ResultIsAchieved
<1>10. Sure(rb) = {kb} /\ Sure(rk) = {kp} /\ Sure(rg) = {Goal}
       BY DEF Sure, ChecksOf, BossChecks, BadgeChecks
<1>11. rb.t = "badge_acquired" /\ rr.t = "course_result" /\ rk.t = "koopajr_result"
       /\ rg.t = "game_goal_reached"
       OBVIOUS
<1>12. boss => kp \in won  BY DEF Achieved
<1>13. seen => kb \in won  BY <1>2 DEF Achieved
<1> HIDE DEF rb, rr, rk, rg, kb, kp, won, boss, first, s, coins
<1>14. qb \in Seq(Records) /\ \A x : In(x, qb) <=> seen /\ x = rb  BY <1>7, OneIn, NoneIn
<1>15. qk \in Seq(Records) /\ \A x : In(x, qk) <=> boss /\ x = rk  BY <1>7, OneIn, NoneIn
<1>16. qg \in Seq(Records) /\ \A x : In(x, qg) <=> first /\ x = rg  BY <1>7, OneIn, NoneIn
<1>17. <<rr>> \in Seq(Records) /\ \A x : In(x, <<rr>>) <=> x = rr  BY <1>8, OneIn
<1> HIDE DEF qb, qk, qg
<1>18. qb \o <<rr>> \in Seq(Records)
       /\ \A x : In(x, qb \o <<rr>>) <=> (seen /\ x = rb) \/ x = rr
       BY <1>14, <1>17, JoinIn
<1>19. qb \o <<rr>> \o qk \in Seq(Records)
       /\ \A x : In(x, qb \o <<rr>> \o qk) <=> (seen /\ x = rb) \/ x = rr \/ (boss /\ x = rk)
       BY <1>15, <1>18, JoinIn
<1>20. rs \in Seq(Records)
       /\ \A x : In(x, rs) <=> (seen /\ x = rb) \/ x = rr \/ (boss /\ x = rk) \/ (first /\ x = rg)
       BY <1>16, <1>19, JoinIn
<1> HIDE DEF rs
<1>21. rb # rr /\ rk # rr  BY <1>11
<1>22. Putting(rs)
  <2>1. \A x : In(x, rs) => x.t # "hello" /\ Sure(x) \subseteq done'
        BY <1>3, <1>9, <1>10, <1>11, <1>12, <1>13, <1>20
  <2>2. /\ done \subseteq done' /\ owed \subseteq owed' /\ owed' \subseteq done'
        /\ paired' \subseteq owed'
        BY <1>1, <1>3, <1>12, <1>13 DEF TypeOK
  <2>3. \A c \in paired' \ paired : \E y, x : /\ In(y, rs) /\ In(x, rs) /\ y # x
                                              /\ c \in Sure(y) \cap Sure(x)
    <3>1. SUFFICES ASSUME NEW c \in paired' \ paired
                   PROVE  \E y, x : In(y, rs) /\ In(x, rs) /\ y # x /\ c \in Sure(y) \cap Sure(x)
          OBVIOUS
    <3>2. (boss /\ c = kp) \/ (seen /\ c = kb)  BY <1>3, <3>1
    <3>3. CASE boss /\ c = kp  BY <1>9, <1>10, <1>12, <1>20, <1>21, <3>3
    <3>4. CASE seen /\ c = kb  BY <1>9, <1>10, <1>13, <1>20, <1>21, <3>4
    <3>5. QED  BY <3>2, <3>3, <3>4
  <2>4. QED  BY <1>4, <1>20, <2>1, <2>2, <2>3 DEF Putting
<1>23. Acted(rs)
  <2>1. \A x : In(x, rs) => x.t \notin {"course_in", "death_detected",
                                        "wonder_seed_awarded", "char_block_hit"}
        BY <1>11, <1>20
  <2>2. \A c \in owed' \ owed : \E x : In(x, rs) /\ c \in Sure(x)
    <3>1. SUFFICES ASSUME NEW c \in owed' \ owed  PROVE \E x : In(x, rs) /\ c \in Sure(x)
          OBVIOUS
    <3>2. c \in won \/ (first /\ c = Goal)  BY <1>3, <3>1
    <3>3. QED  BY <1>9, <1>10, <1>20, <3>2
  <2>3. at' \in {None, at} /\ deaths' = deaths  BY <1>2
  <2>4. QED  BY <2>1, <2>2, <2>3, QuietActs
<1>24. at' \in Visits \cup {None}  BY <1>2
<1>25. QED  BY <1>22, <1>23, <1>24, PuttingPlays

-----------------------------------------------------------------------------
(* The theorems. *)

\* It holds when nothing has been played.
LEMMA Initially == Init => IInv
<1> SUFFICES ASSUME Init  PROVE IInv  OBVIOUS
<1> USE DEF Init
<1>1. TypeOK
  <2>1. /\ DOMAIN b = DOMAIN BridgeState0 /\ b.death_count \in Nat
        /\ b.current_course \in Stages \cup {None} /\ b.chara \in Charas \cup {None}
        /\ b.unlocked_charas \subseteq unlocked
        BY DEF BridgeState0
  <2>2. ring \in Seq(Records) /\ Len(ring) <= Cap /\ wire \in Seq(Records)
        BY EventPathAssumption
  <2>3. /\ conn \in {"resolve", "connect", "ready"} /\ socket \in BOOLEAN /\ up \in BOOLEAN
        /\ (socket => up /\ conn = "ready") /\ {replayed, blind, forgot} \subseteq BOOLEAN
        OBVIOUS
  <2>4. /\ at \in Visits \cup {None} /\ host_ip \in Hosts
        /\ {target, advertised} \subseteq Hosts \cup {Loopback, None}
        /\ unlocked \subseteq Charas
        OBVIOUS
  <2>5. owed \subseteq done /\ paired \subseteq owed /\ {told, deaths} \subseteq Nat
        /\ lost \in 0..2
        OBVIOUS
  <2>6. QED  BY <2>1, <2>2, <2>3, <2>4, <2>5 DEF TypeOK
<1>2. N = 0  BY DEF N
<1>3. Credited /\ Reported  BY DEF Credited, Reported, BridgeState0
<1>4. Cardinality(Deaths(Z, N)) = 0
  <2>1. Deaths(Z, N) = {}  BY <1>2 DEF Deaths
  <2>2. QED  BY <2>1, FS_EmptySet
<1>5. SoundInv
  <2>1. Justified(Z, N) /\ Attributed(Z, N) /\ Visiting(Z, N)
        BY <1>2 DEF Justified, Attributed, Visiting
  <2>2. QED  BY <1>4, <2>1 DEF SoundInv
<1>6. CompleteInv  BY <1>4 DEF CompleteInv, InCourse
<1>7. PairedInv  BY DEF PairedInv
<1>8. Stale  BY DEF Stale, Earned
<1>9. QED  BY <1>1, <1>3, <1>5, <1>6, <1>7, <1>8 DEF IInv

\* It holds of a state as of the one before that is like it.
LEMMA Stuttering == IInv /\ UNCHANGED vars => IInv'
<1> SUFFICES ASSUME IInv, UNCHANGED vars  PROVE IInv'  OBVIOUS
<1>1. /\ UNCHANGED <<wire, ring, lost, replayed, blind, at, done, owed, paired, deaths,
                     credited, told>>
      /\ UNCHANGED <<b, forgot, unlocked, conn, target, socket, up, advertised, host_ip>>
      BY DEF vars, gameVars, netVars, bridgeVars, lossVars
<1>2. Thinned(0, 0, 0)  BY <1>1, StillThinned
<1>3. TypeOK'  BY <1>1 DEF IInv, TypeOK
<1>4. Credited'  BY <1>1 DEF IInv, Credited
<1>5. Remembers  BY <1>1 DEF Remembers, Z, Ctx
<1>6. Stale'  BY DEF IInv, Stale, vars, gameVars
<1>7. QED  BY <1>2, <1>3, <1>4, <1>5, <1>6, ThinnedStep

\* The invariant is inductive.
LEMMA Inductive == IInv /\ [Next]_vars => IInv'
<1> SUFFICES ASSUME IInv, [Next]_vars  PROVE IInv'  OBVIOUS
<1>1. CASE Game
  <2>1. Offstage  BY <1>1 DEF Game, Offstage
  <2>2. ASSUME NEW s \in Stages, NEW c \in Charas \cup {None}, NEW known \in BOOLEAN,
               Enter(s, c, known)
        PROVE  IInv'
        BY <2>1, <2>2, StepEnter
  <2>3. CASE TakeSeed  BY <2>1, <2>3, StepTakeSeed
  <2>4. CASE Die  BY <2>1, <2>4, StepDie
  <2>5. CASE BuySeed  BY <2>1, <2>5, StepBuySeed
  <2>6. ASSUME NEW read \in BOOLEAN, HitBlock(read)  PROVE IInv'
        BY <2>1, <2>6, StepHitBlock
  <2>7. ASSUME NEW badge \in ShopBadges, NEW seen \in BOOLEAN, BuyBadge(badge, seen)
        PROVE  IInv'
        BY <2>1, <2>7, StepBuyBadge
  <2>8. CASE Leave
    <3>1. ASSUME NEW exit \in {"main", "secret", "fake", "door", "entrance"},
                 NEW top \in BOOLEAN, NEW skips \in BOOLEAN, NEW seen \in BOOLEAN,
                 NEW got \in SUBSET Coins, Clear(exit, top, got, skips, seen)
          PROVE  IInv'
          BY <2>1, <3>1, StepClear
    <3>2. CASE Quit \/ LoseToBoss  BY <2>1, <3>2, StepLeaveEmpty
    <3>3. QED  BY <2>8, <3>1, <3>2 DEF Leave
  <2>9. QED  BY <1>1, <2>2, <2>3, <2>4, <2>5, <2>6, <2>7, <2>8 DEF Game
<1>2. CASE Bridge
  <2>1. CASE Dispatch  BY <2>1, StepDispatch
  <2>2. ASSUME NEW new \in SUBSET Charas, ReceivedItems(new)  PROVE IInv'
        BY <2>2, StepItems
  <2>3. ASSUME NEW address \in Hosts \cup {Loopback, None}, Start(address)  PROVE IInv'
        BY <2>3, StepStart
  <2>4. QED  BY <1>2, <2>1, <2>2, <2>3 DEF Bridge
<1>3. CASE Resolve \/ Disconnect  BY <1>3, StepResolve
<1>4. CASE ConnectOnce  BY <1>4, StepConnect
<1>5. CASE PumpOutbound  BY <1>5, StepPump
<1>6. CASE DropLink  BY <1>6, StepDropLink
<1>7. CASE Stop  BY <1>7, StepStop
<1>8. CASE Renumber  BY <1>8, StepRenumber
<1>9. CASE OverlapLoses  BY <1>9, StepOverlapLoses
<1>10. CASE OverlapReplays  BY <1>10, StepOverlapReplays
<1>11. CASE UNCHANGED vars  BY <1>11, Stuttering
<1>12. QED
       BY <1>1, <1>2, <1>3, <1>4, <1>5, <1>6, <1>7, <1>8, <1>9, <1>10, <1>11 DEF Next

(* What the stream carries is earned, and while nothing is lost it carries *)
(* what is owed: of every reachable state.                                 *)
THEOREM Invariance == Spec => []IInv
BY Initially, Inductive, PTL DEF Spec

(* No check is credited that the player did not achieve, whatever the      *)
(* network, the restarts of the client and the full ring lose, but for the *)
(* Nerve's seeds and the blocks once a course_in is lost (processor.py's   *)
(* attribution by current_course), or records are sent again; and a death  *)
(* is reported twice only in that case.                                    *)
THEOREM NothingUnearned == Spec => []Sound
<1>1. IInv => Sound
  <2>1. SUFFICES ASSUME IInv  PROVE Sound  OBVIOUS
  <2>2. N \in Nat
    <3>1. wire \in Seq(Records) /\ ring \in Seq(Records)  BY <2>1 DEF IInv, TypeOK
    <3>2. Len(wire) \in Nat /\ Len(ring) \in Nat  BY <3>1
    <3>3. QED  BY <3>2 DEF N
  <2>3. Cardinality(Deaths(Z, N)) \in Nat  BY <2>2, DeathsFinite
  <2>4. /\ told \in Nat /\ deaths \in Nat
        /\ replayed \/ told + Cardinality(Deaths(Z, N)) <= deaths
        BY <2>1 DEF IInv, TypeOK, SoundInv
  <2>5. replayed \/ told <= deaths  BY <2>3, <2>4
  <2>6. QED  BY <2>1, <2>5 DEF IInv, SoundInv, Sound
<1>2. QED  BY <1>1, Invariance, PTL

\* An empty ring and wire leave no record.
LEMMA Drained ==
    ASSUME ring = <<>>, wire = <<>>
    PROVE  N = 0 /\ Cardinality(Deaths(Z, N)) = 0
<1>1. N = 0  BY DEF N
<1>2. Deaths(Z, N) = {}  BY <1>1 DEF Deaths
<1>3. QED  BY <1>1, <1>2, FS_EmptySet

(* Once all is dispatched and nothing was lost, not by overlapping pushes  *)
(* either, what the player achieved is credited and every death told: all  *)
(* the records of a clear are put and each is processed in its course.     *)
(* What the bridge attributes is excused once it forgot, or records were   *)
(* sent again.                                                             *)
THEOREM NothingMissed == Spec => []Complete
<1>1. IInv => Complete
  <2>1. SUFFICES ASSUME IInv, ring = <<>>, wire = <<>>, lost = 0
                 PROVE  /\ told >= deaths
                        /\ \A c \in owed \ credited :
                             forgot /\ c[1] \in {"wonder_seed", "character_block"}
        BY DEF Complete
  <2>2. N = 0 /\ Cardinality(Deaths(Z, N)) = 0  BY <2>1, Drained
  <2>3. told \in Nat /\ told + Cardinality(Deaths(Z, N)) >= deaths
        /\ \A c \in owed \ credited : Carried(Z, N, c)
        BY <2>1 DEF IInv, TypeOK, CompleteInv
  <2>4. told >= deaths  BY <2>2, <2>3
  <2>5. QED  BY <2>2, <2>3, <2>4 DEF Carried
<1>2. QED  BY <1>1, Invariance, PTL

(* A check that two records stand for, a palace's clear or a badge the     *)
(* container diff sees, survives the loss of any one record.               *)
THEOREM PairsSurvive == Spec => []RedundantSurvives
<1>1. IInv => RedundantSurvives
  <2>1. SUFFICES ASSUME IInv, ring = <<>>, wire = <<>>, lost <= 1, NEW c \in paired \ credited
                 PROVE  FALSE
        BY DEF RedundantSurvives
  <2>2. N = 0  BY <2>1, Drained
  <2>3. Twice(Z, N, c)  BY <2>1 DEF IInv, PairedInv
  <2>4. QED  BY <2>1, <2>2, <2>3 DEF Twice
<1>2. QED  BY <1>1, Invariance, PTL
=============================================================================
