--------------------------- MODULE JournalSyncProofs ---------------------------
(***************************************************************************)
(* Proofs about the journal stores, for any commanders, files, lines,       *)
(* reuses of a file name, restarts and failed syncs.                        *)
(*                                                                         *)
(* What a store holds is judged against what the folder holds now.  A line  *)
(* is written once, into one file, so a row whose line is still in the      *)
(* folder stands where the row says; a row whose line is gone is older than *)
(* whatever its file holds now.  The folder only ever grows a file or       *)
(* empties it, and an ingest only ever takes what stands behind the         *)
(* checkpoint, after archiving what is gone.                                *)
(*                                                                         *)
(* Of a file whose name was used once the checkpoint stands for its lines:  *)
(* what is before it is in the store or was refused.  Where every launch    *)
(* opens such a file of its own, a commander's files are read in turn, each *)
(* to its end, so a store that has an event has all the older ones of its   *)
(* commander, and its watermark is a boundary.  Whatever a sync makes of a  *)
(* file whose owner it cannot read is set apart.                            *)
(***************************************************************************)
EXTENDS JournalSync, SequenceTheorems, WellFoundedInduction, TLAPS

\* What a file holds, n lines ever written: later lines stand further down,
\* and no line is in two files.
FolderOk(C, n) ==
  /\ C \in [File -> Seq(Nat)]
  /\ \A f \in File : /\ Len(C[f]) <= n
                     /\ \A i \in 1 .. Len(C[f]) : C[f][i] \in 1 .. n
                     /\ \A i, j \in 1 .. Len(C[f]) : i < j => C[f][i] < C[f][j]
  /\ \A f, g \in File : \A i \in 1 .. Len(C[f]), j \in 1 .. Len(C[g]) :
       C[f][i] = C[g][j] => f = g

\* One more line in f, and f emptied.
Longer(C, D, f, n) == D = [C EXCEPT ![f] = Append(C[f], n + 1)]
Shorter(C, D, f) == D = [C EXCEPT ![f] = <<>>]

Entry == [file : File, gen : Nat, at : Nat \ {0}, line : Nat \ {0}]

\* A row whose line is where the row says it is.
Current(r, C) == r.at \in 1 .. Len(C[r.file]) /\ C[r.file][r.at] = r.line

\* A store of the rows rs and the checkpoints cp, u reuses having happened: a
\* row's line is in the folder only where the row says, and only if the row is
\* not archived; else it is older than all the file holds.
RowsOk(rs, C, n) ==
  \A r \in rs :
    /\ r.line <= n /\ r.at <= n
    /\ \A f \in File : \A i \in 1 .. Len(C[f]) :
         C[f][i] = r.line => f = r.file /\ i = r.at /\ r.gen = 0
    /\ ~Current(r, C) => \A i \in 1 .. Len(C[r.file]) : r.line < C[r.file][i]

\* The checkpoint is behind the rows; and past the end of the file only when the
\* file was emptied since, a reuse no archive stands for yet.
CheckpointsOk(rs, cp, C, u) ==
  /\ cp \in [File -> Nat]
  /\ \A r \in rs :
       /\ r.gen = 0 => 2 * r.at <= cp[r.file]
       /\ r.gen <= u
       /\ Current(r, C) => cp[r.file] <= 2 * Len(C[r.file])
       /\ cp[r.file] > 2 * Len(C[r.file]) => r.gen < u

Single(rs) == \A r, s \in rs : r.line = s.line => r = s
InOrder(rs) ==
  \A r, s \in rs : r.file = s.file /\ Before(r, s) => r.line < s.line

StoreOk(rs, cp, C, n, u) ==
  /\ rs \subseteq Entry /\ \A f \in File : cp[f] <= 2 * n
  /\ RowsOk(rs, C, n) /\ CheckpointsOk(rs, cp, C, u)
  /\ Single(rs) /\ InOrder(rs)
-----------------------------------------------------------------------------
(* The folder.                                                              *)

LEMMA Grown ==
  ASSUME NEW C, NEW n \in Nat, FolderOk(C, n), NEW f \in File, NEW D,
         Longer(C, D, f, n)
  PROVE  /\ FolderOk(D, n + 1)
         /\ \A g \in File : g # f => D[g] = C[g]
         /\ Len(D[f]) = Len(C[f]) + 1 /\ D[f][Len(C[f]) + 1] = n + 1
         /\ \A i \in 1 .. Len(C[f]) : D[f][i] = C[f][i]
<1>1. C \in [File -> Seq(Nat)] /\ C[f] \in Seq(Nat) /\ Len(C[f]) \in Nat
  BY DEF FolderOk
<1>2. PICK s \in Seq(Nat) : s = C[f]
  BY <1>1
<1>3. n + 1 \in Nat /\ Append(s, n + 1) \in Seq(Nat)
  BY AppendProperties
<1>4. PICK t \in Seq(Nat) :
        /\ t = Append(s, n + 1)
        /\ Len(s) \in Nat /\ Len(t) = Len(s) + 1 /\ t[Len(s) + 1] = n + 1
        /\ \A i \in 1 .. Len(s) : t[i] = s[i]
  <2>1. /\ Len(Append(s, n + 1)) = Len(s) + 1 /\ Append(s, n + 1)[Len(s) + 1] = n + 1
        /\ \A i \in 1 .. Len(s) : Append(s, n + 1)[i] = s[i]
    BY <1>3, AppendProperties
  <2>2. Len(s) \in Nat
    BY LenProperties
  <2> QED BY <1>3, <2>1, <2>2, Zenon
<1>5. D = [C EXCEPT ![f] = t] /\ D \in [File -> Seq(Nat)] /\ D[f] = t
      /\ \A g \in File : g # f => D[g] = C[g]
  BY <1>1, <1>2, <1>4 DEF Longer
<1>6. \A g \in File : Len(C[g]) \in Nat
  BY <1>1
<1>7. ASSUME NEW g \in File
      PROVE  /\ Len(D[g]) <= n + 1
             /\ \A i \in 1 .. Len(D[g]) : D[g][i] \in 1 .. (n + 1)
             /\ \A i, j \in 1 .. Len(D[g]) : i < j => D[g][i] < D[g][j]
  <2>1. CASE g = f
    <3>1. /\ Len(s) <= n /\ \A i \in 1 .. Len(s) : s[i] \in 1 .. n
          /\ \A i, j \in 1 .. Len(s) : i < j => s[i] < s[j]
      BY <1>2 DEF FolderOk
    <3>2. \A i \in 1 .. Len(t) :
            /\ \/ i \in 1 .. Len(s) /\ t[i] = s[i]
               \/ i = Len(s) + 1 /\ t[i] = n + 1
            /\ t[i] \in 1 .. (n + 1)
      <4> SUFFICES ASSUME NEW i \in 1 .. Len(t)
                   PROVE  /\ \/ i \in 1 .. Len(s) /\ t[i] = s[i]
                             \/ i = Len(s) + 1 /\ t[i] = n + 1
                          /\ t[i] \in 1 .. (n + 1)
        OBVIOUS
      <4>1. i \in 1 .. Len(s) \/ i = Len(s) + 1
        BY <1>4
      <4> QED BY <4>1, <3>1, <1>4
    <3>3. \A i, j \in 1 .. Len(t) : i < j => t[i] < t[j]
      <4> SUFFICES ASSUME NEW i \in 1 .. Len(t), NEW j \in 1 .. Len(t), i < j
                   PROVE  t[i] < t[j]
        OBVIOUS
      <4>1. i \in 1 .. Len(s) /\ t[i] = s[i] /\ s[i] \in 1 .. n
        BY <3>1, <3>2, <1>4
      <4>2. CASE j \in 1 .. Len(s)
        BY <4>1, <4>2, <3>1, <1>4
      <4>3. CASE j = Len(s) + 1
        BY <4>1, <4>3, <1>4
      <4> QED BY <4>2, <4>3, <3>2
    <3>4. Len(t) <= n + 1
      BY <3>1, <1>4
    <3> QED BY <2>1, <3>2, <3>3, <3>4, <1>5
  <2>2. CASE g # f
    BY <2>2, <1>5, <1>6 DEF FolderOk
  <2> QED BY <2>1, <2>2
<1>8. \A x \in File \ {f} : \A k \in 1 .. Len(C[x]), l \in 1 .. Len(t) :
        t[l] # C[x][k]
  <2> SUFFICES ASSUME NEW x \in File \ {f}, NEW k \in 1 .. Len(C[x]),
                      NEW l \in 1 .. Len(t), t[l] = C[x][k]
               PROVE  FALSE
    OBVIOUS
  <2>1. C[x][k] \in 1 .. n
    BY DEF FolderOk
  <2>2. l # Len(s) + 1
    BY <2>1, <1>4
  <2>3. l \in 1 .. Len(s) /\ s[l] = C[x][k]
    BY <2>2, <1>4
  <2>4. f = x
    BY <2>3, <1>2 DEF FolderOk
  <2> QED BY <2>4
<1>9. \A g, h \in File : \A i \in 1 .. Len(D[g]), j \in 1 .. Len(D[h]) :
        D[g][i] = D[h][j] => g = h
  <2> SUFFICES ASSUME NEW g \in File, NEW h \in File, NEW i \in 1 .. Len(D[g]),
                      NEW j \in 1 .. Len(D[h]), D[g][i] = D[h][j], g # h
               PROVE  FALSE
    OBVIOUS
  <2>1. CASE g # f /\ h # f
    BY <2>1, <1>5 DEF FolderOk
  <2>2. CASE g = f
    <3>1. h \in File \ {f} /\ D[h] = C[h] /\ D[g] = t
      BY <2>2, <1>5
    <3> QED BY <3>1, <1>8
  <2>3. CASE h = f
    <3>1. g \in File \ {f} /\ D[g] = C[g] /\ D[h] = t
      BY <2>3, <1>5
    <3> QED BY <3>1, <1>8
  <2> QED BY <2>1, <2>2, <2>3
<1>10. FolderOk(D, n + 1)
  BY <1>5, <1>7, <1>9 DEF FolderOk
<1> QED BY <1>2, <1>4, <1>5, <1>10

LEMMA Emptied ==
  ASSUME NEW C, NEW n \in Nat, FolderOk(C, n), NEW f \in File, NEW D,
         Shorter(C, D, f)
  PROVE  /\ FolderOk(D, n) /\ Len(D[f]) = 0
         /\ \A g \in File : g # f => D[g] = C[g]
<1>1. C \in [File -> Seq(Nat)] /\ <<>> \in Seq(Nat) /\ Len(<<>>) = 0
  BY DEF FolderOk
<1>2. /\ D \in [File -> Seq(Nat)] /\ D[f] = <<>>
      /\ \A g \in File : g # f => D[g] = C[g]
  BY <1>1 DEF Shorter
<1>3. \A g \in File : \A i \in 1 .. Len(D[g]) : g # f /\ D[g] = C[g]
  BY <1>1, <1>2
<1>4. \A g \in File : Len(D[g]) <= n
  BY <1>1, <1>2 DEF FolderOk
<1>5. \A g \in File : /\ \A i \in 1 .. Len(D[g]) : D[g][i] \in 1 .. n
                      /\ \A i, j \in 1 .. Len(D[g]) : i < j => D[g][i] < D[g][j]
  BY <1>3 DEF FolderOk
<1>6. \A g, h \in File : \A i \in 1 .. Len(D[g]), j \in 1 .. Len(D[h]) :
        D[g][i] = D[h][j] => g = h
  BY <1>3 DEF FolderOk
<1> QED BY <1>1, <1>2, <1>4, <1>5, <1>6 DEF FolderOk

\* A row keeps its place through a line more ...
LEMMA KeptByGrowth ==
  ASSUME NEW C, NEW n \in Nat, FolderOk(C, n), NEW f \in File, NEW D,
         Longer(C, D, f, n), NEW rs, NEW cp, NEW u \in Nat,
         StoreOk(rs, cp, C, n, u)
  PROVE  /\ StoreOk(rs, cp, D, n + 1, u)
         /\ \A r \in rs : Current(r, D) => Current(r, C)
<1>1. /\ FolderOk(D, n + 1)
      /\ \A g \in File : g # f => D[g] = C[g]
      /\ Len(D[f]) = Len(C[f]) + 1 /\ D[f][Len(C[f]) + 1] = n + 1
      /\ \A i \in 1 .. Len(C[f]) : D[f][i] = C[f][i]
  BY Grown
<1>2. \A g \in File : Len(C[g]) \in Nat
  BY DEF FolderOk
<1>3. ASSUME NEW r \in rs
      PROVE  /\ r \in Entry /\ r.line <= n /\ r.at <= n
             /\ \A g \in File : \A i \in 1 .. Len(D[g]) :
                  D[g][i] = r.line => i \in 1 .. Len(C[g]) /\ D[g][i] = C[g][i]
             /\ Current(r, D) <=> Current(r, C)
  <2>1. /\ r \in Entry /\ r.line <= n /\ r.line \in Nat /\ r.file \in File
        /\ r.at \in Nat /\ r.at <= n
    BY DEF StoreOk, RowsOk, Entry
  <2>2. ASSUME NEW g \in File, NEW i \in 1 .. Len(D[g]), D[g][i] = r.line
        PROVE  i \in 1 .. Len(C[g]) /\ D[g][i] = C[g][i]
    <3>1. CASE g # f
      BY <3>1, <2>2, <1>1
    <3>2. CASE g = f
      <4>1. i # Len(C[f]) + 1
        BY <3>2, <2>1, <2>2, <1>1
      <4>2. i \in 1 .. Len(C[f])
        BY <3>2, <4>1, <1>1, <1>2
      <4> QED BY <3>2, <4>2, <1>1
    <3> QED BY <3>1, <3>2
  <2>3. Current(r, D) => Current(r, C)
    BY <2>1, <2>2 DEF Current
  <2>4. Current(r, C) => Current(r, D)
    <3>1. CASE r.file # f
      BY <3>1, <2>1, <1>1 DEF Current
    <3>2. CASE r.file = f
      <4>1. \A i \in 1 .. Len(C[f]) : i \in 1 .. Len(D[f]) /\ D[f][i] = C[f][i]
        BY <1>1, <1>2
      <4> QED BY <3>2, <4>1 DEF Current
    <3> QED BY <3>1, <3>2
  <2> QED BY <2>1, <2>2, <2>3, <2>4
<1>4. RowsOk(rs, D, n + 1)
  <2> SUFFICES ASSUME NEW r \in rs
               PROVE  /\ r.line <= n + 1 /\ r.at <= n + 1
                      /\ \A g \in File : \A i \in 1 .. Len(D[g]) :
                           D[g][i] = r.line => g = r.file /\ i = r.at /\ r.gen = 0
                      /\ ~Current(r, D) =>
                           \A i \in 1 .. Len(D[r.file]) : r.line < D[r.file][i]
    BY DEF RowsOk
  <2>1. r.line \in Nat /\ r.at \in Nat /\ r.file \in File
    BY <1>3 DEF Entry
  <2>2. \A g \in File : \A i \in 1 .. Len(D[g]) :
          D[g][i] = r.line => g = r.file /\ i = r.at /\ r.gen = 0
    BY <1>3 DEF StoreOk, RowsOk
  <2>3. ASSUME ~Current(r, D), NEW i \in 1 .. Len(D[r.file])
        PROVE  r.line < D[r.file][i]
    <3>1. \A j \in 1 .. Len(C[r.file]) : r.line < C[r.file][j]
      BY <2>3, <1>3 DEF StoreOk, RowsOk
    <3>2. CASE r.file # f
      BY <3>2, <3>1, <2>1, <1>1
    <3>3. CASE r.file = f /\ i # Len(C[f]) + 1
      <4>1. i \in 1 .. Len(C[f])
        BY <3>3, <1>1, <1>2
      <4> QED BY <3>1, <3>3, <4>1, <1>1
    <3>4. CASE r.file = f /\ i = Len(C[f]) + 1
      BY <3>4, <2>1, <1>1, <1>3
    <3> QED BY <3>2, <3>3, <3>4
  <2> QED BY <2>1, <2>2, <2>3, <1>3
<1>5. CheckpointsOk(rs, cp, D, u)
  <2>1. \A g \in File : Len(D[g]) \in Nat /\ Len(C[g]) <= Len(D[g])
    BY <1>1, <1>2
  <2>2. cp \in [File -> Nat]
    BY DEF StoreOk, CheckpointsOk
  <2>3. ASSUME NEW r \in rs
        PROVE  /\ r.gen = 0 => 2 * r.at <= cp[r.file]
               /\ r.gen <= u
               /\ Current(r, D) => cp[r.file] <= 2 * Len(D[r.file])
               /\ cp[r.file] > 2 * Len(D[r.file]) => r.gen < u
    <3>1. r.file \in File /\ cp[r.file] \in Nat
      BY <1>3, <2>2 DEF Entry
    <3>2. /\ Len(D[r.file]) \in Nat /\ Len(C[r.file]) \in Nat
          /\ Len(C[r.file]) <= Len(D[r.file])
      BY <3>1, <2>1, <1>2
    <3>3. /\ r.gen = 0 => 2 * r.at <= cp[r.file]
          /\ r.gen <= u
          /\ Current(r, C) => cp[r.file] <= 2 * Len(C[r.file])
          /\ cp[r.file] > 2 * Len(C[r.file]) => r.gen < u
      BY DEF StoreOk, CheckpointsOk
    <3> QED BY <3>1, <3>2, <3>3, <1>3
  <2> QED BY <2>2, <2>3 DEF CheckpointsOk
<1>6. \A g \in File : cp[g] <= 2 * (n + 1)
  <2>1. \A g \in File : cp[g] \in Nat /\ cp[g] <= 2 * n
    BY DEF StoreOk, CheckpointsOk
  <2> QED BY <2>1
<1> QED BY <1>3, <1>4, <1>5, <1>6 DEF StoreOk

\* ... and is older than what follows once its file is emptied.
LEMMA KeptByReuse ==
  ASSUME NEW C, NEW n \in Nat, FolderOk(C, n), NEW f \in File, NEW D,
         Shorter(C, D, f), NEW rs, NEW cp, NEW u \in Nat,
         StoreOk(rs, cp, C, n, u)
  PROVE  /\ StoreOk(rs, cp, D, n, u + 1)
         /\ \A r \in rs : Current(r, D) => Current(r, C)
<1>1. /\ Len(D[f]) = 0 /\ \A g \in File : g # f => D[g] = C[g]
      /\ FolderOk(D, n)
  BY Emptied
<1>2. \A g \in File : Len(C[g]) \in Nat /\ Len(D[g]) \in Nat
  BY <1>1 DEF FolderOk
<1>3. \A g \in File : \A i \in 1 .. Len(D[g]) :
        g # f /\ D[g] = C[g] /\ i \in 1 .. Len(C[g])
  BY <1>1, <1>2
<1>4. ASSUME NEW r \in rs
      PROVE  /\ r \in Entry /\ r.file \in File
             /\ Current(r, D) => Current(r, C) /\ r.file # f
             /\ r.file # f => (Current(r, D) <=> Current(r, C))
  BY <1>1, <1>3 DEF StoreOk, Entry, Current
<1>5. RowsOk(rs, D, n)
  BY <1>3, <1>4, <1>1 DEF StoreOk, RowsOk
<1>6. CheckpointsOk(rs, cp, D, u + 1)
  <2>1. cp \in [File -> Nat]
    BY DEF StoreOk, CheckpointsOk
  <2>2. ASSUME NEW r \in rs
        PROVE  /\ r.gen = 0 => 2 * r.at <= cp[r.file]
               /\ r.gen <= u + 1
               /\ Current(r, D) => cp[r.file] <= 2 * Len(D[r.file])
               /\ cp[r.file] > 2 * Len(D[r.file]) => r.gen < u + 1
    <3>1. r.gen \in Nat
      BY <1>4 DEF Entry
    <3>2. /\ r.gen = 0 => 2 * r.at <= cp[r.file]
          /\ r.gen <= u
          /\ Current(r, C) => cp[r.file] <= 2 * Len(C[r.file])
      BY DEF StoreOk, CheckpointsOk
    <3> QED BY <3>1, <3>2, <1>1, <1>4
  <2> QED BY <2>1, <2>2 DEF CheckpointsOk
<1> QED BY <1>4, <1>5, <1>6 DEF StoreOk
-----------------------------------------------------------------------------
(* Ingest.                                                                  *)

LEMMA Least ==
  ASSUME NEW S, S \subseteq Nat, S # {}
  PROVE  \E x \in S : \A y \in S : x <= y
<1> DEFINE Below == {p \in Nat \X Nat : p[1] < p[2]}
<1>1. IsWellFoundedOn(Below, Nat)
  BY NatLessThanWellFounded DEF OpToRel
<1> HIDE DEF Below
<1>2. PICK x \in S : \A y \in S : ~ (<<y, x>> \in Below)
  BY <1>1, WFMin
<1>3. \A y \in S : x \in Nat /\ y \in Nat /\ ~(y < x)
  BY <1>2 DEF Below
<1> QED BY <1>3

LEMMA MinOf ==
  ASSUME NEW S, S \subseteq Nat, S # {}
  PROVE  Min(S) \in S
BY Least DEF Min

LEMMA MaxOf ==
  ASSUME NEW S, S \subseteq Nat, S # {}, NEW b \in Nat, \A x \in S : x <= b
  PROVE  Max(S) \in S /\ \A y \in S : y <= Max(S)
<1> DEFINE T == {b - x : x \in S}
<1>1. \A x \in S : x \in Nat /\ x <= b /\ b - x \in Nat
  OBVIOUS
<1>2. T \subseteq Nat /\ T # {}
  BY <1>1
<1>3. PICK t \in T : \A y \in T : t <= y
  <2> HIDE DEF T
  <2> QED BY <1>2, Least
<1>4. PICK x \in S : t = b - x
  OBVIOUS
<1>5. \A y \in S : x >= y
  BY <1>1, <1>3, <1>4
<1>6. \A y \in S : Max(S) \in S /\ Max(S) >= y
  BY <1>5 DEF Max
<1> QED BY <1>1, <1>6

\* Archiving the rows of a file that are gone from it.
LEMMA Archiving ==
  ASSUME NEW C, NEW n \in Nat, FolderOk(C, n), NEW rs, NEW cp, NEW u \in Nat,
         StoreOk(rs, cp, C, n, u), NEW f \in File,
         \A r \in rs : r.file = f => ~Current(r, C) /\ r.gen < u
  PROVE  LET base == Archived(rs, f)
         IN  /\ base \subseteq Entry /\ RowsOk(base, C, n)
             /\ Single(base) /\ InOrder(base)
             /\ \A r \in base : r.file # f => r \in rs
             /\ \A r \in base : r.file = f => r.gen # 0 /\ r.gen <= u
             /\ \A r \in rs : \E s \in base : s.line = r.line
<1> DEFINE gens == {r.gen : r \in {x \in rs : x.file = f}} \cup {0}
           gen == Max(gens) + 1
           Put(r) == IF LiveRow(r, f) THEN [r EXCEPT !.gen = gen] ELSE r
           base == Archived(rs, f)
<1>1. \A r \in rs : r \in Entry
  BY DEF StoreOk
<1>2. gens \subseteq Nat /\ gens # {} /\ \A x \in gens : x <= u
  BY <1>1 DEF StoreOk, CheckpointsOk, Entry
<1>3. Max(gens) \in gens /\ \A y \in gens : y <= Max(gens)
  <2> HIDE DEF gens
  <2> QED BY <1>2, MaxOf
<1>4. /\ gen \in Nat /\ gen > 0
      /\ \A r \in rs : r.file = f => r.gen < gen /\ r.gen < u /\ gen <= u
  <2>1. Max(gens) \in Nat
    BY <1>2, <1>3
  <2>2. \A r \in rs : r.file = f => r.gen \in gens
    OBVIOUS
  <2>3. Max(gens) = 0 \/ \E r \in rs : r.file = f /\ r.gen = Max(gens)
    BY <1>3
  <2>4. \A r \in rs : r.file = f => r.gen \in Nat /\ r.gen < u
    BY <1>1 DEF Entry
  <2> HIDE DEF gens
  <2>5. \A r \in rs : r.file = f => r.gen <= Max(gens)
    BY <1>3, <2>2
  <2>6. \A r \in rs : r.file = f => Max(gens) < u
    BY <2>1, <2>3, <2>4
  <2> QED BY <2>1, <2>4, <2>5, <2>6
<1>5. base = {Put(r) : r \in rs}
  BY DEF Archived
<1> HIDE DEF gens, gen
<1>6. ASSUME NEW r \in rs
      PROVE  /\ Put(r) \in Entry /\ Put(r).file = r.file /\ Put(r).at = r.at
             /\ Put(r).line = r.line
             /\ LiveRow(r, f) => Put(r).gen = gen
             /\ ~LiveRow(r, f) => Put(r).gen = r.gen /\ Put(r) = r
  BY <1>1, <1>4 DEF Entry
<1> DEFINE PutOf == [r \in rs |-> Put(r)]
<1>7. \A b \in base : \E r \in rs : b = Put(r)
  BY <1>5
<1>8. \A r \in rs : Put(r) \in base
  BY <1>5
<1> HIDE DEF Put, base
<1>9. base \subseteq Entry
  BY <1>6, <1>7
<1>10. \A r \in rs : \E s \in base : s.line = r.line
  BY <1>6, <1>7, <1>8
<1>11. RowsOk(base, C, n)
  <2> SUFFICES ASSUME NEW b \in base
               PROVE  /\ b.line <= n /\ b.at <= n
                      /\ \A g \in File : \A i \in 1 .. Len(C[g]) :
                           C[g][i] = b.line => g = b.file /\ i = b.at /\ b.gen = 0
                      /\ ~Current(b, C) =>
                           \A i \in 1 .. Len(C[b.file]) : b.line < C[b.file][i]
    BY DEF RowsOk
  <2>1. PICK r \in rs : b = Put(r)
    BY <1>7
  <2>2. b.file = r.file /\ b.at = r.at /\ b.line = r.line
    BY <2>1, <1>6
  <2>3. /\ r.line <= n /\ r.at <= n
        /\ \A g \in File : \A i \in 1 .. Len(C[g]) :
             C[g][i] = r.line => g = r.file /\ i = r.at /\ r.gen = 0
        /\ ~Current(r, C) => \A i \in 1 .. Len(C[r.file]) : r.line < C[r.file][i]
    BY DEF StoreOk, RowsOk
  <2>4. Current(b, C) <=> Current(r, C)
    BY <2>2 DEF Current
  <2>5. CASE LiveRow(r, f)
    <3>1. ~Current(r, C) /\ r.file = f
      BY <2>5 DEF LiveRow
    <3>2. \A g \in File : \A i \in 1 .. Len(C[g]) : C[g][i] # r.line
      BY <2>3, <3>1 DEF Current
    <3> QED BY <2>2, <2>3, <2>4, <3>2
  <2>6. CASE ~LiveRow(r, f)
    BY <2>1, <2>3, <2>6, <1>6
  <2> QED BY <2>5, <2>6
<1>12. Single(base)
  BY <1>6, <1>7 DEF Single, StoreOk
<1>13. InOrder(base)
  <2> SUFFICES ASSUME NEW b \in base, NEW c \in base, b.file = c.file, Before(b, c)
               PROVE  b.line < c.line
    BY DEF InOrder
  <2>1. PICK r \in rs : b = Put(r)
    BY <1>7
  <2>2. PICK s \in rs : c = Put(s)
    BY <1>7
  <2>3. /\ r.file = s.file /\ r.gen \in Nat /\ s.gen \in Nat
        /\ b.at = r.at /\ c.at = s.at /\ b.line = r.line /\ c.line = s.line
    BY <2>1, <2>2, <1>1, <1>6 DEF Entry
  <2>4. Before(r, s)
    <3>1. CASE LiveRow(r, f)
      BY <3>1, <2>1, <2>2, <2>3, <1>4, <1>6 DEF Before, LiveRow
    <3>2. CASE LiveRow(s, f) /\ ~LiveRow(r, f)
      BY <3>2, <2>1, <2>2, <2>3, <1>4, <1>6 DEF Before, LiveRow
    <3>3. CASE ~LiveRow(s, f) /\ ~LiveRow(r, f)
      BY <3>3, <2>1, <2>2, <1>6
    <3> QED BY <3>1, <3>2, <3>3
  <2> QED BY <2>3, <2>4 DEF InOrder, StoreOk
<1>14. \A b \in base : /\ b.file # f => b \in rs
                       /\ b.file = f => b.gen # 0 /\ b.gen <= u
  <2> SUFFICES ASSUME NEW b \in base
               PROVE  /\ b.file # f => b \in rs
                      /\ b.file = f => b.gen # 0 /\ b.gen <= u
    OBVIOUS
  <2>1. PICK r \in rs : b = Put(r)
    BY <1>7
  <2>2. r.gen \in Nat /\ gen \in Nat
    BY <1>1, <1>4 DEF Entry
  <2> QED BY <2>1, <2>2, <1>4, <1>6 DEF LiveRow
<1> QED BY <1>9, <1>10, <1>11, <1>12, <1>13, <1>14 DEF base

\* The lines at the places is of f, but for the places that have a live row.
Adds(new, base, C, f, is) ==
  \A r \in new :
    \/ r \in base
    \/ \E i \in is : /\ r = [file |-> f, gen |-> 0, at |-> i, line |-> C[f][i]]
                     /\ ~\E s \in base : LiveRow(s, f) /\ s.at = i

\* Adding lines of the file that stand behind what its live rows reach.
LEMMA Inserting ==
  ASSUME NEW C, NEW n \in Nat, FolderOk(C, n), NEW f \in File, NEW base, NEW m \in Nat,
         base \subseteq Entry, RowsOk(base, C, n), Single(base), InOrder(base),
         \A r \in base : r.file = f /\ r.gen = 0 => 2 * r.at <= m,
         NEW is, is \subseteq 1 .. Len(C[f]), \A i \in is : 2 * (i - 1) >= m,
         NEW new, Adds(new, base, C, f, is)
  PROVE  /\ new \subseteq Entry /\ RowsOk(new, C, n) /\ Single(new) /\ InOrder(new)
<1>1. /\ C[f] \in Seq(Nat) /\ Len(C[f]) \in Nat
      /\ \A i \in is : /\ i \in Nat \ {0} /\ i <= n
                        /\ C[f][i] \in Nat \ {0} /\ C[f][i] <= n
  BY DEF FolderOk
<1>2. ASSUME NEW r \in new, r \notin base
      PROVE  /\ r \in Entry /\ r.file = f /\ r.gen = 0 /\ r.at \in is
             /\ r.line = C[f][r.at] /\ Current(r, C)
             /\ ~\E s \in base : LiveRow(s, f) /\ s.at = r.at
  <2>1. PICK i \in is :
          /\ r = [file |-> f, gen |-> 0, at |-> i, line |-> C[f][i]]
          /\ ~\E s \in base : LiveRow(s, f) /\ s.at = i
    BY <1>2 DEF Adds
  <2>2. r.file = f /\ r.gen = 0 /\ r.at = i /\ r.line = C[f][i] /\ r \in Entry
    BY <2>1, <1>1 DEF Entry
  <2> QED BY <2>1, <2>2 DEF Current
<1>3. new \subseteq Entry
  BY <1>2
<1>4. RowsOk(new, C, n)
  <2> SUFFICES ASSUME NEW r \in new
               PROVE  /\ r.line <= n /\ r.at <= n
                      /\ \A g \in File : \A i \in 1 .. Len(C[g]) :
                           C[g][i] = r.line => g = r.file /\ i = r.at /\ r.gen = 0
                      /\ ~Current(r, C) =>
                           \A i \in 1 .. Len(C[r.file]) : r.line < C[r.file][i]
    BY DEF RowsOk
  <2>1. CASE r \in base
    BY <2>1 DEF RowsOk
  <2>2. CASE r \notin base
    <3>1. /\ r.file = f /\ r.gen = 0 /\ r.at \in 1 .. Len(C[f])
          /\ r.line = C[f][r.at] /\ Current(r, C) /\ r.line <= n /\ r.at <= n
      BY <2>2, <1>1, <1>2
    <3>2. ASSUME NEW g \in File, NEW i \in 1 .. Len(C[g]), C[g][i] = r.line
          PROVE  g = r.file /\ i = r.at
      <4>1. g = f
        BY <3>1, <3>2 DEF FolderOk
      <4>2. ~(i < r.at) /\ ~(r.at < i)
        <5>1. \A a, b \in 1 .. Len(C[f]) : a < b => C[f][a] < C[f][b]
          BY DEF FolderOk
        <5>2. i \in 1 .. Len(C[f]) /\ C[f][i] = C[f][r.at] /\ C[f][i] \in Nat
          BY <4>1, <3>1, <3>2, <1>1
        <5> QED BY <5>1, <5>2, <3>1
      <4> QED BY <4>1, <4>2, <3>1, <1>1
    <3> QED BY <3>1, <3>2
  <2> QED BY <2>1, <2>2
<1>5. Single(new)
  <2> SUFFICES ASSUME NEW r \in new, NEW s \in new, r.line = s.line
               PROVE  r = s
    BY DEF Single
  <2>1. ASSUME NEW x \in new, x \notin base, NEW y \in base, x.line = y.line
        PROVE  FALSE
    <3>1. x.at \in 1 .. Len(C[f]) /\ C[f][x.at] = y.line
      BY <2>1, <1>2
    <3>2. y.file = f /\ y.at = x.at /\ y.gen = 0
      BY <2>1, <3>1 DEF RowsOk
    <3> QED BY <2>1, <3>2, <1>2 DEF LiveRow
  <2>2. CASE r \notin base /\ s \notin base
    <3>1. r \in Entry /\ s \in Entry /\ r.at \in 1 .. Len(C[f]) /\ C[f][r.at] = s.line
      BY <2>2, <1>2
    <3>2. s.at = r.at
      BY <3>1, <1>4 DEF RowsOk
    <3> QED BY <2>2, <3>1, <3>2, <1>2 DEF Entry
  <2>3. CASE r \in base /\ s \in base
    BY <2>3 DEF Single
  <2> QED BY <2>1, <2>2, <2>3
<1>6. InOrder(new)
  <2> SUFFICES ASSUME NEW r \in new, NEW s \in new, r.file = s.file, Before(r, s)
               PROVE  r.line < s.line
    BY DEF InOrder
  <2>1. /\ r.gen \in Nat /\ s.gen \in Nat /\ r.at \in Nat /\ s.at \in Nat
        /\ r.line \in Nat /\ s.line \in Nat
    BY <1>3 DEF Entry
  <2>2. \A a, b \in 1 .. Len(C[f]) : a < b => C[f][a] < C[f][b]
    BY DEF FolderOk
  <2>3. CASE r \in base /\ s \in base
    BY <2>3 DEF InOrder
  <2>4. CASE r \in base /\ s \notin base
    <3>1. s.file = f /\ s.gen = 0 /\ s.at \in 1 .. Len(C[f]) /\ s.line = C[f][s.at]
      BY <2>4, <1>2
    <3>2. CASE ~Current(r, C)
      BY <3>1, <3>2, <2>4 DEF RowsOk
    <3>3. CASE Current(r, C)
      <4>1. r.at \in 1 .. Len(C[f]) /\ C[f][r.at] = r.line /\ r.gen = 0
        BY <3>1, <3>3, <2>4 DEF Current, RowsOk
      <4>2. r.at < s.at
        BY <4>1, <3>1 DEF Before
      <4> QED BY <4>1, <4>2, <3>1, <2>2
    <3> QED BY <3>2, <3>3
  <2>5. CASE r \notin base /\ s \in base
    <3>1. /\ r.file = f /\ r.gen = 0 /\ r.at \in is /\ 2 * (r.at - 1) >= m
      BY <2>5, <1>2
    <3>2. s.gen = 0 /\ r.at < s.at
      BY <3>1, <2>1 DEF Before
    <3>3. 2 * s.at <= m
      BY <2>5, <3>1, <3>2
    <3> QED BY <3>1, <3>2, <3>3, <2>1
  <2>6. CASE r \notin base /\ s \notin base
    <3>1. /\ r.gen = 0 /\ s.gen = 0 /\ r.at \in 1 .. Len(C[f]) /\ s.at \in 1 .. Len(C[f])
          /\ r.line = C[f][r.at] /\ s.line = C[f][s.at]
      BY <2>6, <1>2
    <3>2. r.at < s.at
      BY <3>1 DEF Before
    <3> QED BY <3>1, <3>2, <2>2
  <2> QED BY <2>3, <2>4, <2>5, <2>6
<1> QED BY <1>3, <1>4, <1>5, <1>6

\* One transaction of ingest: archive if the file was replaced, insert, move the
\* checkpoint to the end.
LEMMA Ingesting ==
  ASSUME NEW C, NEW n \in Nat, FolderOk(C, n), NEW rs, NEW cp, NEW u \in Nat,
         StoreOk(rs, cp, C, n, u), NEW f \in File, NEW m \in Nat,
         NEW replaced \in BOOLEAN, ~replaced => m = cp[f],
         replaced => /\ m = 0
                     /\ \A r \in rs : r.file = f => ~Current(r, C) /\ r.gen < u,
         m <= 2 * Len(C[f]),
         NEW is, is \subseteq 1 .. Len(C[f]), \A i \in is : 2 * (i - 1) >= m,
         NEW base, base = IF replaced THEN Archived(rs, f) ELSE rs,
         NEW new, Adds(new, base, C, f, is)
  PROVE  StoreOk(new, [cp EXCEPT ![f] = 2 * Len(C[f])], C, n, u)
<1> DEFINE end == 2 * Len(C[f])
           cq == [cp EXCEPT ![f] = end]
<1>1. /\ rs \subseteq Entry /\ RowsOk(rs, C, n) /\ CheckpointsOk(rs, cp, C, u)
      /\ Single(rs) /\ InOrder(rs) /\ cp \in [File -> Nat]
      /\ \A g \in File : cp[g] <= 2 * n
  BY DEF StoreOk, CheckpointsOk
<1>2. Len(C[f]) \in Nat /\ Len(C[f]) <= n /\ end \in Nat /\ end <= 2 * n
  BY DEF FolderOk
<1>3. /\ base \subseteq Entry /\ RowsOk(base, C, n) /\ Single(base) /\ InOrder(base)
      /\ \A r \in base : r.file # f => r \in rs
      /\ \A r \in base : r.file = f => r.gen <= u
      /\ \A r \in base : r.file = f /\ r.gen = 0 => 2 * r.at <= m
  <2>1. CASE replaced
    BY <2>1, Archiving
  <2>2. CASE ~replaced
    BY <2>2, <1>1 DEF CheckpointsOk
  <2> QED BY <2>1, <2>2
<1>4. /\ new \subseteq Entry /\ RowsOk(new, C, n) /\ Single(new) /\ InOrder(new)
  BY <1>3, Inserting
<1>5. cq \in [File -> Nat] /\ cq[f] = end /\ \A g \in File : g # f => cq[g] = cp[g]
  BY <1>1, <1>2
<1>6. \A g \in File : cq[g] <= 2 * n
  BY <1>1, <1>2, <1>5
<1>7. \A r \in new : r \in base \/ (r.file = f /\ r.gen = 0 /\ r.at \in is)
  <2> SUFFICES ASSUME NEW r \in new, r \notin base
               PROVE  r.file = f /\ r.gen = 0 /\ r.at \in is
    OBVIOUS
  <2>1. PICK i \in is : r = [file |-> f, gen |-> 0, at |-> i, line |-> C[f][i]]
    BY DEF Adds
  <2> QED BY <2>1
<1>8. CheckpointsOk(new, cq, C, u)
  <2> SUFFICES ASSUME NEW r \in new
               PROVE  /\ r.gen = 0 => 2 * r.at <= cq[r.file]
                      /\ r.gen <= u
                      /\ Current(r, C) => cq[r.file] <= 2 * Len(C[r.file])
                      /\ cq[r.file] > 2 * Len(C[r.file]) => r.gen < u
    BY <1>5 DEF CheckpointsOk
  <2>1. r.file \in File /\ r.at \in Nat /\ r.gen \in Nat
    BY <1>4 DEF Entry
  <2>2. CASE r.file # f
    <3>1. r \in rs
      BY <2>2, <1>3, <1>7
    <3> QED BY <3>1, <2>1, <2>2, <1>1, <1>5 DEF CheckpointsOk
  <2>3. CASE r.file = f
    <3>1. r.gen <= u
      BY <2>3, <1>3, <1>7
    <3>2. r.gen = 0 => 2 * r.at <= end
      <4>1. CASE r \in base
        BY <4>1, <2>1, <2>3, <1>2, <1>3
      <4>2. CASE r \notin base
        <5>1. r.at \in 1 .. Len(C[f])
          BY <4>2, <1>7
        <5> QED BY <5>1, <1>2
      <4> QED BY <4>1, <4>2
    <3> QED BY <3>1, <3>2, <2>3, <1>2, <1>5
  <2> QED BY <2>2, <2>3
<1> QED BY <1>4, <1>6, <1>8 DEF StoreOk
-----------------------------------------------------------------------------
(* The invariant.                                                           *)

Content == [f \in File |-> file[f].lines]

FileState ==
  [there : BOOLEAN, lines : Seq(Nat), half : BOOLEAN, aged : BOOLEAN,
   reused : BOOLEAN, last : Fid \cup {NoKey}]
SyncState ==
  [at : {"idle", "ingest", "open"}, todo : [Key -> SUBSET File], key : Key,
   file : File \cup {NoFile}, start : Nat, replaced : BOOLEAN]

FolderTypes ==
  /\ written \in Seq([who : Fid, kind : Kind]) /\ Len(written) <= MaxLines
  /\ file \in [File -> FileState]
  /\ \A f \in File : file[f].there \/ file[f].lines = <<>>
  /\ game \in [Fid -> File \cup {NoFile}]
  /\ \A c \in Fid : game[c] # NoFile => file[game[c]].there
  /\ reuses \in 0 .. MaxReuses
Folder == FolderTypes /\ FolderOk(Content, Len(written))

Stored ==
  /\ rows \in [Key -> SUBSET Entry] /\ checkpoint \in [Key -> [File -> Nat]]
  /\ \A k \in Key :
       StoreOk(rows[k], checkpoint[k], Content, Len(written), reuses)

\* What the sync took down of the file it is about to read is still so.
Reading ==
  sync.at = "open" =>
    /\ sync.file \in File
    /\ ~sync.replaced => sync.start = checkpoint[sync.key][sync.file]
    /\ sync.replaced =>
         /\ sync.start = 0
         /\ \A r \in rows[sync.key] :
              r.file = sync.file => ~Current(r, Content) /\ r.gen < reuses

\* A commander's rows are in an open store, and only open stores are synced.
Opened ==
  /\ sync \in SyncState /\ stores \in (SUBSET Key) \ {{}}
  /\ \A k \in Fid : /\ rows[k] # {} => k \in stores
                    /\ sync.todo[k] # {} => k \in stores
                    /\ sync.at = "open" /\ sync.key = k => k \in stores

Known == owner \in [File -> Fid \cup {"unread", "pending", "menu"}] /\ misread \subseteq File
Applied == mark \in [Key -> 0 .. MaxLines] /\ derived \in [Key -> SUBSET Stamp]

JInv == Folder /\ Stored /\ Reading /\ Opened /\ Known /\ Applied

LEMMA InitOk == Init => JInv
<1> SUFFICES ASSUME Init PROVE JInv
  OBVIOUS
<1> USE JournalSyncAssumption
<1>1. Absent \in FileState /\ Absent.lines = <<>> /\ Len(<<>>) = 0 /\ <<>> \in Seq(Nat)
  BY DEF Absent, FileState
<1>2. Content \in [File -> Seq(Nat)] /\ \A f \in File : Len(Content[f]) = 0
  BY <1>1 DEF Init, Content
<1>3. Len(written) = 0 /\ written \in Seq([who : Fid, kind : Kind])
  BY DEF Init
<1>4. Folder
  <2>1. FolderTypes
    BY <1>1, <1>3 DEF Init, FolderTypes, NoFile
  <2>2. FolderOk(Content, Len(written))
    BY <1>2, <1>3 DEF FolderOk
  <2> QED BY <2>1, <2>2 DEF Folder
<1>5. Stored
  <2>1. ASSUME NEW k \in Key
        PROVE  StoreOk(rows[k], checkpoint[k], Content, Len(written), reuses)
    <3>1. rows[k] = {} /\ checkpoint[k] = [f \in File |-> 0]
      BY DEF Init
    <3> QED BY <3>1, <1>3 DEF StoreOk, RowsOk, CheckpointsOk, Single, InOrder
  <2> QED BY <2>1 DEF Init, Stored
<1>6. NoSync \in SyncState
  BY DEF NoSync, SyncState, Key
<1>7. Reading /\ Opened
  <2>1. /\ sync = NoSync /\ sync.at = "idle" /\ \A k \in Key : sync.todo[k] = {}
        /\ rows = [k \in Key |-> {}] /\ stores = {Placeholder}
    BY DEF Init, NoSync
  <2>2. \A k \in Fid : k \in Key /\ rows[k] = {}
    BY <2>1 DEF Key
  <2>3. stores \in (SUBSET Key) \ {{}}
    BY <2>1 DEF Key
  <2> QED BY <1>6, <2>1, <2>2, <2>3 DEF Reading, Opened
<1>8. Known /\ Applied
  BY DEF Init, Known, Applied
<1> QED BY <1>4, <1>5, <1>7, <1>8 DEF JInv
-----------------------------------------------------------------------------
(* The game.                                                                *)

\* What a step does to the lines of the folder.
Unmoved ==
  Content' = Content /\ Len(written') = Len(written) /\ reuses' = reuses
Wrote(f) ==
  /\ Longer(Content, Content', f, Len(written))
  /\ Len(written') = Len(written) + 1 /\ reuses' = reuses
Reused(f) ==
  /\ Shorter(Content, Content', f)
  /\ Len(written') = Len(written) /\ reuses' = reuses + 1

LEMMA FileIs ==
  ASSUME FolderTypes, NEW f \in File
  PROVE  /\ file[f] \in FileState /\ Content[f] = file[f].lines
         /\ Content \in [File -> Seq(Nat)]
BY DEF FolderTypes, FileState, Content

\* A file that is replaced by another record.
LEMMA FileBecomes ==
  ASSUME FolderTypes, NEW f \in File, NEW x \in FileState, file' = [file EXCEPT ![f] = x]
  PROVE  /\ file' \in [File -> FileState] /\ file'[f] = x
         /\ \A g \in File \ {f} : file'[g] = file[g]
         /\ x.lines = file[f].lines => Content' = Content
         /\ x.lines = <<>> => Shorter(Content, Content', f)
         /\ \A n : x.lines = Append(file[f].lines, n + 1) =>
                     Longer(Content, Content', f, n)
         /\ x.there => /\ \A g \in File : file'[g].there \/ file'[g].lines = <<>>
                       /\ \A g \in File : file[g].there => file'[g].there
<1>1. file \in [File -> FileState]
  BY DEF FolderTypes
<1>2. /\ file' \in [File -> FileState] /\ file'[f] = x
      /\ \A g \in File \ {f} : file'[g] = file[g]
  BY <1>1
<1>3. Content' = [Content EXCEPT ![f] = x.lines]
  BY <1>2 DEF Content
<1>4. x.there => /\ \A g \in File : file'[g].there \/ file'[g].lines = <<>>
                 /\ \A g \in File : file[g].there => file'[g].there
  BY <1>2 DEF FolderTypes
<1>5. Content[f] = file[f].lines /\ Content \in [File -> Seq(Nat)]
  BY FileIs
<1>6. x.lines = file[f].lines => Content' = Content
  BY <1>3, <1>5
<1>7. x.lines = <<>> => Shorter(Content, Content', f)
  BY <1>3 DEF Shorter
<1>8. \A n : x.lines = Append(file[f].lines, n + 1) => Longer(Content, Content', f, n)
  BY <1>3, <1>5 DEF Longer
<1> QED BY <1>2, <1>4, <1>6, <1>7, <1>8

LEMMA NoFileIs == Absent \in FileState
<1>1. <<>> \in Seq(Nat)
  OBVIOUS
<1> QED BY <1>1 DEF Absent, FileState

LEMMA AppendStep ==
  ASSUME Folder, NEW c \in Fid, NEW f \in File, NEW kind \in Kind, file[f].there,
         Append1(c, f, kind)
  PROVE  /\ Longer(Content, Content', f, Len(written)) /\ Len(written') = Len(written) + 1
         /\ written' \in Seq([who : Fid, kind : Kind]) /\ Len(written') <= MaxLines
         /\ file' \in [File -> FileState]
         /\ \A g \in File : file'[g].there \/ file'[g].lines = <<>>
         /\ \A g \in File : file[g].there => file'[g].there
<1>1. FolderTypes /\ file[f] \in FileState /\ Len(written) \in Nat
  BY FileIs, LenProperties DEF Folder, FolderTypes
<1>2. PICK lines \in Seq(Nat) : lines = Append(file[f].lines, Len(written) + 1)
  <2>1. file[f].lines \in Seq(Nat) /\ Len(written) + 1 \in Nat
    BY <1>1 DEF FileState
  <2> QED BY <2>1, AppendProperties
<1>3. PICK x \in FileState : x = [file[f] EXCEPT !.lines = lines, !.half = FALSE,
                                                 !.aged = FALSE, !.last = c]
  BY <1>1 DEF FileState
<1>4. file' = [file EXCEPT ![f] = x]
  BY <1>1, <1>2, <1>3 DEF Append1, FolderTypes
<1>5. x.lines = lines /\ x.there
  BY <1>1, <1>3 DEF FileState
<1>6. Longer(Content, Content', f, Len(written))
  BY <1>1, <1>2, <1>4, <1>5, FileBecomes
<1>7. [who |-> c, kind |-> kind] \in [who : Fid, kind : Kind]
  OBVIOUS
<1>8. /\ written' \in Seq([who : Fid, kind : Kind]) /\ Len(written') = Len(written) + 1
  BY <1>1, <1>7, AppendProperties DEF Append1, FolderTypes
<1>9. Len(written') <= MaxLines
  BY <1>1, <1>8, JournalSyncAssumption DEF Append1
<1> QED BY <1>1, <1>4, <1>5, <1>6, <1>8, <1>9, FileBecomes

LEMMA GameKinds ==
  ASSUME Folder, GameStep
  PROVE  /\ FolderTypes'
         /\ Unmoved \/ \E f \in File : Wrote(f) \/ Reused(f)
<1> USE DEF Folder
<1>1. /\ FolderTypes /\ Len(written) \in Nat /\ reuses \in Nat
      /\ \A c \in Fid : game[c] # NoFile => game[c] \in File /\ file[game[c]].there
  BY LenProperties, JournalSyncAssumption DEF FolderTypes
<1>2. CASE \E c \in Fid, f \in File : Launch(c, f)
  <2>1. PICK c \in Fid, f \in File : Launch(c, f)
    BY <1>2
  <2>2. PICK x \in FileState : x = [Absent EXCEPT !.there = TRUE, !.last = c]
    <3>1. PICK a \in FileState : a = Absent
      BY NoFileIs
    <3>2. [a EXCEPT !.there = TRUE, !.last = c] \in FileState
      BY DEF FileState
    <3> QED BY <3>1, <3>2
  <2>3. x.there /\ x.lines = <<>> /\ file' = [file EXCEPT ![f] = x]
    BY <2>1, <2>2 DEF Launch, Absent
  <2>4. file[f].lines = <<>>
    BY <2>1, <1>1 DEF Launch, FolderTypes
  <2>5. Content' = Content
    BY <2>3, <2>4, <1>1, FileBecomes
  <2>6. UNCHANGED <<written, reuses>> /\ game' = [game EXCEPT ![c] = f]
    BY <2>1 DEF Launch
  <2>7. FolderTypes'
    BY <2>3, <2>6, <1>1, FileBecomes DEF FolderTypes
  <2> QED BY <2>5, <2>6, <2>7 DEF Unmoved
<1>3. CASE \E c \in Fid, f \in File : Relaunch(c, f)
  <2>1. PICK c \in Fid, f \in File : Relaunch(c, f)
    BY <1>3
  <2>2. PICK x \in FileState :
          x = [Absent EXCEPT !.there = TRUE, !.last = c, !.reused = TRUE]
    <3>1. PICK a \in FileState : a = Absent
      BY NoFileIs
    <3>2. [a EXCEPT !.there = TRUE, !.last = c, !.reused = TRUE] \in FileState
      BY DEF FileState
    <3> QED BY <3>1, <3>2
  <2>3. x.there /\ x.lines = <<>> /\ file' = [file EXCEPT ![f] = x]
    BY <2>1, <2>2 DEF Relaunch, Absent
  <2>4. Shorter(Content, Content', f)
    BY <2>3, <1>1, FileBecomes
  <2>5. /\ UNCHANGED written /\ game' = [game EXCEPT ![c] = f]
        /\ reuses' = reuses + 1 /\ reuses' \in 0 .. MaxReuses
    BY <2>1, <1>1, JournalSyncAssumption DEF Relaunch
  <2>6. FolderTypes'
    BY <2>3, <2>5, <1>1, FileBecomes DEF FolderTypes
  <2> QED BY <2>4, <2>5, <2>6 DEF Reused
<1>4. CASE \E c \in Fid, kind \in Kind : Write(c, kind)
  <2>1. PICK c \in Fid, kind \in Kind : Write(c, kind)
    BY <1>4
  <2>2. /\ game[c] \in File /\ file[game[c]].there /\ Append1(c, game[c], kind)
        /\ UNCHANGED <<game, reuses>>
    BY <2>1, <1>1 DEF Write
  <2>3. FolderTypes' /\ Wrote(game[c])
    BY <2>2, <1>1, AppendStep DEF FolderTypes, Wrote
  <2> QED BY <2>2, <2>3
<1>5. CASE \E c \in Fid : WriteHalf(c)
  <2>1. PICK c \in Fid : WriteHalf(c)
    BY <1>5
  <2>2. game[c] \in File /\ file[game[c]].there /\ file[game[c]] \in FileState
    BY <2>1, <1>1, FileIs DEF WriteHalf
  <2>3. PICK x \in FileState : x = [file[game[c]] EXCEPT !.half = TRUE, !.aged = FALSE]
    BY <2>2 DEF FileState
  <2>4. x.there /\ x.lines = file[game[c]].lines
    BY <2>2, <2>3 DEF FileState
  <2>5. file' = [file EXCEPT ![game[c]] = x] /\ UNCHANGED <<written, reuses, game>>
    BY <2>1, <2>3, <1>1 DEF WriteHalf, FolderTypes
  <2>6. Content' = Content
    BY <2>2, <2>4, <2>5, <1>1, FileBecomes
  <2>7. FolderTypes'
    BY <2>2, <2>4, <2>5, <1>1, FileBecomes DEF FolderTypes
  <2> QED BY <2>5, <2>6, <2>7 DEF Unmoved
<1>6. CASE \E c \in Fid : Quit(c)
  <2>1. PICK c \in Fid : Quit(c)
    BY <1>6
  <2>2. /\ game[c] \in File /\ file[game[c]].there
        /\ Append1(c, game[c], "shutdown") /\ "shutdown" \in Kind
        /\ UNCHANGED reuses /\ game' = [game EXCEPT ![c] = NoFile]
    BY <2>1, <1>1 DEF Quit, Kind
  <2>3. FolderTypes' /\ Wrote(game[c])
    BY <2>2, <1>1, AppendStep DEF FolderTypes, Wrote
  <2> QED BY <2>2, <2>3
<1>7. CASE \E c, d \in Fid : SwitchAccount(c, d)
  <2>1. PICK c \in Fid, d \in Fid : SwitchAccount(c, d)
    BY <1>7
  <2>2. /\ game[c] \in File /\ file[game[c]].there
        /\ Append1(d, game[c], "login") /\ "login" \in Kind
        /\ UNCHANGED reuses /\ game' = [game EXCEPT ![c] = NoFile, ![d] = game[c]]
    BY <2>1, <1>1 DEF SwitchAccount, Kind
  <2>3. FolderTypes' /\ Wrote(game[c])
    BY <2>2, <1>1, AppendStep DEF FolderTypes, Wrote
  <2> QED BY <2>2, <2>3
<1>8. CASE \E f \in File : Age(f)
  <2>1. PICK f \in File : Age(f)
    BY <1>8
  <2>2. file[f] \in FileState /\ file[f].there
    BY <2>1, <1>1, FileIs DEF Age
  <2>3. PICK x \in FileState : x = [file[f] EXCEPT !.aged = TRUE]
    BY <2>2 DEF FileState
  <2>4. x.there /\ x.lines = file[f].lines
    BY <2>2, <2>3 DEF FileState
  <2>5. file' = [file EXCEPT ![f] = x] /\ UNCHANGED <<written, reuses, game>>
    BY <2>1, <2>3, <1>1 DEF Age, FolderTypes
  <2>6. Content' = Content
    BY <2>2, <2>4, <2>5, <1>1, FileBecomes
  <2>7. FolderTypes'
    BY <2>2, <2>4, <2>5, <1>1, FileBecomes DEF FolderTypes
  <2> QED BY <2>5, <2>6, <2>7 DEF Unmoved
<1> QED BY <1>2, <1>3, <1>4, <1>5, <1>6, <1>7, <1>8 DEF GameStep

LEMMA Sizes ==
  ASSUME JInv
  PROVE  /\ Len(written) \in Nat /\ Len(written) <= MaxLines /\ reuses \in Nat
         /\ FolderOk(Content, Len(written))
         /\ MaxLines \in Nat /\ MaxReuses \in Nat
         /\ \A f \in File : /\ Content[f] = file[f].lines /\ Content[f] \in Seq(Nat)
                            /\ Len(Content[f]) \in Nat
BY LenProperties, FileIs, JournalSyncAssumption DEF JInv, Folder, FolderTypes

LEMMA GameOk ==
  ASSUME JInv, GameStep
  PROVE  JInv' /\ UNCHANGED <<rows, checkpoint, mark, derived, owner, stores, sync, misread>>
<1>1. UNCHANGED <<rows, checkpoint, mark, derived, owner, stores, sync, misread>>
  BY DEF GameStep, Launch, Relaunch, Write, WriteHalf, Quit, SwitchAccount, Age,
         registry, db
<1>2. /\ FolderTypes' /\ Folder
      /\ Unmoved \/ \E f \in File : Wrote(f) \/ Reused(f)
  BY GameKinds DEF JInv
<1> DEFINE n == Len(written)
<1>3. /\ FolderOk(Content', Len(written'))
      /\ reuses' \in Nat /\ reuses <= reuses'
      /\ \A k \in Key :
           /\ StoreOk(rows[k], checkpoint[k], Content', Len(written'), reuses')
           /\ \A r \in rows[k] : Current(r, Content') => Current(r, Content)
  <2>1. /\ n \in Nat /\ reuses \in Nat /\ FolderOk(Content, n)
        /\ \A k \in Key : StoreOk(rows[k], checkpoint[k], Content, n, reuses)
    BY Sizes DEF JInv, Stored
  <2>2. CASE Unmoved
    BY <2>1, <2>2 DEF Unmoved
  <2>3. CASE \E f \in File : Wrote(f)
    <3>1. PICK f \in File : Wrote(f)
      BY <2>3
    <3>2. Longer(Content, Content', f, n) /\ Len(written') = n + 1 /\ reuses' = reuses
      BY <3>1 DEF Wrote
    <3>3. FolderOk(Content', Len(written'))
      BY <2>1, <3>2, Grown
    <3>4. \A k \in Key :
            /\ StoreOk(rows[k], checkpoint[k], Content', n + 1, reuses)
            /\ \A r \in rows[k] : Current(r, Content') => Current(r, Content)
      BY <2>1, <3>2, KeptByGrowth
    <3> QED BY <2>1, <3>2, <3>3, <3>4
  <2>4. CASE \E f \in File : Reused(f)
    <3>1. PICK f \in File : Reused(f)
      BY <2>4
    <3>2. Shorter(Content, Content', f) /\ Len(written') = n /\ reuses' = reuses + 1
      BY <3>1 DEF Reused
    <3>3. FolderOk(Content', Len(written'))
      BY <2>1, <3>2, Emptied
    <3>4. \A k \in Key :
            /\ StoreOk(rows[k], checkpoint[k], Content', n, reuses + 1)
            /\ \A r \in rows[k] : Current(r, Content') => Current(r, Content)
      BY <2>1, <3>2, KeptByReuse
    <3> QED BY <2>1, <3>2, <3>3, <3>4
  <2> QED BY <1>2, <2>2, <2>3, <2>4
<1>4. Folder' /\ Stored'
  BY <1>1, <1>2, <1>3 DEF Folder, Stored, JInv
<1>5. Reading'
  <2> SUFFICES ASSUME sync.at = "open"
               PROVE  /\ sync.file \in File
                      /\ ~sync.replaced => sync.start = checkpoint[sync.key][sync.file]
                      /\ sync.replaced =>
                           /\ sync.start = 0
                           /\ \A r \in rows[sync.key] : r.file = sync.file =>
                                ~Current(r, Content') /\ r.gen < reuses'
    BY <1>1 DEF Reading
  <2>1. sync.key \in Key /\ rows[sync.key] \subseteq Entry
    BY DEF JInv, Opened, SyncState, Stored
  <2>2. \A r \in rows[sync.key] : r.gen \in Nat
    BY <2>1 DEF Entry
  <2>3. reuses \in Nat
    BY Sizes
  <2> QED BY <2>1, <2>2, <2>3, <1>3 DEF JInv, Reading
<1>6. Opened' /\ Known' /\ Applied'
  BY <1>1 DEF JInv, Opened, Known, Applied
<1> QED BY <1>1, <1>4, <1>5, <1>6 DEF JInv
-----------------------------------------------------------------------------
(* The sync.                                                                *)

\* What the folder and the stores keep while neither changes.
LEMMA Untouched ==
  ASSUME JInv, UNCHANGED folder
  PROVE  /\ Folder' /\ Content' = Content
         /\ UNCHANGED <<rows, checkpoint>> => Stored'
<1>1. Content' = Content /\ UNCHANGED <<written, file, game, reuses>>
  BY DEF folder, Content
<1>2. Folder'
  BY <1>1 DEF JInv, Folder, FolderTypes
<1> QED BY <1>1, <1>2 DEF JInv, Stored

LEMMA Owners ==
  ASSUME JInv, NEW f \in File, NEW bad
  PROVE  Classified(f, bad) \in Fid \cup {"unread", "pending", "menu"}
<1>1. /\ file[f].lines \in Seq(Nat) /\ Len(file[f].lines) \in Nat
      /\ DOMAIN file[f].lines = 1 .. Len(file[f].lines)
      /\ \A i \in 1 .. Len(file[f].lines) : file[f].lines[i] \in 1 .. Len(written)
  BY Sizes, LenProperties DEF FolderOk
<1>2. \A t \in 1 .. Len(written) : written[t].who \in Fid
  <2>1. written \in Seq([who : Fid, kind : Kind])
    BY DEF JInv, Folder, FolderTypes
  <2>2. \A t \in 1 .. Len(written) : written[t] \in [who : Fid, kind : Kind]
    BY <2>1, ElementOfSeq
  <2> QED BY <2>2
<1>3. OwnerOf(f) \in Fid \cup {"pending", "menu"}
  <2> DEFINE named == {i \in DOMAIN file[f].lines : IsLogin(file[f].lines[i])}
  <2>1. named # {} => Min(named) \in 1 .. Len(file[f].lines)
    <3>1. named \subseteq 1 .. Len(file[f].lines) /\ named \subseteq Nat
      BY <1>1
    <3> HIDE DEF named
    <3> QED BY <3>1, MinOf
  <2>2. OwnerOf(f) = IF named # {} THEN written[file[f].lines[Min(named)]].who
                     ELSE IF file[f].lines # <<>>
                             /\ written[file[f].lines[Len(file[f].lines)]].kind = "shutdown"
                          THEN "menu"
                          ELSE "pending"
    BY DEF OwnerOf
  <2> HIDE DEF named
  <2> QED BY <2>1, <2>2, <1>1, <1>2
<1>4. owner[f] \in Fid \cup {"unread", "pending", "menu"}
  BY DEF JInv, Known
<1> QED BY <1>3, <1>4 DEF Classified, Found

LEMMA StartOk ==
  ASSUME JInv, SyncStart
  PROVE  JInv'
<1>0. PICK bad \in SUBSET File : SyncStartWithout(bad)
  BY DEF SyncStart
<1>1. UNCHANGED folder /\ UNCHANGED <<rows, checkpoint, mark, derived>>
  BY <1>0 DEF SyncStartWithout, db
<1>2. Known'
  <2>1. \A f \in File : Classified(f, bad) \in Fid \cup {"unread", "pending", "menu"}
    BY Owners
  <2>2. misread' \subseteq File /\ owner' = [f \in File |-> Classified(f, bad)]
    BY <1>0 DEF SyncStartWithout, JInv, Known
  <2> QED BY <2>1, <2>2 DEF Known
<1>3. /\ sync' \in SyncState /\ sync'.at = "ingest"
      /\ \A k \in Key : sync'.todo[k] = Share(k, bad)
  <2>1. sync' = [NoSync EXCEPT !.at = "ingest", !.todo = [k \in Key |-> Share(k, bad)]]
    BY <1>0 DEF SyncStartWithout
  <2>2. [k \in Key |-> Share(k, bad)] \in [Key -> SUBSET File]
    BY DEF Share
  <2>3. PICK todo \in [Key -> SUBSET File] : todo = [k \in Key |-> Share(k, bad)]
    BY <2>2
  <2>4. sync' = [at |-> "ingest", todo |-> todo, key |-> Placeholder, file |-> NoFile,
                 start |-> 0, replaced |-> FALSE]
    BY <2>1, <2>3 DEF NoSync
  <2>5. sync' \in SyncState /\ sync'.at = "ingest" /\ sync'.todo = todo
    BY <2>4 DEF SyncState, Key
  <2> QED BY <2>3, <2>5
<1>4. /\ stores' = OpenStores(bad) /\ stores \in (SUBSET Key) \ {{}}
      /\ Placeholder \notin Fid
  BY <1>0, JournalSyncAssumption DEF SyncStartWithout, JInv, Opened
<1> DEFINE known == (stores \cup {Classified(f, bad) : f \in File}) \cap Fid
<1>5. OpenStores(bad) \cap Fid = known /\ OpenStores(bad) \in (SUBSET Key) \ {{}}
  BY <1>4 DEF OpenStores, Key
<1>6. ASSUME NEW k \in Fid, Share(k, bad) # {}
      PROVE  k \in known
  <2>1. k # Placeholder /\ k \in Fid
    BY <1>4
  <2> HIDE DEF known
  <2>2. CASE known = {} \/ known = {k}
    BY <2>1, <2>2, <1>5, <1>6 DEF Share
  <2>3. CASE known # {} /\ known # {k}
    <3>1. PICK f \in File : Classified(f, bad) = k
      BY <2>3, <1>5, <1>6 DEF Share
    <3> QED BY <3>1, <2>1 DEF known
  <2> QED BY <2>2, <2>3
<1>7. \A k \in Fid : rows[k] # {} => k \in known
  BY DEF JInv, Opened
<1>8. Opened'
  <2>1. \A k \in Fid : k \in Key
    BY DEF Key
  <2> HIDE DEF known
  <2> QED BY <2>1, <1>1, <1>3, <1>4, <1>5, <1>6, <1>7 DEF Opened
<1>9. Reading' /\ Applied'
  BY <1>1, <1>3 DEF Reading, Applied, JInv
<1> QED BY <1>1, <1>2, <1>8, <1>9, Untouched DEF JInv

\* After a file is done the sync has one less to do.
LEMMA OneLess ==
  ASSUME sync \in SyncState, NEW k \in Key, NEW f
  PROVE  /\ Next1(k, f) \in SyncState /\ Next1(k, f).at = "ingest"
         /\ \A x \in Key : Next1(k, f).todo[x] \subseteq sync.todo[x]
<1>1. PICK t \in [Key -> SUBSET File] : t = [sync.todo EXCEPT ![k] = @ \ {f}]
  BY DEF SyncState
<1>2. \A x \in Key : t[x] \subseteq sync.todo[x]
  BY <1>1 DEF SyncState
<1>3. Next1(k, f) = [sync EXCEPT !.at = "ingest", !.todo = t]
  BY <1>1 DEF Next1
<1> QED BY <1>2, <1>3 DEF SyncState

LEMMA StatOk ==
  ASSUME JInv, NEW k \in Key, NEW f \in File, Stat(k, f)
  PROVE  JInv'
<1>1. UNCHANGED folder /\ UNCHANGED <<rows, checkpoint, mark, derived, owner, stores, misread>>
  BY DEF Stat, db, registry
<1>2. Folder' /\ Content' = Content /\ Stored'
  BY <1>1, Untouched
<1>3. /\ Known' /\ Applied' /\ reuses' = reuses
  BY <1>1 DEF JInv, Known, Applied, folder
<1>4. sync \in SyncState /\ sync.todo[k] # {} /\ f \in sync.todo[k]
  BY DEF JInv, Opened, Stat
<1>5. CASE sync' = Next1(k, f)
  <2>1. sync' \in SyncState /\ sync'.at = "ingest"
        /\ \A x \in Key : sync'.todo[x] \subseteq sync.todo[x]
    BY <1>4, <1>5, OneLess
  <2>2. Reading'
    BY <2>1 DEF Reading
  <2>3. \A x \in Fid : x \in Key
    BY DEF Key
  <2>4. Opened'
    BY <2>1, <2>3, <1>1 DEF Opened, JInv
  <2> QED BY <1>2, <1>3, <2>2, <2>4 DEF JInv
<1>6. CASE sync' # Next1(k, f)
  <2> DEFINE cp == checkpoint[k][f]
  <2>1. PICK start, replaced :
          /\ start = IF Replaced(k, f) THEN 0 ELSE cp
          /\ replaced = Replaced(k, f)
          /\ sync' = [sync EXCEPT !.at = "open", !.key = k, !.file = f,
                                  !.start = start, !.replaced = replaced]
    BY <1>6 DEF Stat
  <2>2. cp \in Nat /\ start \in Nat /\ replaced \in BOOLEAN
    BY <2>1 DEF JInv, Stored, Replaced
  <2>3. /\ sync' \in SyncState /\ sync'.at = "open" /\ sync'.todo = sync.todo
        /\ sync'.key = k /\ sync'.file = f /\ sync'.start = start
        /\ sync'.replaced = replaced
    BY <2>1, <2>2, <1>4 DEF SyncState
  <2>4. Opened'
    BY <2>3, <1>1, <1>4 DEF Opened, JInv
  <2>5. ASSUME replaced
        PROVE  \A r \in rows[k] : r.file = f => ~Current(r, Content) /\ r.gen < reuses
    <3>1. cp > 2 * Len(Content[f])
      <4>1. Size(f) < cp
        BY <2>1, <2>5 DEF Replaced
      <4>2. Size(f) = 2 * Len(Content[f]) \/ Size(f) = 2 * Len(Content[f]) + 1
        <5>1. Content[f] = file[f].lines /\ Len(Content[f]) \in Nat
          BY Sizes
        <5>2. Size(f) = 2 * Len(Content[f]) + (IF file[f].half THEN 1 ELSE 0)
          BY <5>1 DEF Size
        <5>3. CASE file[f].half
          BY <5>1, <5>2, <5>3
        <5>4. CASE ~file[f].half
          BY <5>1, <5>2, <5>4
        <5> QED BY <5>3, <5>4
      <4> QED BY <4>1, <4>2, <2>2, Sizes
    <3>2. \A r \in rows[k] : /\ Current(r, Content) =>
                                  checkpoint[k][r.file] <= 2 * Len(Content[r.file])
                             /\ checkpoint[k][r.file] > 2 * Len(Content[r.file]) =>
                                  r.gen < reuses
      BY DEF JInv, Stored, StoreOk, CheckpointsOk
    <3> QED BY <3>1, <3>2, <2>2, Sizes
  <2>6. Reading'
    BY <2>1, <2>3, <2>5, <1>1, <1>2, <1>3 DEF Reading
  <2> QED BY <1>2, <1>3, <2>4, <2>6 DEF JInv
<1> QED BY <1>5, <1>6

LEMMA Inserts ==
  ASSUME NEW f \in File, NEW base, NEW is
  PROVE  /\ Adds(Inserted(base, f, is), base, Content, f, is)
         /\ base \subseteq Inserted(base, f, is)
<1>1. Content[f] = file[f].lines
  BY DEF Content
<1>2. ASSUME NEW r \in Inserted(base, f, is), r \notin base
      PROVE  \E i \in is :
               /\ r = [file |-> f, gen |-> 0, at |-> i, line |-> Content[f][i]]
               /\ ~\E x \in base : LiveRow(x, f) /\ x.at = i
  BY <1>1, <1>2 DEF Inserted
<1>3. base \subseteq Inserted(base, f, is)
  BY DEF Inserted
<1> QED BY <1>2, <1>3 DEF Adds

LEMMA ReadOk ==
  ASSUME JInv, Read
  PROVE  /\ JInv' /\ stores' = stores
         /\ \A k \in Key : Lines(k) \subseteq Lines(k)'
<1> DEFINE k == sync.key
           f == sync.file
           n == Len(written)
           base == IF sync.replaced THEN Archived(rows[k], f) ELSE rows[k]
<1>1. UNCHANGED folder /\ UNCHANGED <<mark, derived, owner, stores, misread>>
  BY DEF Read, registry
<1>2. /\ Folder' /\ Content' = Content /\ UNCHANGED <<written, reuses>>
      /\ Known' /\ Applied'
  BY <1>1, Untouched DEF JInv, Known, Applied, folder
<1>3. /\ k \in Key /\ f \in File /\ sync \in SyncState /\ sync.at = "open"
      /\ sync.start \in Nat /\ sync.replaced \in BOOLEAN
      /\ ~sync.replaced => sync.start = checkpoint[k][f]
      /\ sync.replaced =>
           /\ sync.start = 0
           /\ \A r \in rows[k] : r.file = f => ~Current(r, Content) /\ r.gen < reuses
  BY DEF Read, JInv, Opened, Reading, SyncState
<1>4. /\ rows \in [Key -> SUBSET Entry] /\ checkpoint \in [Key -> [File -> Nat]]
      /\ StoreOk(rows[k], checkpoint[k], Content, n, reuses)
  BY <1>3 DEF JInv, Stored
<1>5. /\ sync' \in SyncState /\ sync'.at = "ingest"
      /\ \A x \in Key : sync'.todo[x] \subseteq sync.todo[x]
  <2>1. sync' = Next1(k, f)
    BY DEF Read
  <2> QED BY <2>1, <1>3, OneLess
<1>6. Reading'
  BY <1>5 DEF Reading
<1>7. CASE Fresh = {}
  <2>1. UNCHANGED <<rows, checkpoint>>
    BY <1>7 DEF Read
  <2>2. Stored' /\ \A x \in Key : Lines(x) \subseteq Lines(x)'
    BY <2>1, <1>1, Untouched DEF Lines
  <2>3. \A x \in Fid : x \in Key
    BY DEF Key
  <2>4. Opened'
    BY <2>1, <2>3, <1>1, <1>5 DEF Opened, JInv
  <2> QED BY <1>1, <1>2, <1>6, <2>2, <2>4 DEF JInv
<1>8. CASE Fresh # {}
  <2> DEFINE is == Accepted(k)
             new == Inserted(base, f, is)
             end == [checkpoint[k] EXCEPT ![f] = 2 * Len(Content[f])]
  <2>1. /\ rows' = [rows EXCEPT ![k] = new]
        /\ checkpoint' = [checkpoint EXCEPT ![k] = end]
    BY <1>3, <1>4, <1>8, Sizes DEF Read, Consumed
  <2>2. /\ is \subseteq 1 .. Len(Content[f]) /\ \A i \in is : 2 * (i - 1) >= sync.start
        /\ sync.start <= 2 * Len(Content[f])
    <3>1. /\ Fresh \subseteq 1 .. Len(Content[f])
          /\ \A i \in Fresh : 2 * (i - 1) >= sync.start
      <4>1. DOMAIN file[f].lines = 1 .. Len(Content[f])
        BY <1>3, Sizes, LenProperties
      <4> QED BY <4>1 DEF Fresh
    <3>2. PICK i \in Fresh : TRUE
      BY <1>8
    <3>3. Len(Content[f]) \in Nat
      BY <1>3, Sizes
    <3>4. sync.start <= 2 * Len(Content[f])
      BY <3>1, <3>2, <3>3, <1>3
    <3>5. is \subseteq Fresh
      BY DEF Accepted
    <3> QED BY <3>1, <3>4, <3>5
  <2>3. Adds(new, base, Content, f, is) /\ base \subseteq new
    BY <1>3, Inserts
  <2>4. StoreOk(new, end, Content, n, reuses)
    <3>1. FolderOk(Content, n) /\ n \in Nat /\ reuses \in Nat
      BY Sizes
    <3> HIDE DEF is, new
    <3> QED BY <3>1, <2>2, <2>3, <1>3, <1>4, Ingesting
  <2>5. \A r \in rows[k] : \E s \in base : s.line = r.line
    <3>1. CASE sync.replaced
      <4>1. FolderOk(Content, n) /\ n \in Nat /\ reuses \in Nat
        BY Sizes
      <4>2. \A r \in rows[k] : \E s \in Archived(rows[k], f) : s.line = r.line
        BY <3>1, <4>1, <1>3, <1>4, Archiving
      <4> QED BY <3>1, <4>2
    <3>2. CASE ~sync.replaced
      BY <3>2
    <3> QED BY <3>1, <3>2
  <2> HIDE DEF new, base, end, is
  <2>6. new \subseteq Entry /\ end \in [File -> Nat]
    BY <2>4 DEF StoreOk, CheckpointsOk
  <2>7. /\ rows' \in [Key -> SUBSET Entry] /\ checkpoint' \in [Key -> [File -> Nat]]
        /\ rows'[k] = new /\ checkpoint'[k] = end
        /\ \A x \in Key \ {k} : rows'[x] = rows[x] /\ checkpoint'[x] = checkpoint[x]
    BY <2>1, <2>6, <1>3, <1>4
  <2>8. Stored'
    <3>1. \A x \in Key : StoreOk(rows'[x], checkpoint'[x], Content, n, reuses)
      BY <2>4, <2>7 DEF JInv, Stored
    <3> QED BY <3>1, <2>7, <1>2 DEF Stored
  <2>9. ASSUME NEW x \in Key
        PROVE  Lines(x) \subseteq Lines(x)'
    <3>1. CASE x = k
      <4>1. \A r \in rows[k] : \E s \in new : s.line = r.line
        BY <2>3, <2>5
      <4> QED BY <3>1, <4>1, <2>7 DEF Lines
    <3>2. CASE x # k
      BY <3>2, <2>7 DEF Lines
    <3> QED BY <3>1, <3>2
  <2>10. Opened'
    <3>1. \A x \in Fid : x \in Key /\ (rows'[x] # {} => x \in stores)
      BY <2>7, <1>3 DEF JInv, Opened, Key
    <3> QED BY <3>1, <1>1, <1>5 DEF JInv, Opened
  <2> QED BY <1>1, <1>2, <1>6, <2>8, <2>9, <2>10 DEF JInv
<1> QED BY <1>7, <1>8

LEMMA DeriveOk ==
  ASSUME JInv, Derive
  PROVE  JInv'
<1>1. /\ UNCHANGED folder /\ UNCHANGED <<rows, checkpoint, owner, stores, misread>>
      /\ sync' = NoSync
  BY DEF Derive, registry
<1>2. Folder' /\ Stored' /\ Known'
  BY <1>1, Untouched DEF JInv, Known
<1>3. /\ sync' \in SyncState /\ sync'.at = "idle" /\ \A k \in Key : sync'.todo[k] = {}
  BY <1>1 DEF NoSync, SyncState, Key
<1>4. Reading' /\ Opened'
  BY <1>1, <1>3 DEF Reading, Opened, JInv, Key
<1>5. ASSUME NEW k \in Key
      PROVE  After(k) \subseteq Stamp /\ NewMark(k) \in 0 .. MaxLines
  <2>1. \A r \in rows[k] : r.line \in Stamp
    <3>1. rows[k] \subseteq Entry /\ \A r \in rows[k] : r.line <= Len(written)
      BY DEF JInv, Stored, StoreOk, RowsOk
    <3> QED BY <3>1, Sizes DEF Entry, Stamp
  <2>2. After(k) \subseteq Stamp
    BY <2>1 DEF After, Derivable
  <2>3. mark[k] \in 0 .. MaxLines
    BY DEF JInv, Applied
  <2> DEFINE S == After(k) \cup {mark[k]}
  <2>4. S \subseteq 0 .. MaxLines /\ S \subseteq Nat /\ S # {} /\ MaxLines \in Nat
        /\ \A x \in S : x <= MaxLines
    BY <2>2, <2>3, Sizes DEF Stamp
  <2>5. Max(S) \in S
    <3> HIDE DEF S
    <3> QED BY <2>4, MaxOf
  <2> QED BY <2>2, <2>4, <2>5 DEF NewMark
<1>6. Applied'
  BY <1>5 DEF Derive, JInv, Applied
<1> QED BY <1>2, <1>4, <1>6 DEF JInv

LEMMA FailsOk ==
  ASSUME JInv, SyncFails
  PROVE  JInv'
<1>1. /\ UNCHANGED folder /\ sync' = NoSync
      /\ UNCHANGED <<rows, checkpoint, mark, derived, owner, stores, misread>>
  BY DEF SyncFails, registry, db
<1>2. Folder' /\ Stored' /\ Known' /\ Applied'
  BY <1>1, Untouched DEF JInv, Known, Applied
<1>3. /\ sync' \in SyncState /\ sync'.at = "idle" /\ \A k \in Key : sync'.todo[k] = {}
  BY <1>1 DEF NoSync, SyncState, Key
<1>4. Reading' /\ Opened'
  BY <1>1, <1>3 DEF Reading, Opened, JInv, Key
<1> QED BY <1>2, <1>4 DEF JInv

\* A store that holds nothing.
LEMMA Bare ==
  ASSUME JInv
  PROVE  StoreOk({}, [f \in File |-> 0], Content, Len(written), reuses)
BY Sizes DEF StoreOk, RowsOk, CheckpointsOk, Single, InOrder

LEMMA RestartOk ==
  ASSUME JInv, Restart
  PROVE  /\ JInv'
         /\ \A k \in Fid : Lines(k) \subseteq Lines(k)'
<1>1. UNCHANGED folder /\ sync' = NoSync
  BY DEF Restart
<1>2. Folder' /\ Content' = Content /\ UNCHANGED <<written, reuses>>
  BY <1>1, Untouched DEF folder
<1>3. Known'
  BY DEF Restart, Known, JInv
<1>4. /\ sync' \in SyncState /\ sync'.at = "idle" /\ \A k \in Key : sync'.todo[k] = {}
  BY <1>1 DEF NoSync, SyncState, Key
<1>5. Reading'
  BY <1>4 DEF Reading
<1>6. /\ Placeholder \in Key /\ Placeholder \notin Fid /\ \A k \in Fid : k \in Key
      /\ stores \in (SUBSET Key) \ {{}}
      /\ \A k \in Fid : rows[k] # {} => k \in stores
      /\ rows \in [Key -> SUBSET Entry] /\ checkpoint \in [Key -> [File -> Nat]]
      /\ mark \in [Key -> 0 .. MaxLines] /\ derived \in [Key -> SUBSET Stamp]
  BY JournalSyncAssumption DEF JInv, Opened, Stored, Applied, Key
<1>7. Met \subseteq Fid
  <2>1. \A r \in rows[Placeholder] : r.line \in 1 .. Len(written)
    <3>1. \A r \in rows[Placeholder] : r \in Entry /\ r.line <= Len(written)
      BY <1>6 DEF JInv, Stored, StoreOk, RowsOk
    <3> QED BY <3>1, Sizes DEF Entry
  <2>2. \A t \in 1 .. Len(written) : written[t] \in [who : Fid, kind : Kind]
    BY ElementOfSeq DEF JInv, Folder, FolderTypes
  <2> QED BY <2>1, <2>2 DEF Met
<1>8. CASE ~(Legacy /\ Met # {})
  <2>0. /\ UNCHANGED <<rows, checkpoint, mark, derived>>
        /\ Legacy => stores' = stores
        /\ ~Legacy => stores' = stores \cap Fid
    BY <1>8 DEF Restart, Handed
  <2>1. /\ UNCHANGED <<rows, checkpoint, mark, derived>>
        /\ \/ stores' = stores
           \/ ~Legacy /\ stores' = stores \cap Fid
    BY <2>0
  <2>2. Stored' /\ Applied' /\ \A k \in Fid : Lines(k) \subseteq Lines(k)'
    BY <2>1, <1>1, Untouched DEF JInv, Applied, Lines
  <2>3. stores' \in (SUBSET Key) \ {{}}
    <3>1. CASE ~Legacy
      BY <3>1, <2>1, <1>6 DEF Legacy, Key
    <3>2. CASE Legacy
      BY <3>2, <2>1, <1>6
    <3> QED BY <3>1, <3>2
  <2>4. Opened'
    BY <2>1, <2>3, <1>4, <1>6 DEF Opened
  <2> QED BY <1>2, <1>3, <1>5, <2>2, <2>4 DEF JInv
<1>9. CASE Legacy /\ Met # {}
  <2> DEFINE own(k) == Met = {k}
  <2>1. /\ rows' = [k \in Key |-> IF own(k) THEN rows[Placeholder] ELSE {}]
        /\ checkpoint' = [k \in Key |-> IF own(k) THEN checkpoint[Placeholder]
                                        ELSE [f \in File |-> 0]]
        /\ mark' = [k \in Key |-> IF own(k) THEN mark[Placeholder] ELSE 0]
        /\ derived' = [k \in Key |-> IF own(k) THEN derived[Placeholder] ELSE {}]
        /\ stores' = Met
    BY <1>9 DEF Restart, Handed
  <2> HIDE DEF own
  <2>2. Stored'
    <3>1. \A k \in Key : StoreOk(rows'[k], checkpoint'[k], Content, Len(written), reuses)
      BY <2>1, <1>6, Bare DEF JInv, Stored
    <3>2. rows' \in [Key -> SUBSET Entry] /\ checkpoint' \in [Key -> [File -> Nat]]
      BY <2>1, <1>6
    <3> QED BY <3>1, <3>2, <1>2 DEF Stored
  <2>3. Applied'
    BY <2>1, <1>6, Sizes DEF Applied
  <2>4. \A k \in Fid : rows'[k] # {} => k \in stores'
    BY <2>1, <1>6 DEF own
  <2>5. Opened'
    BY <2>1, <2>4, <1>4, <1>6, <1>7, <1>9 DEF Opened
  <2>6. \A k \in Fid : Lines(k) \subseteq Lines(k)'
    BY <1>6, <1>9 DEF Legacy, Lines
  <2> QED BY <1>2, <1>3, <1>5, <2>2, <2>3, <2>5, <2>6 DEF JInv
<1> QED BY <1>8, <1>9

LEMMA StepOk ==
  ASSUME JInv, [Next]_vars
  PROVE  JInv' /\ \A k \in Fid : Lines(k) \subseteq Lines(k)'
<1>1. UNCHANGED rows => \A k \in Fid : Lines(k) \subseteq Lines(k)'
  BY DEF Lines
<1>2. CASE GameStep
  BY <1>1, <1>2, GameOk
<1>3. CASE SyncStart
  BY <1>1, <1>3, StartOk DEF SyncStart, SyncStartWithout, db
<1>4. CASE \E k \in Key, f \in File : Stat(k, f)
  BY <1>1, <1>4, StatOk DEF Stat, db
<1>5. CASE Read
  BY <1>5, ReadOk DEF Key
<1>6. CASE Derive
  BY <1>1, <1>6, DeriveOk DEF Derive
<1>7. CASE SyncFails
  BY <1>1, <1>7, FailsOk DEF SyncFails, db
<1>8. CASE Restart
  BY <1>8, RestartOk
<1>9. CASE UNCHANGED vars
  <2>1. /\ UNCHANGED folder /\ UNCHANGED <<rows, checkpoint, mark, derived, owner,
                                          stores, sync, misread>>
    BY <1>9 DEF vars, folder
  <2>2. Folder' /\ Stored' /\ Content' = Content /\ reuses' = reuses
    BY <2>1, Untouched DEF folder
  <2>3. Reading' /\ Opened' /\ Known' /\ Applied'
    BY <2>1, <2>2 DEF JInv, Reading, Opened, Known, Applied
  <2> QED BY <2>1, <2>2, <2>3, <1>1 DEF JInv
<1> QED BY <1>2, <1>3, <1>4, <1>5, <1>6, <1>7, <1>8, <1>9 DEF Next, SyncStep

LEMMA Always == Spec => []JInv
<1>1. JInv /\ [Next]_vars => JInv'
  BY StepOk
<1> QED BY <1>1, InitOk, PTL DEF Spec

\* Every variable keeps its shape; in particular no file is archived more often
\* than it was reused, and no checkpoint passes twice the lines ever written.
THEOREM JournalTypes == Spec => []TypeOK
<1>1. JInv => TypeOK
  <2> SUFFICES ASSUME JInv PROVE TypeOK
    OBVIOUS
  <2>1. \A f \in File : /\ file[f].lines \in Seq(Stamp)
                        /\ file[f].last \in Fid \cup {NoKey}
    <3> SUFFICES ASSUME NEW f \in File
                 PROVE  /\ file[f].lines \in Seq(Stamp)
                        /\ file[f].last \in Fid \cup {NoKey}
      OBVIOUS
    <3>1. file[f] \in FileState
      BY DEF JInv, Folder, FolderTypes
    <3>2. /\ file[f].lines = Content[f] /\ file[f].lines \in Seq(Nat)
          /\ \A i \in 1 .. Len(file[f].lines) : file[f].lines[i] \in Stamp
      BY Sizes DEF FolderOk, Stamp
    <3>3. file[f].lines \in Seq(Stamp)
      BY <3>2, LenProperties, IsASeq
    <3> QED BY <3>1, <3>3 DEF FileState
  <2>2. ASSUME NEW k \in Key
        PROVE  rows[k] \subseteq Row /\ checkpoint[k] \in [File -> 0 .. 2 * MaxLines]
    <3>1. StoreOk(rows[k], checkpoint[k], Content, Len(written), reuses)
      BY DEF JInv, Stored
    <3>2. \A r \in rows[k] : /\ r \in Entry /\ r.line <= Len(written)
                             /\ r.at <= Len(written) /\ r.gen <= reuses
      BY <3>1 DEF StoreOk, RowsOk, CheckpointsOk
    <3>3. reuses <= MaxReuses
      BY DEF JInv, Folder, FolderTypes
    <3>4. \A r \in rows[k] : /\ r.gen \in 0 .. MaxReuses /\ r.at \in Stamp
                             /\ r.line \in Stamp
      BY <3>2, <3>3, Sizes DEF Entry, Stamp
    <3>5. rows[k] \subseteq Row
      BY <3>2, <3>4 DEF Entry, Row
    <3>6. checkpoint[k] \in [File -> Nat] /\ \A f \in File : checkpoint[k][f] <= 2 * MaxLines
      BY <3>1, Sizes DEF StoreOk, CheckpointsOk
    <3> QED BY <3>5, <3>6, Sizes
  <2>3. rows \in [Key -> SUBSET Row] /\ checkpoint \in [Key -> [File -> 0 .. 2 * MaxLines]]
    BY <2>2 DEF JInv, Stored
  <2> QED
    BY <2>1, <2>3
    DEF JInv, Folder, FolderTypes, Known, Applied, Opened, SyncState, TypeOK
<1> QED BY <1>1, Always, PTL

\* No line is recorded twice in a store, through every re-read, archive, restart
\* and half-written line, wherever the game truncates a file.
THEOREM LinesOnce == Spec => []OncePerLine
<1>1. JInv => OncePerLine
  BY DEF JInv, Stored, StoreOk, Single, OncePerLine
<1> QED BY <1>1, Always, PTL

\* Replaying a file's archives and then its live rows is replaying its lines in
\* the order they were written.
THEOREM ReplayInOrder == Spec => []ReplayIsChronological
<1>1. JInv => ReplayIsChronological
  BY DEF JInv, Stored, StoreOk, InOrder, ReplayIsChronological
<1> QED BY <1>1, Always, PTL

\* What a commander's store has once recorded stays recorded, whatever the game
\* does to the file it came from and whichever store a restart hands it to.
THEOREM HistoryIsKept == Spec => HistoryKept
<1>1. JInv /\ [Next]_vars => [\A k \in Fid : Lines(k) \subseteq Lines(k)']_vars
  BY StepOk
<1> QED BY <1>1, Always, PTL DEF Spec, HistoryKept
-----------------------------------------------------------------------------
(* A step of the game, with what it writes.                                 *)

Alone(f) == \A g \in File \ {f} : file'[g] = file[g]
Quiet ==
  /\ UNCHANGED <<written, game>>
  /\ \A f \in File : /\ file'[f].lines = file[f].lines /\ file'[f].last = file[f].last
                     /\ file'[f].there = file[f].there /\ file'[f].reused = file[f].reused
Opens(c, f) ==
  /\ ~file[f].there /\ \A g \in 1 .. f - 1 : file[g].there
  /\ Alone(f) /\ file'[f].there /\ file'[f].lines = <<>>
  /\ ~file'[f].reused /\ file'[f].last = c
  /\ game' = [game EXCEPT ![c] = f] /\ UNCHANGED written
Empties(c, f) ==
  /\ file[f].there /\ Alone(f) /\ file'[f].there /\ file'[f].reused
  /\ reuses < MaxReuses /\ UNCHANGED written
AddsLine(c, f, kind) ==
  /\ file[f].there /\ Alone(f) /\ file'[f].there
  /\ file'[f].reused = file[f].reused /\ file'[f].last = c
  /\ Longer(Content, Content', f, Len(written))
  /\ written' = Append(written, [who |-> c, kind |-> kind])
  /\ ~ChangesHands => /\ game[c] = f
                      /\ kind = "play" => LoggedIn(f)
                      /\ IF kind = "shutdown" THEN game' = [game EXCEPT ![c] = NoFile]
                         ELSE UNCHANGED game

LEMMA GameEffects ==
  ASSUME JInv, GameStep
  PROVE  \/ Quiet
         \/ \E c \in Fid, f \in File : Opens(c, f) \/ Empties(c, f)
         \/ \E c \in Fid, f \in File, kind \in Kind : AddsLine(c, f, kind)
<1>1. /\ FolderTypes /\ Folder
      /\ \A c \in Fid : game[c] # NoFile => game[c] \in File /\ file[game[c]].there
  BY DEF JInv, Folder, FolderTypes
<1>2. /\ file \in [File -> FileState]
      /\ \A f \in File : file[f] \in FileState
  BY <1>1 DEF FolderTypes
<1>3. ASSUME NEW c \in Fid, NEW f \in File, Launch(c, f) PROVE Opens(c, f)
  <2>1. PICK x : x = [Absent EXCEPT !.there = TRUE, !.last = c]
    OBVIOUS
  <2>2. x.there /\ x.lines = <<>> /\ ~x.reused /\ x.last = c
    BY <2>1 DEF Absent
  <2>3. file' = [file EXCEPT ![f] = x]
    BY <1>3, <2>1 DEF Launch
  <2>4. file'[f] = x /\ Alone(f)
    BY <1>2, <2>3 DEF Alone
  <2> QED BY <1>3, <2>2, <2>4 DEF Launch, Opens
<1>4. ASSUME NEW c \in Fid, NEW f \in File, Relaunch(c, f) PROVE Empties(c, f)
  <2>1. PICK x : x = [Absent EXCEPT !.there = TRUE, !.last = c, !.reused = TRUE]
    OBVIOUS
  <2>2. x.there /\ x.reused
    BY <2>1 DEF Absent
  <2>3. file' = [file EXCEPT ![f] = x]
    BY <1>4, <2>1 DEF Relaunch
  <2>4. file'[f] = x /\ Alone(f)
    BY <1>2, <2>3 DEF Alone
  <2> QED BY <1>4, <2>2, <2>4 DEF Relaunch, Empties
<1>5. ASSUME NEW c \in Fid, NEW f \in File, NEW kind \in Kind, file[f].there, Append1(c, f, kind)
      PROVE  /\ Alone(f) /\ file'[f].there
             /\ file'[f].reused = file[f].reused /\ file'[f].last = c
             /\ Longer(Content, Content', f, Len(written))
             /\ written' = Append(written, [who |-> c, kind |-> kind])
  <2>1. PICK lines : lines = Append(file[f].lines, Len(written) + 1)
    OBVIOUS
  <2>2. PICK x : x = [file[f] EXCEPT !.lines = lines, !.half = FALSE, !.aged = FALSE, !.last = c]
    OBVIOUS
  <2>3. x.there = file[f].there /\ x.reused = file[f].reused /\ x.last = c
    BY <2>2, <1>2 DEF FileState
  <2>4. file' = [file EXCEPT ![f] = x]
    BY <1>5, <1>2, <2>1, <2>2 DEF Append1
  <2>5. file'[f] = x /\ Alone(f)
    BY <1>2, <2>4 DEF Alone
  <2>6. Longer(Content, Content', f, Len(written))
    BY <1>1, <1>5, AppendStep
  <2> QED BY <1>5, <2>3, <2>5, <2>6 DEF Append1
<1>6. ASSUME NEW c \in Fid, NEW kind \in Kind, Write(c, kind)
      PROVE  game[c] \in File /\ AddsLine(c, game[c], kind)
  <2>1. game[c] \in File /\ file[game[c]].there /\ Append1(c, game[c], kind) /\ UNCHANGED game
    BY <1>6, <1>1 DEF Write
  <2>2. kind # "shutdown" /\ (kind = "play" => LoggedIn(game[c]))
    BY <1>6 DEF Write
  <2>3. /\ Alone(game[c]) /\ file'[game[c]].there
        /\ file'[game[c]].reused = file[game[c]].reused /\ file'[game[c]].last = c
        /\ Longer(Content, Content', game[c], Len(written))
        /\ written' = Append(written, [who |-> c, kind |-> kind])
    BY <1>5, <2>1
  <2> QED BY <2>1, <2>2, <2>3 DEF AddsLine
<1>7. ASSUME NEW c \in Fid, Quit(c)
      PROVE  game[c] \in File /\ AddsLine(c, game[c], "shutdown")
  <2>1. game[c] \in File /\ file[game[c]].there /\ Append1(c, game[c], "shutdown")
        /\ game' = [game EXCEPT ![c] = NoFile] /\ "shutdown" \in Kind
    BY <1>7, <1>1 DEF Quit, Kind
  <2>2. /\ Alone(game[c]) /\ file'[game[c]].there
        /\ file'[game[c]].reused = file[game[c]].reused /\ file'[game[c]].last = c
        /\ Longer(Content, Content', game[c], Len(written))
        /\ written' = Append(written, [who |-> c, kind |-> "shutdown"])
    BY <1>5, <2>1
  <2> QED BY <2>1, <2>2 DEF AddsLine
<1>8. ASSUME NEW c \in Fid, NEW d \in Fid, SwitchAccount(c, d)
      PROVE  game[c] \in File /\ AddsLine(d, game[c], "login")
  <2>1. game[c] \in File /\ file[game[c]].there /\ Append1(d, game[c], "login")
        /\ ChangesHands /\ "login" \in Kind
    BY <1>8, <1>1 DEF SwitchAccount, Kind
  <2>2. /\ Alone(game[c]) /\ file'[game[c]].there
        /\ file'[game[c]].reused = file[game[c]].reused /\ file'[game[c]].last = d
        /\ Longer(Content, Content', game[c], Len(written))
        /\ written' = Append(written, [who |-> d, kind |-> "login"])
    BY <1>5, <2>1
  <2> QED BY <2>1, <2>2 DEF AddsLine
<1>9. ASSUME NEW c \in Fid, WriteHalf(c) PROVE Quiet
  <2>1. game[c] \in File /\ UNCHANGED <<written, game>>
    BY <1>9, <1>1 DEF WriteHalf
  <2>2. PICK f \in File : f = game[c]
    BY <2>1
  <2>3. PICK x : x = [file[f] EXCEPT !.half = TRUE, !.aged = FALSE]
    OBVIOUS
  <2>4. file' = [file EXCEPT ![f] = x]
    BY <1>9, <2>2, <2>3, <1>2 DEF WriteHalf
  <2>5. /\ x.lines = file[f].lines /\ x.last = file[f].last
        /\ x.there = file[f].there /\ x.reused = file[f].reused
    BY <2>3, <1>2 DEF FileState
  <2> QED BY <2>1, <2>4, <2>5, <1>2 DEF Quiet
<1>10. ASSUME NEW f \in File, Age(f) PROVE Quiet
  <2>1. UNCHANGED <<written, game>>
    BY <1>10 DEF Age
  <2>3. PICK x : x = [file[f] EXCEPT !.aged = TRUE]
    OBVIOUS
  <2>4. file' = [file EXCEPT ![f] = x]
    BY <1>10, <2>3, <1>2 DEF Age
  <2>5. /\ x.lines = file[f].lines /\ x.last = file[f].last
        /\ x.there = file[f].there /\ x.reused = file[f].reused
    BY <2>3, <1>2 DEF FileState
  <2> QED BY <2>1, <2>4, <2>5, <1>2 DEF Quiet
<1>11. "shutdown" \in Kind /\ "login" \in Kind
  BY DEF Kind
<1> QED BY <1>3, <1>4, <1>6, <1>7, <1>8, <1>9, <1>10, <1>11 DEF GameStep

\* The lines of f stand where they stood.
Extends(f) ==
  /\ Len(Content[f]) <= Len(Content'[f])
  /\ \A i \in 1 .. Len(Content[f]) : Content'[f][i] = Content[f][i]

\* The game rewrites no line, but for those of a file whose name it uses again.
LEMMA Lasting ==
  ASSUME JInv, GameStep
  PROVE  /\ \A t \in 1 .. Len(written) : written'[t] = written[t]
         /\ Len(written) <= Len(written')
         /\ \A f \in File :
              /\ ~file'[f].reused => Extends(f) /\ (file[f].there => ~file[f].reused)
              /\ file[f].there => file'[f].there
              /\ ~file'[f].there => file'[f].reused = file[f].reused
<1>1. /\ Len(written) \in Nat /\ written \in Seq([who : Fid, kind : Kind])
      /\ FolderOk(Content, Len(written)) /\ FolderTypes
      /\ \A f \in File : Content[f] = file[f].lines /\ Len(Content[f]) \in Nat
  BY Sizes DEF JInv, Folder, FolderTypes
<1>2. \A f \in File : Content'[f] = file'[f].lines
  BY DEF Content
<1>3. CASE Quiet
  BY <1>1, <1>2, <1>3 DEF Quiet, Extends
<1>4. ASSUME NEW c \in Fid, NEW f \in File, Opens(c, f) \/ Empties(c, f)
      PROVE  /\ UNCHANGED written /\ file'[f].there
             /\ \A g \in File \ {f} : file'[g] = file[g]
             /\ ~file'[f].reused => ~file[f].there /\ file[f].lines = <<>>
  BY <1>1, <1>4 DEF Opens, Empties, Alone, FolderTypes
<1>5. CASE \E c \in Fid, f \in File : Opens(c, f) \/ Empties(c, f)
  <2>1. PICK f \in File :
             /\ UNCHANGED written /\ file'[f].there
             /\ \A g \in File \ {f} : file'[g] = file[g]
             /\ ~file'[f].reused => ~file[f].there /\ file[f].lines = <<>>
    BY <1>4, <1>5
  <2>2. ASSUME NEW g \in File, ~file'[g].reused
        PROVE  Extends(g)
    <3>1. CASE g = f
      <4>1. Content[g] = <<>> /\ Len(Content[g]) = 0
        BY <3>1, <2>1, <2>2, <1>1
      <4>2. Len(Content'[g]) \in Nat
        BY Sizes, GameOk
      <4> QED BY <4>1, <4>2 DEF Extends
    <3>2. CASE g # f
      BY <3>2, <2>1, <1>1, <1>2 DEF Extends
    <3> QED BY <3>1, <3>2
  <2> QED BY <1>1, <2>1, <2>2
<1>6. CASE \E c \in Fid, f \in File, kind \in Kind : AddsLine(c, f, kind)
  <2>1. PICK c \in Fid, f \in File, kind \in Kind : AddsLine(c, f, kind)
    BY <1>6
  <2>2. \A g \in File : Extends(g)
    <3>1. /\ \A g \in File : g # f => Content'[g] = Content[g]
          /\ Len(Content'[f]) = Len(Content[f]) + 1
          /\ \A i \in 1 .. Len(Content[f]) : Content'[f][i] = Content[f][i]
      BY <2>1, <1>1, Grown DEF AddsLine
    <3> QED BY <3>1, <1>1 DEF Extends
  <2>3. PICK line \in [who : Fid, kind : Kind] : written' = Append(written, line)
    BY <2>1 DEF AddsLine
  <2>4. /\ \A t \in 1 .. Len(written) : written'[t] = written[t]
        /\ Len(written') = Len(written) + 1
    BY <2>3, <1>1, AppendProperties
  <2>5. \A g \in File : file'[g].reused = file[g].reused /\ (file[g].there => file'[g].there)
    BY <2>1 DEF AddsLine, Alone
  <2> QED BY <2>2, <2>4, <2>5, <1>1
<1> QED BY <1>3, <1>5, <1>6, GameEffects
-----------------------------------------------------------------------------
(* A file whose name was used once: what is before its checkpoint was taken. *)

Passed(k, f, i) == 2 * (i - 1) < checkpoint[k][f]
\* A line of f that a store refuses, or one behind it.
Strange(k, f, i) ==
  k \in Fid /\ \E j \in 1 .. i : IsLogin(Content[f][j]) /\ written[Content[f][j]].who # k

FaithfulTo(k, f) ==
  /\ checkpoint[k][f] <= 2 * Len(Content[f])
  /\ \A i \in 1 .. Len(Content[f]) : Passed(k, f, i) => Content[f][i] \in Lines(k) \/ Strange(k, f, i)
  /\ \A r \in rows[k] : r.file = f => Current(r, Content)

Faithful ==
  /\ \A k \in Key, f \in File : ~file[f].reused => FaithfulTo(k, f)
  /\ \A f \in File : ~file[f].there => ~file[f].reused
  /\ sync.at = "open" /\ ~file[sync.file].reused => ~sync.replaced

LEMMA FaithfulGame ==
  ASSUME JInv, Faithful, GameStep
  PROVE  Faithful'
<1>1. /\ UNCHANGED <<rows, checkpoint, sync>>
      /\ \A t \in 1 .. Len(written) : written'[t] = written[t]
      /\ FolderOk(Content, Len(written))
      /\ \A f \in File : Len(Content[f]) \in Nat /\ Len(Content'[f]) \in Nat
      /\ checkpoint \in [Key -> [File -> Nat]]
  BY GameOk, Lasting, Sizes DEF JInv, Stored
<1>2. \A f \in File : ~file'[f].reused => ~file[f].reused /\ Extends(f)
  BY Lasting DEF Faithful
<1>3. ASSUME NEW k \in Key, NEW f \in File, ~file'[f].reused
      PROVE  FaithfulTo(k, f)'
  <2>1. /\ FaithfulTo(k, f) /\ Len(Content[f]) <= Len(Content'[f])
        /\ \A i \in 1 .. Len(Content[f]) : Content'[f][i] = Content[f][i]
    BY <1>2, <1>3 DEF Faithful, Extends
  <2>2. checkpoint[k][f] \in Nat /\ checkpoint[k][f] <= 2 * Len(Content[f])
    BY <2>1, <1>1 DEF FaithfulTo
  <2>3. ASSUME NEW i \in 1 .. Len(Content'[f]), Passed(k, f, i)
        PROVE  Content'[f][i] \in Lines(k)' \/ Strange(k, f, i)'
    <3>1. i \in 1 .. Len(Content[f])
      BY <2>2, <2>3, <1>1 DEF Passed
    <3>2. Content[f][i] \in Lines(k) \/ Strange(k, f, i)
      BY <2>1, <2>3, <3>1 DEF FaithfulTo
    <3>3. \A j \in 1 .. i : /\ Content'[f][j] = Content[f][j]
                            /\ Content[f][j] \in 1 .. Len(written)
      BY <2>1, <3>1, <1>1 DEF FolderOk
    <3>4. Strange(k, f, i) => Strange(k, f, i)'
      BY <3>3, <1>1 DEF Strange, IsLogin
    <3> QED BY <3>1, <3>2, <3>4, <2>1, <1>1 DEF Lines
  <2>4. ASSUME NEW r \in rows[k], r.file = f
        PROVE  Current(r, Content')
    <3>1. Current(r, Content)
      BY <2>1, <2>4 DEF FaithfulTo
    <3> QED BY <3>1, <2>1, <2>4, <1>1 DEF Current
  <2>5. checkpoint'[k][f] <= 2 * Len(Content'[f])
    BY <2>1, <2>2, <1>1
  <2>6. \A i \in 1 .. Len(Content'[f]) :
          Passed(k, f, i)' => Content'[f][i] \in Lines(k)' \/ Strange(k, f, i)'
    BY <2>3, <1>1 DEF Passed
  <2>7. \A r \in rows'[k] : r.file = f => Current(r, Content')
    BY <2>4, <1>1
  <2> QED BY <2>5, <2>6, <2>7 DEF FaithfulTo
<1>4. \A f \in File : ~file'[f].there => ~file'[f].reused
  BY Lasting DEF Faithful
<1>5. sync.at = "open" /\ ~file'[sync.file].reused => ~sync.replaced
  BY <1>2 DEF Faithful, JInv, Reading
<1> QED BY <1>1, <1>3, <1>4, <1>5 DEF Faithful

\* What the placeholder refused nothing of may be handed to any store.
LEMMA FaithfulCarried ==
  ASSUME JInv, UNCHANGED folder, NEW k \in Key, NEW j \in {k, Placeholder}, NEW f \in File,
         FaithfulTo(j, f), Lines(j) \subseteq Lines(k)', checkpoint'[k][f] = checkpoint[j][f],
         \A r \in rows'[k] : r.file = f => r \in rows[j]
  PROVE  FaithfulTo(k, f)'
<1>1. Content' = Content /\ written' = written
  BY Untouched DEF folder
<1>2. ASSUME NEW i \in 1 .. Len(Content[f]), Strange(j, f, i)
      PROVE  Strange(k, f, i)'
  <2>1. j = k
    BY <1>2, JournalSyncAssumption DEF Strange
  <2> QED BY <2>1, <1>1, <1>2 DEF Strange, IsLogin
<1>3. \A i : Passed(k, f, i)' <=> Passed(j, f, i)
  BY DEF Passed
<1> QED BY <1>1, <1>2, <1>3 DEF FaithfulTo

LEMMA FaithfulBare ==
  ASSUME JInv', NEW k \in Key, NEW f \in File, rows'[k] = {}, checkpoint'[k][f] = 0
  PROVE  FaithfulTo(k, f)'
<1>1. Len(Content'[f]) \in Nat
  BY DEF JInv, Folder, FolderTypes, FolderOk
<1> QED BY <1>1 DEF FaithfulTo, Passed

LEMMA SizeBounds ==
  ASSUME JInv, NEW f \in File
  PROVE  Size(f) \in Nat /\ 2 * Len(Content[f]) <= Size(f) /\ Size(f) <= 2 * Len(Content[f]) + 1
<1>1. Content[f] = file[f].lines /\ Len(Content[f]) \in Nat
  BY Sizes
<1>2. Size(f) = 2 * Len(Content[f]) + (IF file[f].half THEN 1 ELSE 0)
  BY <1>1 DEF Size
<1>3. CASE file[f].half
  BY <1>1, <1>2, <1>3
<1>4. CASE ~file[f].half
  BY <1>1, <1>2, <1>4
<1> QED BY <1>3, <1>4

\* What a look at a file leaves.
LEMMA StatEffect ==
  ASSUME JInv, NEW k \in Key, NEW f \in File, Stat(k, f)
  PROVE  /\ UNCHANGED <<folder, rows, checkpoint, mark, derived, owner, stale, stores, misread>>
         /\ f \in sync.todo[k] /\ \A g \in sync.todo[k] : f <= g
         /\ \/ /\ sync' = Next1(k, f)
               /\ Size(f) = IF Replaced(k, f) THEN 0 ELSE checkpoint[k][f]
            \/ /\ sync'.at = "open" /\ sync'.todo = sync.todo
               /\ sync'.key = k /\ sync'.file = f
               /\ sync'.replaced = Replaced(k, f)
<1>1. CASE sync' = Next1(k, f) /\ Size(f) = IF Replaced(k, f) THEN 0 ELSE checkpoint[k][f]
  BY <1>1 DEF Stat, registry, db
<1>2. CASE ~(sync' = Next1(k, f) /\ Size(f) = IF Replaced(k, f) THEN 0 ELSE checkpoint[k][f])
  <2>1. PICK start :
          sync' = [sync EXCEPT !.at = "open", !.key = k, !.file = f,
                               !.start = start, !.replaced = Replaced(k, f)]
    BY <1>2 DEF Stat
  <2>2. sync \in SyncState
    BY DEF JInv, Opened
  <2>3. PICK replaced : replaced = Replaced(k, f)
    OBVIOUS
  <2>4. sync' = [sync EXCEPT !.at = "open", !.key = k, !.file = f,
                               !.start = start, !.replaced = replaced]
    BY <2>1, <2>3
  <2>5. /\ sync'.at = "open" /\ sync'.todo = sync.todo
        /\ sync'.key = k /\ sync'.file = f /\ sync'.replaced = replaced
    BY <2>2, <2>4 DEF SyncState
  <2> QED BY <2>3, <2>5 DEF Stat, registry, db
<1> QED BY <1>1, <1>2

\* What a transaction adds to a store.
LEMMA ReadEffect ==
  ASSUME JInv, Read
  PROVE  LET k == sync.key
             f == sync.file
         IN  /\ UNCHANGED <<folder, mark, derived, owner, stale, stores, misread>> /\ sync' = Next1(k, f)
             /\ k \in Key /\ f \in File /\ sync.start \in Nat
             /\ ~sync.replaced => sync.start = checkpoint[k][f]
             /\ \A x \in Key \ {k} : rows'[x] = rows[x] /\ checkpoint'[x] = checkpoint[x]
             /\ \A g \in File \ {f} : checkpoint'[k][g] = checkpoint[k][g]
             /\ checkpoint'[k][f] = IF Fresh = {} THEN checkpoint[k][f] ELSE 2 * Len(Content[f])
             /\ \A i : i \in Fresh <=> i \in 1 .. Len(Content[f]) /\ 2 * (i - 1) >= sync.start
             /\ \A r \in rows'[k] : \/ r \in rows[k] 
                                    \/ \E s \in rows[k] : sync.replaced /\ r.file = f /\ s.line = r.line
                                    \/ \E i \in Accepted(k) :
                                         r = [file |-> f, gen |-> 0, at |-> i, line |-> Content[f][i]]
             /\ ~sync.replaced =>
                  \A i \in Accepted(k) : \E r \in rows'[k] : r.file = f /\ r.gen = 0 /\ r.at = i /\
                       (r \in rows[k] \/ r.line = Content[f][i])
<1> DEFINE k == sync.key
           f == sync.file
           base == IF sync.replaced THEN Archived(rows[k], f) ELSE rows[k]
<1>1. /\ k \in Key /\ f \in File /\ sync.start \in Nat
      /\ ~sync.replaced => sync.start = checkpoint[k][f]
      /\ rows \in [Key -> SUBSET Entry] /\ checkpoint \in [Key -> [File -> Nat]]
      /\ Content[f] = file[f].lines
  BY Sizes DEF Read, JInv, Opened, Reading, SyncState, Stored
<1>2. UNCHANGED <<folder, mark, derived, owner, stale, stores, misread>> /\ sync' = Next1(k, f)
  BY DEF Read, registry
<1>3. DOMAIN file[f].lines = 1 .. Len(Content[f])
  BY <1>1, Sizes, LenProperties
<1>4. \A i : i \in Fresh <=> i \in 1 .. Len(Content[f]) /\ 2 * (i - 1) >= sync.start
  BY <1>3 DEF Fresh
<1>5. CASE Fresh = {}
  <2>1. UNCHANGED <<rows, checkpoint>> /\ Accepted(k) = {}
    BY <1>5 DEF Read, Accepted
  <2> QED BY <1>1, <1>2, <1>4, <1>5, <2>1
<1>6. CASE Fresh # {}
  <2> DEFINE new == Inserted(base, f, Accepted(k))
             end == [checkpoint[k] EXCEPT ![f] = 2 * Len(Content[f])]
  <2>1. /\ rows' = [rows EXCEPT ![k] = new]
        /\ checkpoint' = [checkpoint EXCEPT ![k] = end]
    BY <1>1, <1>6 DEF Read, Consumed
  <2>2. /\ \A r \in new : \/ r \in base
                          \/ \E i \in Accepted(k) :
                               r = [file |-> f, gen |-> 0, at |-> i, line |-> Content[f][i]]
        /\ base \subseteq new
    BY <1>1, Inserts DEF Adds
  <2>3. \A r \in base : \/ r \in rows[k]
                        \/ \E s \in rows[k] : sync.replaced /\ r.file = f /\ s.line = r.line
    <3>1. ASSUME sync.replaced, NEW r \in Archived(rows[k], f)
          PROVE  r \in rows[k] \/ \E s \in rows[k] : r.file = f /\ s.line = r.line
      <4>1. PICK s \in rows[k] :
              \E m : r = IF LiveRow(s, f) THEN [s EXCEPT !.gen = m] ELSE s
        BY <3>1 DEF Archived
      <4> PICK m : r = IF LiveRow(s, f) THEN [s EXCEPT !.gen = m] ELSE s
        BY <4>1
      <4>2. CASE LiveRow(s, f)
        <5>1. r = [s EXCEPT !.gen = m] /\ s \in Entry
          BY <4>1, <4>2, <1>1
        <5>2. r.file = s.file /\ r.line = s.line
          BY <5>1 DEF Entry
        <5> QED BY <4>2, <5>2 DEF LiveRow
      <4> QED BY <4>1, <4>2
    <3> QED BY <3>1
  <2>4. ASSUME ~sync.replaced, NEW i \in Accepted(k)
        PROVE  \E r \in new : r.file = f /\ r.gen = 0 /\ r.at = i /\
                 (r \in rows[k] \/ r.line = Content[f][i])
    <3>1. CASE \E r \in rows[k] : LiveRow(r, f) /\ r.at = i
      BY <2>2, <2>4, <3>1 DEF LiveRow
    <3>2. CASE ~\E r \in rows[k] : LiveRow(r, f) /\ r.at = i
      <4>1. [file |-> f, gen |-> 0, at |-> i, line |-> file[f].lines[i]] \in new
        BY <2>4, <3>2 DEF Inserted
      <4> QED BY <4>1, <1>1
    <3> QED BY <3>1, <3>2
  <2> HIDE DEF new, base, end
  <2>5. rows'[k] = new /\ checkpoint'[k] = end
        /\ \A x \in Key \ {k} : rows'[x] = rows[x] /\ checkpoint'[x] = checkpoint[x]
    BY <2>1, <1>1
  <2>6. end[f] = 2 * Len(Content[f]) /\ \A g \in File \ {f} : end[g] = checkpoint[k][g]
    BY <1>1 DEF end
  <2>7. \A r \in new : \/ r \in rows[k] 
                       \/ \E s \in rows[k] : sync.replaced /\ r.file = f /\ s.line = r.line
                       \/ \E i \in Accepted(k) :
                            r = [file |-> f, gen |-> 0, at |-> i, line |-> Content[f][i]]
    BY <2>2, <2>3
  <2> QED BY <1>1, <1>2, <1>4, <1>6, <2>4, <2>5, <2>6, <2>7
<1> QED BY <1>5, <1>6

LEMMA FaithfulSync ==
  ASSUME JInv, JInv', Faithful, UNCHANGED <<folder, rows, checkpoint>>,
         sync'.at = "open" /\ ~file[sync'.file].reused => ~sync'.replaced
  PROVE  Faithful'
<1>1. Content' = Content /\ written' = written /\ file' = file
  BY Untouched DEF folder
<1>2. ASSUME NEW k \in Key, NEW f \in File, ~file'[f].reused
      PROVE  FaithfulTo(k, f)'
  <2>1. FaithfulTo(k, f)
    BY <1>1, <1>2 DEF Faithful
  <2> QED BY <2>1, FaithfulCarried DEF Lines
<1>3. /\ \A f \in File : ~file'[f].there => ~file'[f].reused
      /\ sync'.at = "open" /\ ~file'[sync'.file].reused => ~sync'.replaced
  BY <1>1 DEF Faithful
<1> QED BY <1>2, <1>3 DEF Faithful

LEMMA FaithfulRead ==
  ASSUME JInv, JInv', Faithful, Read
  PROVE  Faithful'
<1>0. PICK k \in Key, f \in File : k = sync.key /\ f = sync.file
  BY ReadEffect
<1>1. UNCHANGED folder /\ Content' = Content /\ file' = file /\ written' = written
  BY <1>0, ReadEffect, Untouched DEF folder
<1>2. sync'.at = "ingest"
  <2>1. k \in Key /\ sync' = Next1(k, f) /\ sync \in SyncState
    BY <1>0, ReadEffect DEF JInv, Opened
  <2> QED BY <2>1, OneLess
<1>3. /\ k \in Key /\ f \in File /\ sync.at = "open"
      /\ \A x \in Key : Lines(x) \subseteq Lines(x)'
      /\ FolderOk(Content, Len(written)) /\ Len(Content[f]) \in Nat
      /\ checkpoint \in [Key -> [File -> Nat]]
  BY <1>0, ReadEffect, ReadOk, Sizes DEF Read, JInv, Stored
<1>4. ASSUME NEW x \in Key, NEW g \in File, ~file'[g].reused, x # k \/ g # f
      PROVE  FaithfulTo(x, g)'
  <2>1. FaithfulTo(x, g)
    BY <1>1, <1>4 DEF Faithful
  <2>2. checkpoint'[x][g] = checkpoint[x][g]
    BY <1>4, <1>0, ReadEffect
  <2>3. ASSUME NEW r \in rows'[x], r.file = g PROVE r \in rows[x]
    <3>1. CASE x # k
      BY <3>1, <2>3, <1>0, ReadEffect
    <3>2. CASE x = k
      <4>1. r.file # f
        BY <1>4, <2>3, <3>2
      <4>2. \A i : [file |-> f, gen |-> 0, at |-> i, line |-> Content[f][i]].file = f
        OBVIOUS
      <4> QED BY <3>2, <4>1, <4>2, <2>3, <1>0, ReadEffect
    <3> QED BY <3>1, <3>2
  <2> QED BY <1>1, <1>3, <2>1, <2>2, <2>3, FaithfulCarried
<1>5. ASSUME ~file'[f].reused PROVE FaithfulTo(k, f)'
  <2>1. FaithfulTo(k, f) /\ ~sync.replaced
    BY <1>0, <1>1, <1>3, <1>5 DEF Faithful
  <2>2. sync.start = checkpoint[k][f] /\ sync.start \in Nat /\ sync.start <= 2 * Len(Content[f])
    BY <2>1, <1>0, ReadEffect DEF FaithfulTo
  <2>3. ASSUME NEW r \in rows'[k], r.file = f PROVE Current(r, Content)
    <3>1. CASE r \in rows[k]
      BY <3>1, <2>1, <2>3 DEF FaithfulTo
    <3>2. CASE r \notin rows[k]
      <4>1. PICK i \in Accepted(k) :
                   r = [file |-> f, gen |-> 0, at |-> i, line |-> Content[f][i]]
        BY <3>2, <2>1, <2>3, <1>0, ReadEffect
      <4>2. i \in 1 .. Len(Content[f])
        BY <1>0, ReadEffect DEF Accepted
      <4> QED BY <4>1, <4>2 DEF Current
    <3> QED BY <3>1, <3>2
  <2>4. ASSUME NEW i \in Accepted(k) PROVE Content[f][i] \in Lines(k)'
    <3>1. PICK r \in rows'[k] : r.file = f /\ r.at = i /\ (r \in rows[k] \/ r.line = Content[f][i])
      BY <2>1, <2>4, <1>0, ReadEffect
    <3>2. Current(r, Content)
      BY <3>1, <2>3
    <3> QED BY <3>1, <3>2 DEF Current, Lines
  <2>5. ASSUME NEW i \in 1 .. Len(Content[f]), i \in Fresh \/ Passed(k, f, i)
        PROVE  Content[f][i] \in Lines(k)' \/ Strange(k, f, i)
    <3>1. CASE Passed(k, f, i)
      BY <3>1, <2>1, <1>3 DEF FaithfulTo
    <3>2. CASE i \in Fresh /\ i \notin Accepted(k)
      <4>1. PICK j \in Fresh : j <= i /\ Refused(k, j)
        BY <3>2 DEF Accepted
      <4>2. j \in 1 .. i
        BY <4>1, <1>0, ReadEffect
      <4>3. Content[f] = file[f].lines
        BY <1>3 DEF Content
      <4> QED BY <1>0, <4>1, <4>2, <4>3 DEF Refused, Strange
    <3> QED BY <2>4, <2>5, <3>1, <3>2
  <2>6. \A i \in 1 .. Len(Content[f]) : i \in Fresh \/ Passed(k, f, i)
    BY <2>2, <1>0, ReadEffect DEF Passed
  <2>7. checkpoint'[k][f] <= 2 * Len(Content[f])
    <3>1. checkpoint'[k][f] = checkpoint[k][f] \/ checkpoint'[k][f] = 2 * Len(Content[f])
      BY <1>0, ReadEffect
    <3> QED BY <3>1, <2>2, <1>3
  <2>8. \A i \in 1 .. Len(Content[f]) : Strange(k, f, i) => Strange(k, f, i)'
    BY <1>1 DEF Strange, IsLogin
  <2> QED BY <2>3, <2>5, <2>6, <2>7, <2>8, <1>1 DEF FaithfulTo
<1>6. \A f1 \in File : ~file'[f1].there => ~file'[f1].reused
  BY <1>1 DEF Faithful
<1> QED BY <1>0, <1>2, <1>4, <1>5, <1>6 DEF Faithful

LEMMA FaithfulRestart ==
  ASSUME JInv, JInv', Faithful, Restart
  PROVE  Faithful'
<1>1. UNCHANGED folder /\ sync' = NoSync /\ file' = file
  BY DEF Restart, folder
<1>2. /\ rows' = Handed(rows, {}) /\ checkpoint' = Handed(checkpoint, [f \in File |-> 0])
  BY DEF Restart
<1>3. ASSUME NEW k \in Key, NEW f \in File, ~file'[f].reused
      PROVE  FaithfulTo(k, f)'
  <2>1. FaithfulTo(k, f) /\ FaithfulTo(Placeholder, f)
    BY <1>1, <1>3 DEF Faithful, Key
  <2>2. CASE rows'[k] = {} /\ checkpoint'[k][f] = 0
    BY <2>2, FaithfulBare
  <2>3. ASSUME NEW j \in {k, Placeholder}, rows'[k] = rows[j], checkpoint'[k] = checkpoint[j]
        PROVE  FaithfulTo(k, f)'
    <3>1. Lines(j) \subseteq Lines(k)'
      BY <2>3 DEF Lines
    <3> QED BY <3>1, <2>1, <2>3, <1>1, FaithfulCarried
  <2>4. \/ rows'[k] = {} /\ checkpoint'[k][f] = 0
        \/ rows'[k] = rows[k] /\ checkpoint'[k] = checkpoint[k]
        \/ rows'[k] = rows[Placeholder] /\ checkpoint'[k] = checkpoint[Placeholder]
    <3>1. CASE Legacy /\ Met = {k}
      BY <3>1, <1>2 DEF Handed
    <3>2. CASE Legacy /\ Met # {} /\ Met # {k}
      BY <3>2, <1>2 DEF Handed
    <3>3. CASE ~(Legacy /\ Met # {})
      BY <3>3, <1>2 DEF Handed
    <3> QED BY <3>1, <3>2, <3>3
  <2> QED BY <2>2, <2>3, <2>4
<1>4. \A f \in File : ~file'[f].there => ~file'[f].reused
  BY <1>1 DEF Faithful
<1>5. sync'.at # "open"
  BY <1>1 DEF NoSync
<1> QED BY <1>3, <1>4, <1>5 DEF Faithful

LEMMA FaithfulStep ==
  ASSUME JInv, JInv', Faithful, [Next]_vars
  PROVE  Faithful'
<1>1. CASE GameStep
  BY <1>1, FaithfulGame
<1>2. CASE SyncStart
  <2>1. sync'.at = "ingest"
    BY <1>2 DEF SyncStart, SyncStartWithout, NoSync
  <2> QED BY <1>2, <2>1, FaithfulSync DEF SyncStart, SyncStartWithout, db
<1>3. CASE \E k \in Key, f \in File : Stat(k, f)
  <2>1. PICK k \in Key, f \in File : Stat(k, f)
    BY <1>3
  <2>2. sync'.at = "open" => sync'.file = f /\ sync'.replaced = Replaced(k, f)
    <3>1. sync' = Next1(k, f) => sync'.at = "ingest"
      BY OneLess DEF JInv, Opened
    <3> QED BY <2>1, <3>1, StatEffect
  <2>3. ~file[f].reused => ~Replaced(k, f)
    <3>1. checkpoint[k][f] \in Nat /\ Len(Content[f]) \in Nat
      BY Sizes DEF JInv, Stored
    <3> QED BY <3>1, SizeBounds DEF Faithful, FaithfulTo, Replaced
  <2>4. UNCHANGED <<folder, rows, checkpoint>>
    BY <2>1, StatEffect
  <2> QED BY <2>2, <2>3, <2>4, FaithfulSync
<1>4. CASE Read
  BY <1>4, FaithfulRead
<1>5. CASE Derive \/ SyncFails
  <2>1. sync'.at # "open" /\ UNCHANGED <<folder, rows, checkpoint>>
    BY <1>5 DEF Derive, SyncFails, NoSync, db
  <2> QED BY <2>1, FaithfulSync
<1>6. CASE Restart
  BY <1>6, FaithfulRestart
<1>7. CASE UNCHANGED vars
  <2>1. UNCHANGED <<folder, rows, checkpoint, sync, file>>
    BY <1>7 DEF vars, folder
  <2> QED BY <2>1, FaithfulSync DEF Faithful
<1> QED BY <1>1, <1>2, <1>3, <1>4, <1>5, <1>6, <1>7 DEF Next, SyncStep

LEMMA FaithfulStart == Init => Faithful
<1> SUFFICES ASSUME Init PROVE Faithful
  OBVIOUS
<1>1. \A f \in File : ~file[f].reused /\ Content[f] = <<>>
  BY DEF Init, Absent, Content
<1>2. \A k \in Key, f \in File : rows[k] = {} /\ checkpoint[k][f] = 0
  BY DEF Init
<1>3. Len(<<>>) = 0 /\ sync.at # "open"
  BY DEF Init, NoSync
<1> QED BY <1>1, <1>2, <1>3 DEF Faithful, FaithfulTo

LEMMA AlwaysFaithful == Spec => []Faithful
<1>1. JInv /\ JInv' /\ Faithful /\ [Next]_vars => Faithful'
  BY FaithfulStep
<1> QED BY <1>1, FaithfulStart, Always, PTL DEF Spec

\* The owner's checkpoint never passes a line of the file without recording it, as
\* long as the file kept its commander and its name was not reused, whatever the
\* other files and commanders do, through restarts and failed syncs (ingest_file_for
\* in ed-store ingest.rs, which moves the checkpoint with the rows).
THEOREM NoLineIsSkipped == Spec => []NothingSkipped
<1>1. ASSUME JInv, Faithful PROVE NothingSkipped
  <2> SUFFICES ASSUME NEW k \in Fid, NEW f \in File, ~file[f].reused,
                      \A i \in DOMAIN file[f].lines : written[file[f].lines[i]].who = k,
                      NEW i \in DOMAIN file[f].lines, 2 * i <= checkpoint[k][f]
               PROVE  file[f].lines[i] \in Lines(k)
    BY DEF NothingSkipped
  <2>1. /\ Content[f] = file[f].lines /\ Len(Content[f]) \in Nat
        /\ DOMAIN file[f].lines = 1 .. Len(Content[f])
    BY <1>1, Sizes, LenProperties
  <2>2. k \in Key /\ checkpoint[k][f] \in Nat
    BY <1>1 DEF JInv, Stored, Key
  <2>3. Passed(k, f, i)
    BY <2>1, <2>2 DEF Passed
  <2>4. ~Strange(k, f, i)
    BY <2>1 DEF Strange
  <2> QED BY <1>1, <2>1, <2>2, <2>3, <2>4 DEF Faithful, FaithfulTo
<1> QED BY <1>1, Always, AlwaysFaithful, PTL
-----------------------------------------------------------------------------
(* The files of a folder where each launch opens a file of its own.         *)

\* No file passes from one commander to another, no name is used again.
OwnFiles == ~ChangesHands /\ MaxReuses = 0

IsPlay(t) == written[t].kind = "play"

\* What a file holds: lines of one commander, play after a login, and nothing
\* after the end of the game.
Session(f) ==
  /\ ~file[f].reused
  /\ file[f].there => file[f].last \in Fid /\ \A g \in 1 .. f - 1 : file[g].there
  /\ \A i \in 1 .. Len(Content[f]) :
       /\ written[Content[f][i]].who = file[f].last
       /\ IsPlay(Content[f][i]) => \E j \in 1 .. i : IsLogin(Content[f][j])
       /\ written[Content[f][i]].kind = "shutdown" =>
            i = Len(Content[f]) /\ \A c \in Fid : game[c] # f

\* A commander writes to the newest of his files only.
Newest(c) ==
  game[c] # NoFile =>
    /\ file[game[c]].last = c
    /\ \A g \in File : file[g].there /\ g > game[c] => file[g].last # c

InTurn(f, g) ==
  f < g /\ file[f].last = file[g].last =>
    \A i \in 1 .. Len(Content[f]), j \in 1 .. Len(Content[g]) : Content[f][i] < Content[g][j]

Located(t) == \E f \in File : \E i \in 1 .. Len(Content[f]) : Content[f][i] = t

Sessions ==
  /\ \A f \in File : Session(f)
  /\ \A c \in Fid : Newest(c)
  /\ \A f, g \in File : InTurn(f, g)
  /\ \A t \in 1 .. Len(written) : Located(t)

LEMMA FilesBelow ==
  /\ \A f \in File : f \in Nat /\ \A g \in 1 .. f - 1 : g \in File /\ g < f
  /\ NoFile \notin File
<1>1. MaxFiles \in Nat
  BY JournalSyncAssumption
<1> QED BY <1>1 DEF File, NoFile

LEMMA SessionsStart == Init => Sessions
<1> SUFFICES ASSUME Init PROVE Sessions
  OBVIOUS
<1>1. \A f \in File : ~file[f].reused /\ ~file[f].there /\ Content[f] = <<>>
  BY DEF Init, Absent, Content
<1>2. Len(<<>>) = 0 /\ Len(written) = 0
  BY DEF Init
<1>3. \A c \in Fid : game[c] = NoFile
  BY DEF Init
<1> QED BY <1>1, <1>2, <1>3 DEF Sessions, Session, Newest, InTurn

LEMMA SessionsKept ==
  ASSUME JInv, Sessions, \/ Quiet \/ UNCHANGED folder
  PROVE  Sessions'
<1>1. /\ UNCHANGED <<written, game>> /\ Content' = Content
      /\ \A f \in File : /\ file'[f].last = file[f].last /\ file'[f].there = file[f].there
                         /\ file'[f].reused = file[f].reused
  BY DEF Quiet, folder, Content
<1>2. \A f \in File : Session(f)'
  <2> SUFFICES ASSUME NEW f \in File PROVE Session(f)'
    OBVIOUS
  <2>1. Session(f) /\ \A g \in 1 .. f - 1 : g \in File
    BY FilesBelow DEF Sessions
  <2> QED BY <2>1, <1>1 DEF Session, IsPlay, IsLogin
<1>3. \A c \in Fid : Newest(c)'
  <2> SUFFICES ASSUME NEW c \in Fid PROVE Newest(c)'
    OBVIOUS
  <2>1. game[c] # NoFile => game[c] \in File
    BY DEF JInv, Folder, FolderTypes
  <2> QED BY <2>1, <1>1 DEF Newest, Sessions
<1>4. \A f, g \in File : InTurn(f, g)'
  BY <1>1 DEF InTurn, Sessions
<1>5. \A t \in 1 .. Len(written') : Located(t)'
  BY <1>1 DEF Located, Sessions
<1> QED BY <1>2, <1>3, <1>4, <1>5 DEF Sessions

LEMMA SessionsOpen ==
  ASSUME JInv, Sessions, NEW c \in Fid, NEW f \in File, Opens(c, f)
  PROVE  Sessions'
<1>1. /\ FolderTypes /\ FolderOk(Content, Len(written))
      /\ \A g \in File : Content[g] = file[g].lines
      /\ game \in [Fid -> File \cup {NoFile}]
      /\ \A d \in Fid : game[d] # NoFile => game[d] \in File /\ file[game[d]].there
  BY Sizes DEF JInv, Folder, FolderTypes
<1>2. /\ UNCHANGED written /\ ~file[f].there
      /\ \A g \in 1 .. f - 1 : file[g].there
      /\ \A g \in File \ {f} : file'[g] = file[g] /\ Content'[g] = Content[g]
      /\ file'[f].there /\ ~file'[f].reused /\ file'[f].last = c
      /\ game'[c] = f /\ \A d \in Fid \ {c} : game'[d] = game[d]
  BY <1>1 DEF Opens, Alone, Content
<1>3. Content[f] = <<>> /\ Content'[f] = <<>> /\ Content' = Content /\ Len(<<>>) = 0
  <2>1. Content[f] = <<>> /\ Content'[f] = <<>>
    BY <1>1 DEF Opens, FolderTypes, Content
  <2> QED BY <1>2, <2>1 DEF Content
<1>4. \A g \in File : \A h \in 1 .. g - 1 : h \in File /\ (file[h].there => file'[h].there)
  BY <1>2, FilesBelow
<1>5. ASSUME NEW g \in File PROVE Session(g)'
  <2>1. CASE g = f
    <3>1. \A h \in 1 .. f - 1 : file'[h].there
      BY <1>2, <1>4
    <3> QED BY <2>1, <3>1, <1>2, <1>3 DEF Session
  <2>2. CASE g # f
    <3>1. Session(g) /\ file'[g] = file[g]
      BY <2>2, <1>2 DEF Sessions
    <3>2. \A d \in Fid : game'[d] = g => game[d] = g
      BY <2>2, <1>2
    <3> QED BY <2>2, <3>1, <3>2, <1>2, <1>3, <1>4 DEF Session, IsPlay, IsLogin
  <2> QED BY <2>1, <2>2
<1>6. ASSUME NEW d \in Fid PROVE Newest(d)'
  <2>1. CASE d = c
    <3>1. ASSUME NEW g \in File, file'[g].there, g > f PROVE FALSE
      <4>1. file[g].there /\ f \in 1 .. g - 1
        BY <3>1, <1>2, FilesBelow DEF File
      <4> QED BY <4>1, <1>2 DEF Sessions, Session
    <3> QED BY <2>1, <3>1, <1>2 DEF Newest
  <2>2. CASE d # c
    <3>1. Newest(d) /\ game'[d] = game[d]
      BY <2>2, <1>2 DEF Sessions
    <3>2. ASSUME game[d] # NoFile PROVE game[d] \in File \ {f}
      BY <3>2, <1>1, <1>2
    <3> QED BY <2>2, <3>1, <3>2, <1>2 DEF Newest
  <2> QED BY <2>1, <2>2
<1>7. ASSUME NEW g \in File, NEW h \in File PROVE InTurn(g, h)'
  <2>1. InTurn(g, h)
    BY DEF Sessions
  <2>2. CASE g = f \/ h = f
    BY <2>2, <1>3 DEF InTurn
  <2>3. CASE g # f /\ h # f
    BY <2>1, <2>3, <1>2 DEF InTurn
  <2> QED BY <2>2, <2>3
<1>8. \A t \in 1 .. Len(written') : Located(t)'
  BY <1>2, <1>3 DEF Located, Sessions
<1> QED BY <1>5, <1>6, <1>7, <1>8 DEF Sessions

LEMMA SessionsWrite ==
  ASSUME JInv, OwnFiles, Sessions, NEW c \in Fid, NEW f \in File, NEW kind \in Kind,
         AddsLine(c, f, kind)
  PROVE  Sessions'
<1> DEFINE n == Len(written)
           m == Len(Content[f])
<1>1. /\ FolderTypes /\ FolderOk(Content, n) /\ n \in Nat
      /\ written \in Seq([who : Fid, kind : Kind])
      /\ \A g \in File : Content[g] = file[g].lines /\ Len(Content[g]) \in Nat
      /\ game \in [Fid -> File \cup {NoFile}] /\ NoFile \notin File
      /\ \A d \in Fid : game[d] # NoFile => game[d] \in File /\ file[game[d]].there
  BY Sizes DEF JInv, Folder, FolderTypes, NoFile, File
<1>2. /\ game[c] = f /\ file[f].last = c
      /\ kind = "play" => LoggedIn(f)
      /\ kind = "shutdown" => game' = [game EXCEPT ![c] = NoFile]
      /\ kind # "shutdown" => game' = game
      /\ file[f].there /\ file'[f].there /\ file'[f].reused = file[f].reused
      /\ file'[f].last = c /\ \A g \in File \ {f} : file'[g] = file[g]
    BY DEF AddsLine, OwnFiles, Sessions, Newest, NoFile, File, Alone
<1>12. Longer(Content, Content', f, n)
  BY DEF AddsLine
<1>3. /\ \A g \in File : g # f => Content'[g] = Content[g]
      /\ Len(Content'[f]) = m + 1 /\ Content'[f][m + 1] = n + 1
      /\ \A i \in 1 .. m : Content'[f][i] = Content[f][i]
  BY <1>1, <1>12, Grown
<1>4. /\ \A t \in 1 .. n : written'[t] = written[t]
      /\ Len(written') = n + 1 /\ written'[n + 1].who = c /\ written'[n + 1].kind = kind
  <2>1. PICK line : line = [who |-> c, kind |-> kind]
    OBVIOUS
  <2>2. line \in [who : Fid, kind : Kind] /\ line.who = c /\ line.kind = kind
    BY <2>1
  <2>3. written' = Append(written, line)
    BY <2>1 DEF AddsLine
  <2> QED BY <2>2, <2>3, <1>1, AppendProperties
<1>5. /\ \A g \in File : \A i \in 1 .. Len(Content[g]) : Content[g][i] \in 1 .. n
      /\ \A g \in File : \A h \in 1 .. g - 1 : h \in File
  BY <1>1, FilesBelow DEF FolderOk
<1>6. \A d \in Fid : \A g \in File : game'[d] = g => game[d] = g
  BY <1>1, <1>2
<1>7. \A g \in File : /\ file'[g].last = file[g].last /\ file'[g].reused = file[g].reused
                      /\ file'[g].there => file[g].there
                      /\ file[g].there => file'[g].there
  BY <1>2
<1>8. ASSUME NEW g \in File PROVE Session(g)'
  <2>1. Session(g)
    BY DEF Sessions
  <2>2. CASE g # f
    <3>1. Content'[g] = Content[g]
      BY <2>2, <1>3
    <3>2. ASSUME NEW i \in 1 .. Len(Content[g])
          PROVE  /\ written'[Content[g][i]].who = file'[g].last
                 /\ written'[Content[g][i]].kind = "play" =>
                      \E j \in 1 .. i : written'[Content[g][j]].kind = "login"
                 /\ written'[Content[g][i]].kind = "shutdown" =>
                      i = Len(Content[g]) /\ \A d \in Fid : game'[d] # g
      <4>1. \A j \in 1 .. i : j \in 1 .. Len(Content[g])
        BY <1>1
      <4>2. \A j \in 1 .. i : written'[Content[g][j]] = written[Content[g][j]]
        BY <4>1, <1>4, <1>5
      <4>3. written'[Content[g][i]] = written[Content[g][i]]
        BY <1>4, <1>5
      <4> QED BY <4>2, <4>3, <2>1, <1>6, <1>7 DEF Session, IsPlay, IsLogin
    <3>3. /\ ~file'[g].reused 
          /\ file'[g].there => file'[g].last \in Fid /\ \A h \in 1 .. g - 1 : file'[h].there
      BY <2>1, <1>5, <1>7 DEF Session
    <3> QED BY <3>1, <3>2, <3>3 DEF Session, IsPlay, IsLogin
  <2>3. CASE g = f
    <3>1. ASSUME NEW i \in 1 .. m
          PROVE  /\ written'[Content'[f][i]].who = file'[f].last
                 /\ written'[Content'[f][i]].kind = "play" =>
                      \E j \in 1 .. i : written'[Content'[f][j]].kind = "login"
                 /\ written'[Content'[f][i]].kind # "shutdown"
      <4>1. /\ Content'[f][i] = Content[f][i] /\ Content[f][i] \in 1 .. n
            /\ written'[Content'[f][i]] = written[Content[f][i]]
            /\ \A j \in 1 .. i : Content'[f][j] = Content[f][j] /\ Content[f][j] \in 1 .. n
        BY <1>1, <1>3, <1>4, <1>5
      <4>2. written[Content[f][i]].kind # "shutdown"
        BY <1>2, <2>1, <2>3 DEF Session
      <4>3. \A j \in 1 .. i : written'[Content'[f][j]] = written[Content[f][j]]
        BY <4>1, <1>4
      <4>4. /\ written[Content[f][i]].who = file[f].last
            /\ written[Content[f][i]].kind = "play" =>
                 \E j \in 1 .. i : written[Content[f][j]].kind = "login"
        BY <2>1, <2>3 DEF Session, IsPlay, IsLogin
      <4> QED BY <4>1, <4>2, <4>3, <4>4, <1>2
    <3>2. /\ written'[Content'[f][m + 1]].who = file'[f].last
          /\ written'[Content'[f][m + 1]].kind = kind
      BY <1>2, <1>3, <1>4
    <3>3. ASSUME kind = "play"
          PROVE  \E j \in 1 .. m + 1 : written'[Content'[f][j]].kind = "login"
      <4>1. PICK j \in DOMAIN file[f].lines : IsLogin(file[f].lines[j])
        BY <1>2, <3>3 DEF LoggedIn
      <4>2. j \in 1 .. m /\ Content[f][j] = file[f].lines[j]
        BY <1>1, <4>1, Sizes, LenProperties
      <4>3. Content'[f][j] = Content[f][j] /\ written'[Content[f][j]].kind = "login"
        BY <4>1, <4>2, <1>3, <1>4, <1>5 DEF IsLogin
      <4> QED BY <4>2, <4>3, <1>1
    <3>4. ASSUME kind = "shutdown", NEW d \in Fid PROVE game'[d] # f
      <4>1. game[d] = f => d = c
        BY <1>1, <1>2 DEF Sessions, Newest
      <4>2. game'[c] = NoFile
        BY <3>4, <1>1, <1>2
      <4> QED BY <4>1, <4>2, <1>1, <1>6
    <3>5. \A i \in 1 .. Len(Content'[f]) : i \in 1 .. m \/ i = m + 1
      BY <1>1, <1>3
    <3>6. \A i \in 1 .. Len(Content'[f]) :
            /\ written'[Content'[f][i]].who = file'[f].last
            /\ written'[Content'[f][i]].kind = "play" =>
                      \E j \in 1 .. i : written'[Content'[f][j]].kind = "login"
            /\ written'[Content'[f][i]].kind = "shutdown" =>
                 i = Len(Content'[f]) /\ \A d \in Fid : game'[d] # f
      BY <3>1, <3>2, <3>3, <3>4, <3>5, <1>3
    <3>7. /\ ~file'[f].reused 
          /\ file'[f].there => file'[f].last \in Fid /\ \A h \in 1 .. f - 1 : file'[h].there
      BY <2>1, <2>3, <1>5, <1>7 DEF Session
    <3> QED BY <2>3, <3>6, <3>7 DEF Session, IsPlay, IsLogin
  <2> QED BY <2>2, <2>3
<1>9. ASSUME NEW d \in Fid PROVE Newest(d)'
  <2>1. Newest(d) /\ (game'[d] # NoFile => game'[d] = game[d] /\ game[d] \in File)
    BY <1>1, <1>2 DEF Sessions
  <2> QED BY <2>1, <1>7 DEF Newest
<1>10. ASSUME NEW g \in File, NEW h \in File PROVE InTurn(g, h)'
  <2> SUFFICES ASSUME g < h, file[g].last = file[h].last,
                      NEW i \in 1 .. Len(Content'[g]), NEW j \in 1 .. Len(Content'[h])
               PROVE  Content'[g][i] < Content'[h][j]
    BY <1>7 DEF InTurn
  <2>1. g \in Nat /\ h \in Nat /\ g # h
    BY DEF File
  <2>2. \A a \in 1 .. Len(Content[g]), b \in 1 .. Len(Content[h]) : Content[g][a] < Content[h][b]
    BY DEF Sessions, InTurn
  <2>3. CASE g # f /\ h # f
    BY <2>2, <2>3, <1>3
  <2>4. CASE g = f
    <3>1. Content'[h] = Content[h] /\ Len(Content[h]) # 0
      BY <2>1, <2>4, <1>1, <1>3
    <3>2. file[h].there
      BY <3>1, <1>1 DEF FolderTypes
    <3>3. Newest(c) /\ game[c] # NoFile
      BY <1>1, <1>2 DEF Sessions
    <3> QED BY <3>2, <3>3, <2>1, <2>4, <1>2 DEF Newest
  <2>5. CASE h = f
    <3>1. Content'[g] = Content[g] /\ Content[g][i] \in 1 .. n
      BY <2>1, <2>5, <1>3, <1>5
    <3>2. CASE j = m + 1
      BY <3>1, <3>2, <2>5, <1>1, <1>3
    <3>3. CASE j # m + 1
      <4>1. j \in 1 .. m
        BY <3>3, <2>5, <1>1, <1>3
      <4> QED BY <4>1, <3>1, <2>2, <2>5, <1>3
    <3> QED BY <3>2, <3>3
  <2> QED BY <2>3, <2>4, <2>5
<1>11. ASSUME NEW t \in 1 .. Len(written') PROVE Located(t)'
  <2>1. CASE t = n + 1
    <3>1. m + 1 \in 1 .. Len(Content'[f]) /\ Content'[f][m + 1] = t
      BY <2>1, <1>1, <1>3
    <3> QED BY <3>1 DEF Located
  <2>2. CASE t # n + 1
    <3>1. t \in 1 .. n
      BY <2>2, <1>1, <1>4
    <3>2. PICK g \in File : \E i \in 1 .. Len(Content[g]) : Content[g][i] = t
      BY <3>1 DEF Sessions, Located
    <3> PICK i \in 1 .. Len(Content[g]) : Content[g][i] = t
      BY <3>2
    <3>3. i \in 1 .. Len(Content'[g]) /\ Content'[g][i] = t
      BY <3>2, <1>1, <1>3
    <3> QED BY <3>3 DEF Located
  <2> QED BY <2>1, <2>2
<1> QED BY <1>8, <1>9, <1>10, <1>11 DEF Sessions

LEMMA SessionsStep ==
  ASSUME JInv, OwnFiles, Sessions, [Next]_vars
  PROVE  Sessions'
<1>1. CASE GameStep
  <2>1. ASSUME NEW c \in Fid, NEW f \in File, Empties(c, f) PROVE FALSE
    <3>1. reuses < MaxReuses /\ reuses \in Nat /\ MaxReuses = 0
      BY <2>1, Sizes DEF Empties, OwnFiles
    <3> QED BY <3>1
  <2> QED BY <1>1, <2>1, GameEffects, SessionsKept, SessionsOpen, SessionsWrite
<1>2. CASE ~GameStep
  <2>1. UNCHANGED folder
    <3>1. Read => UNCHANGED folder
      BY DEF Read
    <3>2. SyncStart \/ (\E k \in Key, f \in File : Stat(k, f)) \/ Derive => UNCHANGED folder
      BY DEF SyncStart, SyncStartWithout, Stat, Derive
    <3>3. SyncFails \/ Restart => UNCHANGED folder
      BY DEF SyncFails, Restart
    <3>4. UNCHANGED vars => UNCHANGED folder
      BY DEF vars, folder
    <3> QED BY <1>2, <3>1, <3>2, <3>3, <3>4 DEF Next, SyncStep
  <2> QED BY <2>1, SessionsKept
<1> QED BY <1>1, <1>2

\* Only the newest file of a commander grows, and no file changes its commander.
LEMMA OwnGame ==
  ASSUME JInv, OwnFiles, Sessions, GameStep
  PROVE  /\ \A t \in 1 .. Len(written) : written'[t] = written[t]
         /\ Len(written) \in Nat /\ Len(written) <= Len(written')
         /\ UNCHANGED <<rows, checkpoint, mark, derived, owner, stores, sync, misread>>
         /\ \A f \in File :
              /\ Extends(f)
              /\ file[f].there => file'[f].there /\ file'[f].last = file[f].last
              /\ file[f].there /\ Content'[f] # Content[f] =>
                   \E c \in Fid : game[c] = f /\ file[f].last = c
<1>1. /\ \A t \in 1 .. Len(written) : written'[t] = written[t]
      /\ Len(written) \in Nat /\ Len(written) <= Len(written')
      /\ UNCHANGED <<rows, checkpoint, mark, derived, owner, stores, sync, misread>>
      /\ \A f \in File : file[f].there => file'[f].there
      /\ FolderOk(Content, Len(written))
  BY Lasting, GameOk, Sizes
<1>2. \A f \in File : Extends(f)
  <2>1. Sessions'
    BY SessionsStep DEF Next
  <2>2. \A f \in File : ~file'[f].reused
    BY <2>1 DEF Sessions, Session
  <2> QED BY <2>2, Lasting
<1>3. CASE Quiet
  <2>1. \A f \in File : Content'[f] = Content[f] /\ file'[f].last = file[f].last
    BY <1>3 DEF Quiet, Content
  <2> QED BY <1>1, <1>2, <2>1
<1>4. ASSUME NEW c \in Fid, NEW f \in File, Opens(c, f), NEW g \in File, file[g].there
      PROVE  Content'[g] = Content[g] /\ file'[g].last = file[g].last
  <2>1. g # f /\ file'[g] = file[g]
    BY <1>4 DEF Opens, Alone
  <2> QED BY <2>1 DEF Content
<1>5. ASSUME NEW c \in Fid, NEW f \in File, Empties(c, f) PROVE FALSE
  <2>1. reuses < MaxReuses /\ reuses \in Nat /\ MaxReuses = 0
    BY <1>5, Sizes DEF Empties, OwnFiles
  <2> QED BY <2>1
<1>6. ASSUME NEW c \in Fid, NEW f \in File, NEW kind \in Kind, AddsLine(c, f, kind),
             NEW g \in File, file[g].there
      PROVE  /\ file'[g].last = file[g].last
             /\ Content'[g] # Content[g] => \E d \in Fid : game[d] = g /\ file[g].last = d
  <2>1. game[c] = f /\ file'[f].last = c /\ \A h \in File \ {f} : file'[h] = file[h]
    BY <1>6 DEF AddsLine, OwnFiles, Alone
  <2>2. file[f].last = c
    BY <2>1, FilesBelow DEF Sessions, Newest
  <2>3. g # f => Content'[g] = Content[g]
    BY <2>1 DEF Content
  <2> QED BY <2>1, <2>2, <2>3
<1> QED BY <1>1, <1>2, <1>3, <1>4, <1>5, <1>6, GameEffects
-----------------------------------------------------------------------------
(* Whose file it is taken for.                                              *)

Named(f) == \E i \in 1 .. Len(Content[f]) : IsLogin(Content[f][i])

\* What an abandoned file looked like when it was given up: nobody's.
Nameless(key) ==
  \E ls \in Seq(Nat), h \in BOOLEAN :
    key = <<ls, h>> /\ \A i \in 1 .. Len(ls) : ls[i] \in 1 .. Len(written) /\ ~IsLogin(ls[i])

Ended(f) == Content[f] # <<>> /\ written[Content[f][Len(Content[f])]].kind = "shutdown"

\* What is known of a file, the owners of the files of bad never having been read.
Right(f, who, key, bad) ==
  /\ who \in Fid => Named(f) /\ file[f].last = who
  /\ who = "menu" /\ key = NoKey => ~Named(f) /\ Ended(f)
  /\ key # NoKey => Nameless(key) \/ f \in bad
Rightly == \A f \in File : Right(f, owner[f], stale[f], misread)

LEMMA NamedIs ==
  ASSUME JInv, NEW f \in File
  PROVE  /\ Content[f] = file[f].lines /\ Content[f] \in Seq(Nat) /\ Len(Content[f]) \in Nat
         /\ DOMAIN file[f].lines = 1 .. Len(Content[f])
         /\ \A i \in 1 .. Len(Content[f]) : Content[f][i] \in 1 .. Len(written)
         /\ \A i \in 1 .. Len(Content[f]) :
              written[Content[f][i]].who \in Fid /\ written[Content[f][i]].kind \in Kind
         /\ LoggedIn(f) <=> Named(f)
         /\ FileKey(f) = <<Content[f], file[f].half>> /\ file[f].half \in BOOLEAN
         /\ FileKey(f) # NoKey
         /\ ~file[f].there => Content[f] = <<>> /\ ~Named(f)
<1>1. /\ Content[f] = file[f].lines /\ Content[f] \in Seq(Nat) /\ Len(Content[f]) \in Nat
      /\ DOMAIN file[f].lines = 1 .. Len(Content[f])
      /\ \A i \in 1 .. Len(Content[f]) : Content[f][i] \in 1 .. Len(written)
  BY Sizes, LenProperties DEF FolderOk
<1>2. \A t \in 1 .. Len(written) : written[t].who \in Fid /\ written[t].kind \in Kind
  <2>1. \A t \in 1 .. Len(written) : written[t] \in [who : Fid, kind : Kind]
    BY ElementOfSeq DEF JInv, Folder, FolderTypes
  <2> QED BY <2>1
<1>3. LoggedIn(f) <=> Named(f)
  BY <1>1 DEF LoggedIn, Named
<1>4. FileKey(f) = <<Content[f], file[f].half>> /\ file[f].half \in BOOLEAN
  BY <1>1 DEF FileKey, JInv, Folder, FolderTypes, FileState
<1>5. FileKey(f) # NoKey
  <2>1. <<Content[f], file[f].half>> \in Seq(Nat) \X BOOLEAN
    BY <1>1, <1>4
  <2> QED BY <2>1, <1>4, JournalSyncAssumption
<1>6. ~file[f].there => Content[f] = <<>> /\ ~Named(f)
  <2>1. ~file[f].there => Content[f] = <<>>
    BY <1>1 DEF JInv, Folder, FolderTypes
  <2> QED BY <2>1, <1>1 DEF Named
<1> QED BY <1>1, <1>2, <1>3, <1>4, <1>5, <1>6

LEMMA ClassifiedIs ==
  ASSUME JInv, Sessions, Rightly, NEW f \in File, NEW bad
  PROVE  /\ Right(f, Classified(f, bad), GivenUp(f, bad), misread \cup bad)
         /\ Classified(f, bad) = "menu" => ~Named(f) \/ f \in misread \cup bad
         /\ Named(f) => file[f].there /\ file[f].last \in Fid
         /\ Named(f) /\ f \notin misread \cup bad => Classified(f, bad) = file[f].last
<1>1. /\ Content[f] = file[f].lines /\ Content[f] \in Seq(Nat) /\ Len(Content[f]) \in Nat
      /\ DOMAIN file[f].lines = 1 .. Len(Content[f])
      /\ \A i \in 1 .. Len(Content[f]) : Content[f][i] \in 1 .. Len(written)
      /\ \A i \in 1 .. Len(Content[f]) : written[Content[f][i]].who \in Fid
      /\ FileKey(f) = <<Content[f], file[f].half>> /\ FileKey(f) # NoKey /\ file[f].half \in BOOLEAN
      /\ ~file[f].there => ~Named(f)
  BY NamedIs
<1>2. "menu" \notin Fid /\ "pending" \notin Fid
  BY JournalSyncAssumption
<1>3. /\ Right(f, owner[f], stale[f], misread)
      /\ file[f].there => file[f].last \in Fid
      /\ \A i \in 1 .. Len(Content[f]) : written[Content[f][i]].who = file[f].last
  BY DEF Rightly, Sessions, Session
<1>4. /\ OwnerOf(f) \in Fid => Named(f) /\ file[f].last = OwnerOf(f)
      /\ OwnerOf(f) = "menu" => ~Named(f) /\ Ended(f)
      /\ OwnerOf(f) = "pending" => ~Named(f)
      /\ Named(f) => OwnerOf(f) = file[f].last
      /\ OwnerOf(f) \in Fid \cup {"menu", "pending"}
  <2> DEFINE named == {i \in DOMAIN file[f].lines : IsLogin(file[f].lines[i])}
  <2>1. named # {} <=> Named(f)
    BY <1>1 DEF Named
  <2>2. named # {} => Min(named) \in 1 .. Len(Content[f])
    <3>1. named \subseteq 1 .. Len(Content[f]) /\ named \subseteq Nat
      BY <1>1
    <3> HIDE DEF named
    <3> QED BY <3>1, MinOf
  <2>3. OwnerOf(f) = IF named # {} THEN written[file[f].lines[Min(named)]].who
                     ELSE IF file[f].lines # <<>>
                             /\ written[file[f].lines[Len(file[f].lines)]].kind = "shutdown"
                          THEN "menu"
                          ELSE "pending"
    BY DEF OwnerOf
  <2> HIDE DEF named
  <2>4. CASE named # {}
    <3>1. OwnerOf(f) = file[f].last /\ OwnerOf(f) \in Fid
      BY <2>2, <2>3, <2>4, <1>1, <1>3
    <3> QED BY <3>1, <2>1, <2>4, <1>2
  <2>5. CASE named = {}
    BY <2>1, <2>3, <2>5, <1>1, <1>2 DEF Ended
  <2> QED BY <2>4, <2>5
<1>5. ASSUME ~Named(f) PROVE Nameless(FileKey(f))
  BY <1>1, <1>5 DEF Nameless, Named
<1>6. Named(f) => file[f].there /\ file[f].last \in Fid
  BY <1>1, <1>3
<1>7. CASE ~file[f].there
  <2>1. Classified(f, bad) = owner[f] /\ GivenUp(f, bad) = stale[f]
    BY <1>7 DEF Classified, GivenUp
  <2> QED BY <2>1, <1>1, <1>3, <1>7 DEF Right
<1>8. CASE file[f].there /\ Remembered(f)
  <2>1. Classified(f, bad) = owner[f] /\ GivenUp(f, bad) = stale[f]
    BY <1>8 DEF Classified, GivenUp
  <2>2. ASSUME owner[f] \notin Fid, Named(f), f \notin misread PROVE FALSE
    <3>1. owner[f] = "menu" /\ stale[f] = FileKey(f)
      BY <2>2, <1>3, <1>8 DEF Remembered, Right
    <3>2. Nameless(FileKey(f))
      BY <3>1, <2>2, <1>1, <1>3 DEF Right
    <3>3. PICK ls \in Seq(Nat), h \in BOOLEAN :
                  /\ <<Content[f], file[f].half>> = <<ls, h>>
                  /\ \A i \in 1 .. Len(ls) : ~IsLogin(ls[i])
      BY <3>2, <1>1 DEF Nameless
    <3>4. Content[f] = ls
      BY <3>3
    <3> QED BY <3>3, <3>4, <2>2 DEF Named
  <2>3. owner[f] \in Fid => owner[f] = file[f].last /\ owner[f] # "menu"
    BY <1>2, <1>3 DEF Right
  <2> QED BY <2>1, <2>2, <2>3, <1>3, <1>6 DEF Right
<1>9. CASE file[f].there /\ ~Remembered(f) /\ Abandoned(f, bad)
  <2>1. Classified(f, bad) = "menu" /\ GivenUp(f, bad) = FileKey(f) /\ (f \in bad \/ ~Named(f))
    BY <1>4, <1>9 DEF Classified, GivenUp, Abandoned, Found
  <2> QED BY <2>1, <1>1, <1>2, <1>5, <1>6 DEF Right
<1>10. CASE file[f].there /\ ~Remembered(f) /\ ~Abandoned(f, bad)
  <2>1. Classified(f, bad) = Found(f, bad) /\ GivenUp(f, bad) = NoKey
    BY <1>10 DEF Classified, GivenUp
  <2>2. CASE f \in bad
    <3>1. Classified(f, bad) = "pending"
      BY <2>1, <2>2 DEF Found
    <3> QED BY <3>1, <2>1, <2>2, <1>2, <1>6 DEF Right
  <2>3. CASE f \notin bad
    <3>1. Classified(f, bad) = OwnerOf(f)
      BY <2>1, <2>3 DEF Found
    <3> QED BY <3>1, <2>1, <1>4, <1>6 DEF Right
  <2> QED BY <2>2, <2>3
<1> QED BY <1>7, <1>8, <1>9, <1>10

LEMMA RightlyStart == Init => Rightly
<1>1. "unread" \notin Fid
  BY JournalSyncAssumption
<1> QED BY <1>1 DEF Init, Rightly, Right

LEMMA RightlyStep ==
  ASSUME JInv, OwnFiles, Sessions, Rightly, [Next]_vars
  PROVE  Rightly'
<1>1. CASE GameStep
  <2>1. /\ UNCHANGED <<owner, stale, misread>> /\ \A t \in 1 .. Len(written) : written'[t] = written[t]
        /\ Len(written) \in Nat /\ Len(written') \in Nat /\ Len(written) <= Len(written')
    <3>1. UNCHANGED stale
      BY <1>1 DEF GameStep, Launch, Relaunch, Write, WriteHalf, Quit, SwitchAccount, Age, registry
    <3>2. Len(written') \in Nat
      <4>1. JInv'
        BY <1>1, GameOk
      <4> QED BY <4>1, LenProperties DEF JInv, Folder, FolderTypes
    <3> QED BY <3>1, <3>2, <1>1, OwnGame
  <2>2. ASSUME NEW f \in File PROVE Right(f, owner[f], stale[f], misread)'
    <3>1. /\ Right(f, owner[f], stale[f], misread) /\ Extends(f)
          /\ file[f].there => file'[f].last = file[f].last
          /\ \A i \in 1 .. Len(Content[f]) : Content[f][i] \in 1 .. Len(written)
          /\ Len(Content[f]) \in Nat
          /\ ~file[f].there => Content[f] = <<>> /\ ~Named(f)
          /\ file[f].there /\ Content'[f] # Content[f] => \E c \in Fid : game[c] = f
      BY <1>1, OwnGame, NamedIs DEF Rightly
    <3>2. Len(Content'[f]) \in Nat
      BY <1>1, GameOk DEF JInv, Folder, FolderOk
    <3>3. ASSUME owner[f] \in Fid PROVE Named(f)' /\ file'[f].last = owner[f]
      <4>1. Named(f) /\ file'[f].last = owner[f]
        BY <3>1, <3>3 DEF Right
      <4>2. PICK i \in 1 .. Len(Content[f]) : IsLogin(Content[f][i])
        BY <4>1 DEF Named
      <4>3. i \in 1 .. Len(Content'[f]) /\ Content'[f][i] = Content[f][i]
        BY <3>1, <3>2 DEF Extends
      <4>4. written'[Content'[f][i]].kind = "login"
        BY <4>2, <4>3, <3>1, <2>1 DEF IsLogin
      <4> QED BY <4>1, <4>3, <4>4 DEF Named, IsLogin
    <3>4. ASSUME owner[f] = "menu", stale[f] = NoKey PROVE ~Named(f)' /\ Ended(f)'
      <4>1. ~Named(f) /\ Ended(f)
        BY <3>1, <3>4 DEF Right
      <4>2. /\ Content[f] # <<>> /\ Len(Content[f]) \in 1 .. Len(Content[f])
            /\ written[Content[f][Len(Content[f])]].kind = "shutdown"
        <5>1. Content[f] \in Seq(Nat)
          BY NamedIs
        <5>2. Content[f] # <<>> => Len(Content[f]) # 0
          BY <5>1, EmptySeq
        <5> QED BY <4>1, <5>2, <3>1 DEF Ended
      <4>3. \A c \in Fid : game[c] # f
        BY <4>2 DEF Sessions, Session
      <4>4. Content'[f] = Content[f]
        BY <4>2, <4>3, <3>1
      <4>5. \A i \in 1 .. Len(Content[f]) : written'[Content[f][i]] = written[Content[f][i]]
        BY <3>1, <2>1
      <4> QED BY <4>1, <4>2, <4>4, <4>5 DEF Named, Ended, IsLogin
    <3>5. ASSUME stale[f] # NoKey, f \notin misread PROVE Nameless(stale[f])'
      <4>1. PICK ls \in Seq(Nat), h \in BOOLEAN :
                    /\ stale[f] = <<ls, h>>
                    /\ \A i \in 1 .. Len(ls) : ls[i] \in 1 .. Len(written) /\ ~IsLogin(ls[i])
        BY <3>1, <3>5 DEF Right, Nameless
      <4>2. \A i \in 1 .. Len(ls) : ls[i] \in 1 .. Len(written') /\ written'[ls[i]].kind # "login"
        BY <4>1, <2>1 DEF IsLogin
      <4> QED BY <4>1, <4>2, <2>1 DEF Nameless, IsLogin
    <3> QED BY <3>3, <3>4, <3>5, <2>1 DEF Right
  <2> QED BY <2>2 DEF Rightly
<1>2. ASSUME UNCHANGED folder 
      PROVE  \A f \in File : \A who, key, bad : Right(f, who, key, bad) => Right(f, who, key, bad)'
  <2>1. Content' = Content /\ written' = written /\ file' = file
    BY <1>2, Untouched DEF folder
  <2> QED BY <2>1 DEF Right, Named, Nameless, Ended, IsLogin
<1>3. CASE SyncStart
  <2>1. PICK bad \in SUBSET File : SyncStartWithout(bad)
    BY <1>3 DEF SyncStart
  <2>2. /\ UNCHANGED folder /\ misread' = misread \cup bad
        /\ \A f \in File : owner'[f] = Classified(f, bad) /\ stale'[f] = GivenUp(f, bad)
    BY <2>1 DEF SyncStartWithout
  <2>3. ASSUME NEW f \in File PROVE Right(f, owner[f], stale[f], misread)'
    <3>1. PICK who, key, all : /\ who = Classified(f, bad) /\ key = GivenUp(f, bad)
                               /\ all = misread \cup bad
      OBVIOUS
    <3>2. Right(f, who, key, all)'
      BY <3>1, <2>2, <1>2, ClassifiedIs
    <3>3. owner'[f] = who /\ stale'[f] = key /\ misread' = all
      BY <3>1, <2>2
    <3> QED BY <3>2, <3>3 DEF Right
  <2> QED BY <2>3 DEF Rightly
<1>4. ASSUME UNCHANGED <<folder, owner, stale, misread>> PROVE Rightly'
  <2>1. Content' = Content /\ written' = written /\ file' = file
    BY <1>4, Untouched DEF folder
  <2> QED BY <2>1, <1>4 DEF Rightly, Right, Named, Nameless, Ended, IsLogin
<1>5. CASE Restart
  <2>1. UNCHANGED folder /\ \A f \in File : owner'[f] = "unread" /\ stale'[f] = NoKey
    BY <1>5 DEF Restart
  <2>2. "unread" \notin Fid
    BY JournalSyncAssumption
  <2> QED BY <2>1, <2>2 DEF Rightly, Right
<1>6. CASE (\E k \in Key, f \in File : Stat(k, f)) \/ Read \/ Derive \/ SyncFails \/ UNCHANGED vars
  <2>1. (\E k \in Key, f \in File : Stat(k, f)) => UNCHANGED <<folder, owner, stale, misread>>
    BY DEF Stat, registry
  <2>2. Read => UNCHANGED <<folder, owner, stale, misread>>
    BY DEF Read, registry
  <2>3. Derive => UNCHANGED <<folder, owner, stale, misread>>
    BY DEF Derive, registry
  <2>4. SyncFails => UNCHANGED <<folder, owner, stale, misread>>
    BY DEF SyncFails, registry
  <2>5. UNCHANGED vars => UNCHANGED <<folder, owner, stale, misread>>
    BY DEF vars, folder
  <2> QED BY <1>4, <1>6, <2>1, <2>2, <2>3, <2>4, <2>5
<1> QED BY <1>1, <1>3, <1>5, <1>6 DEF Next, SyncStep
-----------------------------------------------------------------------------
(* What a sync has still to do.                                             *)

Through(k, f) == \A i \in 1 .. Len(Content[f]) : Passed(k, f, i)
Untold(k, f) == \A i \in 1 .. Len(Content[f]) : Passed(k, f, i) => ~IsLogin(Content[f][i])
Owned(k, f) == k \in Fid => file[f].last = k

\* A file that k is still to read: of another commander's no login is taken, and
\* the older files of the same commander are read to their ends or come before it,
\* but for those whose owner could not be read.
Ahead(k, f) ==
  /\ file[f].there
  /\ ~Owned(k, f) => Untold(k, f) \/ f \in misread
  /\ Owned(k, f) =>
       \A g \in 1 .. f - 1 : file[g].last = file[f].last /\ Named(g) =>
         g \in sync.todo[k] \/ Through(k, g) \/ g \in misread

\* The placeholder takes no event from behind its mark.
Later(f) ==
  f \in misread \/ \A i \in 1 .. Len(Content[f]) :
                     IsPlay(Content[f][i]) => Content[f][i] > mark[Placeholder]

Course ==
  /\ \A k \in Key : \A f \in sync.todo[k] : Ahead(k, f)
  /\ sync.at = "open" => /\ sync.file \in sync.todo[sync.key]
                         /\ \A g \in sync.todo[sync.key] : sync.file <= g
  /\ \A f \in sync.todo[Placeholder] : Later(f)

\* A line of a file whose owner could not be read.
Missed(t) == \E f \in misread : \E i \in 1 .. Len(Content[f]) : Content[f][i] = t
\* Logins and play of another commander.
Alien(k) ==
  IF k \in Fid THEN {t \in Lines(k) : (IsLogin(t) \/ IsPlay(t)) /\ written[t].who # k} ELSE {}

\* The mark is an event the store has, and what is behind it was applied.
MarkOf(k) ==
  /\ mark[k] # 0 => mark[k] \in Derivable(k)
  /\ Alien(k) = {} => \A t \in Derivable(k) : t <= mark[k] => t \in derived[k] \/ Missed(t)

LEMMA TodoIs ==
  ASSUME JInv
  PROVE  /\ sync \in SyncState /\ \A k \in Key : sync.todo[k] \subseteq File
         /\ Placeholder \in Key /\ Placeholder \notin Fid /\ \A k \in Fid : k \in Key
         /\ checkpoint \in [Key -> [File -> Nat]]
BY JournalSyncAssumption DEF JInv, Opened, SyncState, Stored, Key

LEMMA OneLessIs ==
  ASSUME JInv, NEW k \in Key, NEW f \in File
  PROVE  /\ Next1(k, f).at = "ingest" /\ Next1(k, f).todo[k] = sync.todo[k] \ {f}
         /\ \A x \in Key \ {k} : Next1(k, f).todo[x] = sync.todo[x]
<1>1. sync \in SyncState
  BY TodoIs
<1>2. PICK t \in [Key -> SUBSET File] : t = [sync.todo EXCEPT ![k] = @ \ {f}]
  BY <1>1 DEF SyncState
<1>3. t[k] = sync.todo[k] \ {f} /\ \A x \in Key \ {k} : t[x] = sync.todo[x]
  BY <1>1, <1>2 DEF SyncState
<1>4. Next1(k, f) = [sync EXCEPT !.at = "ingest", !.todo = t]
  BY <1>2 DEF Next1
<1> QED BY <1>1, <1>3, <1>4 DEF SyncState

LEMMA LinesAre ==
  ASSUME JInv, NEW k \in Key, NEW t \in Lines(k)
  PROVE  t \in 1 .. Len(written)
<1>1. PICK r \in rows[k] : t = r.line
  BY DEF Lines
<1>2. r \in Entry /\ r.line <= Len(written) /\ Len(written) \in Nat
  BY Sizes DEF JInv, Stored, StoreOk, RowsOk
<1> QED BY <1>1, <1>2 DEF Entry

\* What the game adds to a file is newer than all that was written.
LEMMA Appended ==
  ASSUME JInv, OwnFiles, Sessions, GameStep, NEW f \in File,
         NEW i \in 1 .. Len(Content'[f]), i \notin 1 .. Len(Content[f])
  PROVE  Content'[f][i] > Len(written)
<1>1. /\ Len(written) \in Nat /\ FolderOk(Content, Len(written))
      /\ \A g \in File : Content[g] = file[g].lines /\ Len(Content[g]) \in Nat
  BY Sizes
<1>2. \A g \in File : Content'[g] = file'[g].lines
  BY DEF Content
<1>3. CASE Quiet
  BY <1>1, <1>2, <1>3 DEF Quiet
<1>4. CASE \E c \in Fid, g \in File : Opens(c, g)
  <2>1. PICK g \in File : file'[g].lines = <<>> /\ \A h \in File \ {g} : file'[h] = file[h]
    BY <1>4 DEF Opens, Alone
  <2>2. Len(<<>>) = 0
    OBVIOUS
  <2> QED BY <2>1, <2>2, <1>1, <1>2
<1>5. ASSUME NEW c \in Fid, NEW g \in File, Empties(c, g) PROVE FALSE
  <2>1. reuses < MaxReuses /\ reuses \in Nat /\ MaxReuses = 0
    BY <1>5, Sizes DEF Empties, OwnFiles
  <2> QED BY <2>1
<1>6. CASE \E c \in Fid, g \in File, kind \in Kind : AddsLine(c, g, kind)
  <2>1. PICK g \in File : Longer(Content, Content', g, Len(written))
    BY <1>6 DEF AddsLine
  <2>2. /\ \A h \in File : h # g => Content'[h] = Content[h]
        /\ Len(Content'[g]) = Len(Content[g]) + 1
        /\ Content'[g][Len(Content[g]) + 1] = Len(written) + 1
    BY <2>1, <1>1, Grown
  <2>3. f = g /\ i = Len(Content[g]) + 1
    BY <2>2, <1>1
  <2> QED BY <2>2, <2>3, <1>1
<1> QED BY <1>3, <1>4, <1>5, <1>6, GameEffects

LEMMA CourseGame ==
  ASSUME JInv, OwnFiles, Sessions, Faithful, Course, MarkOf(Placeholder), GameStep
  PROVE  Course'
<1>1. /\ \A t \in 1 .. Len(written) : written'[t] = written[t]
      /\ UNCHANGED <<rows, checkpoint, mark, derived, owner, stores, sync, misread>>
      /\ \A f \in File :
           /\ Extends(f)
           /\ file[f].there => file'[f].there /\ file'[f].last = file[f].last
           /\ file[f].there /\ Content'[f] # Content[f] =>
                \E c \in Fid : game[c] = f /\ file[f].last = c
  BY OwnGame
<1>2. ASSUME NEW k \in Key, NEW f \in sync.todo[k] PROVE Ahead(k, f)'
  <2>1. /\ Ahead(k, f) /\ f \in File /\ file[f].there /\ file'[f].there
        /\ file'[f].last = file[f].last /\ (Owned(k, f)' <=> Owned(k, f))
    BY <1>1, TodoIs DEF Course, Ahead, Owned
  <2>2. ASSUME ~Owned(k, f), f \notin misread PROVE Untold(k, f)'
    <3> SUFFICES ASSUME NEW i \in 1 .. Len(Content'[f]), Passed(k, f, i)
                 PROVE  written'[Content'[f][i]].kind # "login"
      BY <1>1 DEF Untold, Passed, IsLogin
    <3>1. /\ checkpoint[k][f] \in Nat /\ checkpoint[k][f] <= 2 * Len(Content[f])
          /\ Len(Content[f]) \in Nat /\ Len(Content'[f]) \in Nat
      <4>1. FaithfulTo(k, f)
        BY <2>1 DEF Faithful, Sessions, Session
      <4>2. JInv'
        BY GameOk
      <4>3. checkpoint[k][f] \in Nat /\ Len(Content[f]) \in Nat
        BY <2>1, TodoIs, NamedIs
      <4>4. Len(Content'[f]) \in Nat
        BY <2>1, <4>2 DEF JInv, Folder, FolderOk
      <4> QED BY <4>1, <4>3, <4>4 DEF FaithfulTo
    <3>2. i \in 1 .. Len(Content[f])
      BY <3>1 DEF Passed
    <3>3. ~IsLogin(Content[f][i])
      BY <2>1, <2>2, <3>2 DEF Ahead, Untold
    <3>4. Content'[f][i] = Content[f][i] /\ Content[f][i] \in 1 .. Len(written)
      BY <1>1, <2>1, <3>2, NamedIs DEF Extends
    <3> QED BY <1>1, <3>3, <3>4 DEF IsLogin
  <2>3. ASSUME Owned(k, f), NEW g \in 1 .. f - 1, file'[g].last = file'[f].last, Named(g)',
               g \notin misread
        PROVE  g \in sync.todo[k] \/ Through(k, g)'
    <3>1. g \in File /\ g < f /\ file[g].there /\ f \in Nat /\ g \in Nat
      BY <2>1, FilesBelow DEF Sessions, Session
    <3>2. file[g].last = file[f].last
      BY <1>1, <2>1, <2>3, <3>1
    <3>3. Content'[g] = Content[g]
      <4> SUFFICES ASSUME Content'[g] # Content[g] PROVE FALSE
        OBVIOUS
      <4>1. PICK c \in Fid : game[c] = g /\ file[g].last = c
        BY <1>1, <3>1
      <4> QED BY <4>1, <3>1, <3>2, <2>1, FilesBelow DEF Sessions, Newest
    <3>4. Named(g)
      <4>1. \A i \in 1 .. Len(Content[g]) : Content[g][i] \in 1 .. Len(written)
        BY <3>1, NamedIs
      <4> QED BY <2>3, <3>3, <4>1, <1>1 DEF Named, IsLogin
    <3>5. g \in sync.todo[k] \/ Through(k, g)
      BY <2>1, <2>3, <3>2, <3>4 DEF Ahead
    <3> QED BY <3>3, <3>5, <1>1 DEF Through, Passed
  <2> QED BY <2>1, <2>2, <2>3, <1>1 DEF Ahead
<1>3. ASSUME NEW f \in sync.todo[Placeholder], f \notin misread,
             NEW i \in 1 .. Len(Content'[f]), written'[Content'[f][i]].kind = "play"
      PROVE  Content'[f][i] > mark[Placeholder]
  <2>1. /\ f \in File /\ Extends(f) /\ Later(f) /\ mark[Placeholder] \in Nat
        /\ Len(written) \in Nat /\ Len(Content[f]) \in Nat
        /\ \A l \in 1 .. Len(Content[f]) : Content[f][l] \in 1 .. Len(written)
    BY <1>1, TodoIs, NamedIs, JournalSyncAssumption DEF Course, JInv, Applied
  <2>2. mark[Placeholder] <= Len(written)
    <3>1. mark[Placeholder] # 0 => mark[Placeholder] \in Lines(Placeholder)
      BY DEF MarkOf, Derivable, Lines
    <3> QED BY <2>1, <3>1, TodoIs, LinesAre
  <2>3. CASE i \in 1 .. Len(Content[f])
    <3>1. Content'[f][i] = Content[f][i] /\ IsPlay(Content[f][i])
      BY <1>1, <1>3, <2>1, <2>3 DEF Extends, IsPlay
    <3> QED BY <1>3, <2>1, <2>3, <3>1 DEF Later
  <2>4. CASE i \notin 1 .. Len(Content[f])
    <3>1. Content'[f][i] > Len(written)
      BY <2>1, <2>4, Appended
    <3>2. JInv'
      BY GameOk
    <3>3. Content' \in [File -> Seq(Nat)]
      BY <3>2 DEF JInv, Folder, FolderOk
    <3>4. Content'[f][i] \in Nat
      BY <1>3, <2>1, <3>3
    <3> QED BY <2>1, <2>2, <3>1, <3>4
  <2> QED BY <2>3, <2>4
<1>4. \A f \in sync.todo[Placeholder] : Later(f)'
  BY <1>1, <1>3 DEF Later, IsPlay
<1> QED BY <1>1, <1>2, <1>4 DEF Course

LEMMA ShareIs ==
  ASSUME NEW bad, NEW k \in Key, NEW f, f \in Share(k, bad), OpenStores(bad) \cap Fid # {}
  PROVE  /\ f \in File
         /\ \/ Classified(f, bad) = k
            \/ OpenStores(bad) \cap Fid = {k} /\ file[f].there /\ Classified(f, bad) = "menu"
<1>1. PICK known : known = OpenStores(bad) \cap Fid
  OBVIOUS
<1>2. PICK mine, menus : /\ mine = {g \in File : Classified(g, bad) = k}
                         /\ menus = {g \in File : file[g].there /\ Classified(g, bad) = "menu"}
  OBVIOUS
<1>3. Share(k, bad) = IF known = {k} THEN mine \cup menus ELSE mine
  BY <1>1, <1>2 DEF Share
<1>4. f \in mine \/ (known = {k} /\ f \in menus)
  <2>1. CASE known = {k}
    BY <1>3, <2>1
  <2>2. CASE known # {k}
    BY <1>3, <2>2
  <2> QED BY <2>1, <2>2
<1> QED BY <1>1, <1>2, <1>4

LEMMA CourseStart ==
  ASSUME JInv, Sessions, Rightly, Faithful, SyncStart
  PROVE  Course'
<1>0. PICK bad \in SUBSET File : SyncStartWithout(bad)
  BY DEF SyncStart
<1>1. /\ UNCHANGED folder /\ UNCHANGED <<rows, checkpoint, mark>>
      /\ Content' = Content /\ written' = written /\ file' = file
      /\ misread' = misread \cup bad
  BY <1>0, Untouched DEF SyncStartWithout, db, folder
<1>2. /\ sync'.at = "ingest" /\ \A k \in Key : sync'.todo[k] = Share(k, bad)
  <2>1. sync' = [NoSync EXCEPT !.at = "ingest", !.todo = [k \in Key |-> Share(k, bad)]]
    BY <1>0 DEF SyncStartWithout
  <2>2. PICK todo : todo = [k \in Key |-> Share(k, bad)]
    OBVIOUS
  <2>3. sync' = [at |-> "ingest", todo |-> todo, key |-> Placeholder, file |-> NoFile,
                 start |-> 0, replaced |-> FALSE]
    BY <2>1, <2>2 DEF NoSync
  <2> QED BY <2>2, <2>3
<1> DEFINE known == OpenStores(bad) \cap Fid
<1>3. \A f \in File : Classified(f, bad) \in Fid => Classified(f, bad) \in known
  BY DEF OpenStores
<1>4. ASSUME NEW k \in Key, known # {}, NEW f \in Share(k, bad)
      PROVE  /\ k \in Fid /\ f \in File
             /\ \/ Classified(f, bad) = k
                \/ file[f].there /\ Classified(f, bad) = "menu"
             /\ \A g \in File : Classified(g, bad) = k => g \in Share(k, bad)
  <2>1. f \in File /\ (Classified(f, bad) = k \/ (known = {k} /\ file[f].there /\ Classified(f, bad) = "menu"))
    BY <1>4, ShareIs
  <2>2. k \in Fid
    <3>1. Classified(f, bad) \in Fid \cup {"unread", "pending", "menu"}
      BY <2>1, Owners
    <3>2. Placeholder \notin Fid \cup {"unread", "pending", "menu"}
      BY JournalSyncAssumption
    <3> QED BY <2>1, <3>1, <3>2 DEF Key
  <2>3. \A g \in File : Classified(g, bad) = k => g \in Share(k, bad)
    BY <1>4 DEF Share
  <2> QED BY <2>1, <2>2, <2>3
<1>5. ASSUME NEW k \in Key, known = {}, NEW f \in Share(k, bad)
      PROVE  /\ k = Placeholder /\ f \in File /\ file[f].there
             /\ \A g \in File : file[g].there => g \in Share(k, bad)
  <2>1. k = Placeholder /\ Share(k, bad) = {g \in File : file[g].there}
    BY <1>5 DEF Share
  <2> QED BY <2>1
<1> HIDE DEF known
<1>6. ASSUME NEW k \in Key, NEW f \in Share(k, bad)
      PROVE  /\ f \in File /\ file[f].there
             /\ ~Owned(k, f) => Untold(k, f) \/ f \in misread'
             /\ Owned(k, f) =>
                  \A g \in 1 .. f - 1 : file[g].last = file[f].last /\ Named(g) =>
                    g \in Share(k, bad) \/ g \in misread'
  <2>1. CASE known = {}
    <3>1. k = Placeholder /\ f \in File /\ file[f].there
          /\ \A g \in File : file[g].there => g \in Share(k, bad)
      BY <1>5, <2>1
    <3>2. Owned(k, f) /\ \A g \in 1 .. f - 1 : g \in File /\ file[g].there
      BY <3>1, TodoIs, FilesBelow DEF Owned, Sessions, Session
    <3> QED BY <3>1, <3>2
  <2>2. CASE known # {}
    <3>1. /\ k \in Fid /\ f \in File
          /\ \/ Classified(f, bad) = k
             \/ file[f].there /\ Classified(f, bad) = "menu"
          /\ \A g \in File : Classified(g, bad) = k => g \in Share(k, bad)
      BY <1>4, <2>2
    <3>2. CASE Classified(f, bad) = k
      <4>1. Named(f) /\ file[f].last = k /\ file[f].there
        BY <3>1, <3>2, ClassifiedIs DEF Right
      <4>2. \A g \in 1 .. f - 1 : g \in File
        BY <3>1, FilesBelow
      <4> QED BY <3>1, <4>1, <4>2, <1>1, ClassifiedIs DEF Owned
    <3>3. CASE file[f].there /\ Classified(f, bad) = "menu"
      <4>1. ~Named(f) \/ f \in misread'
        BY <3>1, <3>3, <1>1, ClassifiedIs
      <4>2. Untold(k, f) \/ f \in misread'
        BY <4>1 DEF Untold, Named
      <4>3. \A g \in 1 .. f - 1 : g \in File
        BY <3>1, FilesBelow
      <4> QED BY <3>1, <3>3, <4>2, <4>3, <1>1, ClassifiedIs DEF Owned
    <3> QED BY <3>1, <3>2, <3>3
  <2> QED BY <2>1, <2>2
<1>7. ASSUME NEW k \in Key, NEW f \in sync'.todo[k] PROVE Ahead(k, f)'
  <2>1. /\ f \in File /\ file[f].there
        /\ ~Owned(k, f) => Untold(k, f) \/ f \in misread'
        /\ Owned(k, f) =>
             \A g \in 1 .. f - 1 : file[g].last = file[f].last /\ Named(g) =>
               g \in sync'.todo[k] \/ g \in misread'
    BY <1>2, <1>6, <1>7
  <2> QED BY <2>1, <1>1 DEF Ahead, Owned, Untold, Passed, Named, IsLogin
<1>8. ASSUME NEW f \in sync'.todo[Placeholder] PROVE Later(f)'
  <2> SUFFICES ASSUME f \notin misread', NEW i \in 1 .. Len(Content[f]), IsPlay(Content[f][i])
               PROVE  FALSE
    BY <1>1 DEF Later, IsPlay
  <2>1. f \in Share(Placeholder, bad)
    BY <1>2, <1>8, TodoIs
  <2>2. known = {} /\ f \in File
    BY <2>1, <1>4, <1>6, TodoIs
  <2>3. Named(f)
    <3>1. \E j \in 1 .. i : IsLogin(Content[f][j])
      BY <2>2 DEF Sessions, Session
    <3>2. \A j \in 1 .. i : j \in 1 .. Len(Content[f])
      BY <2>2, NamedIs
    <3> QED BY <3>1, <3>2 DEF Named
  <2>4. Classified(f, bad) \in Fid
    BY <2>2, <2>3, <1>1, ClassifiedIs
  <2> QED BY <2>2, <2>4, <1>3
<1> QED BY <1>1, <1>2, <1>7, <1>8 DEF Course

\* A file is done with: it was read to its end.
LEMMA CourseOn ==
  ASSUME JInv, UNCHANGED folder, Course, NEW k \in Key, NEW f \in File,
         sync' = Next1(k, f), UNCHANGED <<mark, misread>>, Through(k, f)',
         \A x \in Key, g \in File : x # k \/ g # f => checkpoint'[x][g] = checkpoint[x][g]
  PROVE  Course'
<1>1. Content' = Content /\ written' = written /\ file' = file
  BY Untouched DEF folder
<1>2. /\ sync'.at = "ingest" /\ sync'.todo[k] = sync.todo[k] \ {f}
      /\ \A x \in Key \ {k} : sync'.todo[x] = sync.todo[x]
      /\ \A x \in Key : sync.todo[x] \subseteq File
  BY OneLessIs, TodoIs
<1>3. ASSUME NEW x \in Key, NEW h \in sync'.todo[x] PROVE Ahead(x, h)'
  <2>1. h \in sync.todo[x] /\ h \in File /\ (x # k \/ h # f)
    BY <1>2, <1>3
  <2>2. Ahead(x, h) /\ checkpoint'[x][h] = checkpoint[x][h]
    BY <2>1 DEF Course
  <2>3. ASSUME NEW g \in 1 .. h - 1, g \in sync.todo[x] \/ Through(x, g)
        PROVE  g \in sync'.todo[x] \/ Through(x, g)'
    <3>1. CASE x = k /\ g = f
      BY <3>1
    <3>2. CASE x # k \/ g # f
      <4>1. g \in File
        BY <2>1, FilesBelow
      <4>2. checkpoint'[x][g] = checkpoint[x][g]
        BY <3>2, <4>1
      <4>3. g \in sync.todo[x] => g \in sync'.todo[x]
        BY <3>2, <1>2
      <4>4. Through(x, g) => Through(x, g)'
        BY <4>2, <1>1 DEF Through, Passed
      <4> QED BY <2>3, <4>3, <4>4
    <3> QED BY <3>1, <3>2
  <2>4. ~Owned(x, h)' => Untold(x, h)' \/ h \in misread'
    BY <2>2, <1>1 DEF Ahead, Owned, Untold, Passed, IsLogin
  <2>5. ASSUME Owned(x, h)', NEW g \in 1 .. h - 1, file'[g].last = file'[h].last, Named(g)',
               g \notin misread'
        PROVE  g \in sync'.todo[x] \/ Through(x, g)'
    <3>1. Owned(x, h) /\ file[g].last = file[h].last /\ Named(g)
      BY <2>5, <1>1 DEF Owned, Named, IsLogin
    <3>2. g \in sync.todo[x] \/ Through(x, g)
        BY <3>1, <2>2, <2>5 DEF Ahead
    <3> QED BY <3>2, <2>3
  <2>6. file'[h].there
    BY <2>2, <1>1 DEF Ahead
  <2> QED BY <2>4, <2>5, <2>6 DEF Ahead
<1>4. \A h \in sync'.todo[Placeholder] : Later(h)'
  <2>1. \A h \in sync'.todo[Placeholder] : Later(h)
    BY <1>2, TodoIs DEF Course
  <2> QED BY <2>1, <1>1 DEF Later, IsPlay
<1> QED BY <1>2, <1>3, <1>4 DEF Course

LEMMA CourseStep ==
  ASSUME JInv, OwnFiles, Sessions, Rightly, Faithful, Course, MarkOf(Placeholder), [Next]_vars
  PROVE  Course'
<1>1. CASE GameStep
  BY <1>1, CourseGame
<1>2. CASE SyncStart
  BY <1>2, CourseStart
<1>3. ASSUME NEW k \in Key, NEW f \in File, Stat(k, f) PROVE Course'
  <2>1. /\ UNCHANGED <<folder, rows, checkpoint, mark, derived, owner, stale, stores, misread>>
        /\ f \in sync.todo[k] /\ \A g \in sync.todo[k] : f <= g
    BY <1>3, StatEffect
  <2>2. Content' = Content /\ written' = written /\ file' = file
    BY <2>1, Untouched DEF folder
  <2>3. CASE /\ sync' = Next1(k, f)
             /\ Size(f) = IF Replaced(k, f) THEN 0 ELSE checkpoint[k][f]
    <3>1. FaithfulTo(k, f)
      BY DEF Faithful, Sessions, Session
    <3>2. /\ Size(f) \in Nat /\ checkpoint[k][f] \in Nat /\ Len(Content[f]) \in Nat
          /\ 2 * Len(Content[f]) <= Size(f) /\ checkpoint[k][f] <= 2 * Len(Content[f])
      BY <3>1, SizeBounds, TodoIs, NamedIs DEF FaithfulTo
    <3>3. ~Replaced(k, f)
      BY <3>2 DEF Replaced
    <3>4. checkpoint[k][f] = 2 * Len(Content[f])
      BY <2>3, <3>2, <3>3
    <3>5. Through(k, f)
      BY <3>2, <3>4 DEF Through, Passed
    <3>6. Through(k, f)'
      BY <3>5, <2>1, <2>2 DEF Through, Passed
    <3> QED BY <2>1, <2>3, <3>6, CourseOn
  <2>4. CASE /\ sync'.at = "open" /\ sync'.todo = sync.todo
             /\ sync'.key = k /\ sync'.file = f
    <3>1. ASSUME NEW x \in Key, NEW h \in sync'.todo[x] PROVE Ahead(x, h)'
      <4>1. Ahead(x, h)
        BY <2>4, <3>1 DEF Course
      <4> QED BY <4>1, <2>1, <2>2, <2>4 DEF Ahead, Owned, Untold, Through, Passed, Named, IsLogin
    <3>2. \A h \in sync'.todo[Placeholder] : Later(h)'
      BY <2>1, <2>2, <2>4 DEF Course, Later, IsPlay
    <3> QED BY <3>1, <3>2, <2>1, <2>4 DEF Course
  <2> QED BY <1>3, <2>3, <2>4, StatEffect
<1>4. CASE Read
  <2>0. PICK k \in Key, f \in File : k = sync.key /\ f = sync.file
    BY <1>4, ReadEffect
  <2>1. /\ UNCHANGED folder /\ UNCHANGED <<mark, misread>> /\ sync' = Next1(k, f)
        /\ \A x \in Key, g \in File : x # k \/ g # f => checkpoint'[x][g] = checkpoint[x][g]
    BY <1>4, <2>0, ReadEffect
  <2>2. Content' = Content
    BY <2>1, Untouched
  <2>3. /\ sync.start \in Nat /\ sync.start = checkpoint[k][f]
        /\ Len(Content[f]) \in Nat
        /\ checkpoint'[k][f] = IF Fresh = {} THEN checkpoint[k][f] ELSE 2 * Len(Content[f])
        /\ \A i : i \in Fresh <=> i \in 1 .. Len(Content[f]) /\ 2 * (i - 1) >= sync.start
    <3>1. ~sync.replaced
      BY <1>4, <2>0 DEF Faithful, Sessions, Session, Read
    <3> QED BY <1>4, <2>0, <3>1, ReadEffect, NamedIs
  <2>4. CASE Fresh = {}
    <3>1. \A i \in 1 .. Len(Content[f]) : ~(2 * (i - 1) >= checkpoint[k][f])
      BY <2>3, <2>4
    <3>2. \A i \in 1 .. Len(Content[f]) : 2 * (i - 1) < checkpoint'[k][f]
      BY <3>1, <2>3, <2>4
    <3>3. Through(k, f)'
      BY <3>2, <2>2 DEF Through, Passed
    <3> QED BY <3>3, <2>1, CourseOn
  <2>5. CASE Fresh # {}
    <3>1. \A i \in 1 .. Len(Content[f]) : 2 * (i - 1) < checkpoint'[k][f]
      BY <2>3, <2>5
    <3>2. Through(k, f)'
      BY <3>1, <2>2 DEF Through, Passed
    <3> QED BY <3>2, <2>1, CourseOn
  <2> QED BY <2>4, <2>5
<1>5. CASE Derive \/ SyncFails \/ Restart
  <2>1. sync' = NoSync
    BY <1>5 DEF Derive, SyncFails, Restart
  <2>2. sync'.at # "open" /\ \A k \in Key : sync'.todo[k] = {}
    BY <2>1 DEF NoSync
  <2> QED BY <2>2, TodoIs DEF Course
<1>6. CASE UNCHANGED vars
  <2>1. UNCHANGED <<folder, file, written, checkpoint, mark, sync, misread>>
    BY <1>6 DEF vars, folder
  <2>2. Content' = Content
    BY <2>1, Untouched
  <2>3. ASSUME NEW x \in Key, NEW h \in sync'.todo[x] PROVE Ahead(x, h)'
    <3>1. Ahead(x, h)
      BY <2>1, <2>3 DEF Course
    <3> QED BY <3>1, <2>1, <2>2 DEF Ahead, Owned, Untold, Through, Passed, Named, IsLogin
  <2>4. \A h \in sync'.todo[Placeholder] : Later(h)'
    BY <2>1, <2>2 DEF Course, Later, IsPlay
  <2> QED BY <2>1, <2>3, <2>4 DEF Course
<1> QED BY <1>1, <1>2, <1>3, <1>4, <1>5, <1>6 DEF Next, SyncStep

LEMMA CourseInit == Init => Course
<1>1. ASSUME Init PROVE sync.at # "open" /\ \A k \in Key : sync.todo[k] = {}
  BY <1>1 DEF Init, NoSync
<1>2. Placeholder \in Key
  BY DEF Key
<1> QED BY <1>1, <1>2 DEF Course
-----------------------------------------------------------------------------
(* What the stores hold.                                                    *)

Unmixed(k) == \A t \in Alien(k) : Missed(t)

\* A store that has a play event of its commander has all his older ones, but for
\* those of a file whose owner could not be read.
Prefix(k) ==
  \A t \in Lines(k), s \in 1 .. Len(written) :
    /\ s < t /\ IsPlay(s) /\ IsPlay(t)
    /\ written[s].who = written[t].who /\ (k \in Fid => written[t].who = k)
    => s \in Lines(k) \/ Missed(s)

\* What was missed stays so.
LEMMA MissedStays ==
  ASSUME JInv, JInv', OwnFiles, Sessions, Sessions', [Next]_vars, NEW t, Missed(t)
  PROVE  Missed(t)'
<1>1. PICK f \in misread : \E i \in 1 .. Len(Content[f]) : Content[f][i] = t
  BY DEF Missed
<1> PICK i \in 1 .. Len(Content[f]) : Content[f][i] = t
  BY <1>1
<1>2. f \in File /\ Len(Content[f]) \in Nat
  BY NamedIs DEF JInv, Known
<1>3. CASE GameStep
  <2>1. misread' = misread /\ Extends(f)
    BY <1>2, <1>3, OwnGame
  <2>2. Len(Content'[f]) \in Nat
    BY <1>2 DEF JInv, Folder, FolderOk
  <2>3. i \in 1 .. Len(Content'[f]) /\ Content'[f][i] = t
    BY <1>2, <2>1, <2>2 DEF Extends
  <2> QED BY <2>1, <2>3 DEF Missed
<1>4. CASE ~GameStep
  <2>1. UNCHANGED folder /\ misread \subseteq misread'
    <3>1. SyncStart \/ (\E k \in Key, g \in File : Stat(k, g)) =>
            UNCHANGED folder /\ misread \subseteq misread'
      BY DEF SyncStart, SyncStartWithout, Stat
    <3>2. Read \/ Derive => UNCHANGED folder /\ misread \subseteq misread'
      BY DEF Read, Derive
    <3>3. SyncFails \/ Restart => UNCHANGED folder /\ misread \subseteq misread'
      BY DEF SyncFails, Restart
    <3>4. UNCHANGED vars => UNCHANGED folder /\ misread \subseteq misread'
      BY DEF vars, folder
    <3> QED BY <1>4, <3>1, <3>2, <3>3, <3>4 DEF Next, SyncStep
  <2>2. Content' = Content
    BY <2>1, Untouched
  <2> QED BY <2>1, <2>2 DEF Missed
<1> QED BY <1>3, <1>4

\* Where a row's line stands: behind the checkpoint.
LEMMA RowsAre ==
  ASSUME JInv, OwnFiles, Sessions, Faithful, NEW k \in Key, NEW t \in Lines(k)
  PROVE  \E f \in File : \E i \in 1 .. Len(Content[f]) :
           Content[f][i] = t /\ \A j \in 1 .. i : Passed(k, f, j)
<1>1. PICK r \in rows[k] : t = r.line
  BY DEF Lines
<1>2. /\ r \in Entry /\ r.gen <= reuses /\ reuses = 0
      /\ r.gen = 0 => 2 * r.at <= checkpoint[k][r.file]
  <2>1. reuses = 0
    BY DEF JInv, Folder, FolderTypes, OwnFiles
  <2> QED BY <2>1 DEF JInv, Stored, StoreOk, CheckpointsOk
<1>3. PICK f \in File : f = r.file
  BY <1>2 DEF Entry
<1>4. FaithfulTo(k, f)
  BY DEF Faithful, Sessions, Session
<1>5. r.at \in 1 .. Len(Content[f]) /\ Content[f][r.at] = t
  BY <1>1, <1>3, <1>4 DEF FaithfulTo, Current
<1>6. r.gen = 0 /\ r.at \in Nat /\ checkpoint[k][f] \in Nat /\ 2 * r.at <= checkpoint[k][f]
  BY <1>2, <1>3, TodoIs DEF Entry
<1>7. \A j \in 1 .. r.at : Passed(k, f, j)
  BY <1>6 DEF Passed
<1> QED BY <1>5, <1>7

LEMMA Taken ==
  ASSUME JInv, JInv', Sessions, Faithful, Faithful', Course, Read,
         NEW k \in Key, NEW f \in File, k = sync.key, f = sync.file
  PROVE  /\ UNCHANGED <<folder, written, mark, derived, misread>> /\ Content' = Content
         /\ sync.start = checkpoint[k][f] /\ checkpoint[k][f] \in Nat
         /\ Ahead(k, f) /\ f \in sync.todo[k] /\ \A g \in sync.todo[k] : f <= g
         /\ \A x \in Key \ {k} : Lines(x)' = Lines(x)
         /\ Lines(k) \subseteq Lines(k)'
         /\ \A t \in Lines(k)' : t \in Lines(k) \/ \E i \in Accepted(k) : t = Content[f][i]
         /\ \A i \in Accepted(k) : Content[f][i] \in Lines(k)'
         /\ \A i : i \in Fresh <=> i \in 1 .. Len(Content[f]) /\ ~Passed(k, f, i)
<1>1. UNCHANGED <<folder, written, mark, derived, misread>> /\ Content' = Content
  BY ReadEffect, Untouched DEF folder
<1>2. ~sync.replaced
  BY DEF Faithful, Sessions, Session, Read
<1>3. sync.start = checkpoint[k][f] /\ checkpoint[k][f] \in Nat
  BY <1>2, ReadEffect, TodoIs
<1>4. Ahead(k, f) /\ f \in sync.todo[k] /\ \A g \in sync.todo[k] : f <= g
  BY DEF Course, Read
<1>5. \A x \in Key \ {k} : Lines(x)' = Lines(x)
  BY ReadEffect DEF Lines
<1>6. Lines(k) \subseteq Lines(k)'
  BY ReadOk
<1>7. ASSUME NEW t \in Lines(k)' PROVE t \in Lines(k) \/ \E i \in Accepted(k) : t = Content[f][i]
  <2>1. PICK r \in rows'[k] : t = r.line
    BY DEF Lines
  <2>2. \/ r \in rows[k]
        \/ \E i \in Accepted(k) : r = [file |-> f, gen |-> 0, at |-> i, line |-> Content[f][i]]
    BY <1>2, ReadEffect
  <2>3. CASE r \in rows[k]
    BY <2>1, <2>3 DEF Lines
  <2>4. ASSUME NEW i \in Accepted(k), r = [file |-> f, gen |-> 0, at |-> i, line |-> Content[f][i]]
        PROVE  t = Content[f][i]
    BY <2>1, <2>4
  <2> QED BY <2>2, <2>3, <2>4
<1>8. ASSUME NEW i \in Accepted(k) PROVE Content[f][i] \in Lines(k)'
  <2>1. PICK r \in rows'[k] : r.file = f /\ r.gen = 0 /\ r.at = i /\ (r \in rows[k] \/ r.line = Content[f][i])
    BY <1>2, ReadEffect
  <2>2. FaithfulTo(k, f)
    BY DEF Faithful, Sessions, Session
  <2>3. r \in rows[k] => r.line = Content[f][i]
    BY <2>1, <2>2 DEF FaithfulTo, Current
  <2> QED BY <2>1, <2>3 DEF Lines
<1>9. \A i : i \in Fresh <=> i \in 1 .. Len(Content[f]) /\ ~Passed(k, f, i)
  <2>1. Len(Content[f]) \in Nat
    BY NamedIs
  <2>2. \A i \in 1 .. Len(Content[f]) : 2 * (i - 1) >= sync.start <=> ~Passed(k, f, i)
    BY <1>3, <2>1 DEF Passed
  <2> QED BY <2>2, ReadEffect
<1> QED BY <1>1, <1>3, <1>4, <1>5, <1>6, <1>7, <1>8, <1>9

\* A store takes what names or follows a commander from his own files
\* only, and from those whose owner could not be read.
LEMMA TakenIsOwn ==
  ASSUME JInv, JInv', Sessions, Faithful, Faithful', Course, Read,
         NEW k \in Key, NEW f \in File, k = sync.key, f = sync.file,
         NEW i \in Accepted(k), IsLogin(Content[f][i]) \/ IsPlay(Content[f][i])
  PROVE  Owned(k, f) \/ f \in misread
<1> SUFFICES ASSUME k \in Fid, file[f].last # k, f \notin misread PROVE FALSE
  BY DEF Owned
<1>1. /\ Untold(k, f) /\ i \in 1 .. Len(Content[f]) /\ Len(Content[f]) \in Nat
      /\ \A j : j \in Fresh <=> j \in 1 .. Len(Content[f]) /\ ~Passed(k, f, j)
  BY Taken, NamedIs DEF Ahead, Owned, Accepted
<1>2. Session(f) /\ Content[f] = file[f].lines
  BY NamedIs DEF Sessions
<1>3. PICK j \in 1 .. i : IsLogin(Content[f][j])
  BY <1>1, <1>2 DEF Session
<1>4. j \in 1 .. Len(Content[f]) /\ j <= i
  BY <1>1, <1>3
<1>5. written[Content[f][j]].who # k
  BY <1>2, <1>4 DEF Session
<1>6. j \in Fresh
  BY <1>1, <1>3, <1>4 DEF Untold
<1>7. Refused(k, j)
  BY <1>2, <1>3, <1>5 DEF Refused
<1> QED BY <1>4, <1>6, <1>7 DEF Accepted

\* All of a file whose owner could not be read is missed.
LEMMA MissedIs ==
  ASSUME JInv, NEW f \in misread, NEW i \in 1 .. Len(Content[f])
  PROVE  Missed(Content[f][i])
BY DEF Missed

LEMMA UnmixedRead ==
  ASSUME JInv, JInv', Sessions, Faithful, Faithful', Course, Read, NEW x \in Key, Unmixed(x)
  PROVE  Unmixed(x)'
<1>1. PICK k \in Key, f \in File : k = sync.key /\ f = sync.file
  BY ReadEffect
<1>2. written' = written /\ Content' = Content /\ misread' = misread
  BY <1>1, Taken
<1>3. \A t : Missed(t)' <=> Missed(t)
  BY <1>2 DEF Missed
<1> SUFFICES ASSUME x \in Fid, NEW t \in Lines(x)', IsLogin(t) \/ IsPlay(t), written[t].who # x
             PROVE  Missed(t)
  BY <1>2, <1>3 DEF Unmixed, Alien, IsLogin, IsPlay
<1>4. CASE t \in Lines(x)
  BY <1>4 DEF Unmixed, Alien
<1>5. CASE t \notin Lines(x)
  <2>1. x = k
    BY <1>1, <1>5, Taken
  <2>2. PICK i \in Accepted(k) : t = Content[f][i]
    BY <1>1, <1>5, <2>1, Taken
  <2>3. (Owned(k, f) \/ f \in misread) /\ Session(f) /\ i \in 1 .. Len(Content[f])
    BY <1>1, <2>2, TakenIsOwn, Taken DEF Sessions, Accepted
  <2>4. ~Owned(k, f)
    BY <2>1, <2>2, <2>3 DEF Session, Owned
  <2> QED BY <2>2, <2>3, <2>4, MissedIs
<1> QED BY <1>4, <1>5

LEMMA PrefixRead ==
  ASSUME JInv, JInv', Sessions, Faithful, Faithful', Course, Read, NEW x \in Key, Prefix(x)
  PROVE  Prefix(x)'
<1>1. PICK k \in Key, f \in File : k = sync.key /\ f = sync.file
  BY ReadEffect
<1>2. written' = written
  BY <1>1, Taken
<1> SUFFICES ASSUME NEW t \in Lines(x)', NEW s \in 1 .. Len(written),
                    s < t, IsPlay(s), IsPlay(t), written[s].who = written[t].who,
                    x \in Fid => written[t].who = x, ~Missed(s)
             PROVE  s \in Lines(x)'
  <2>1. written' = written /\ Content' = Content /\ misread' = misread
    BY <1>1, Taken
  <2>2. \A s : Missed(s)' <=> Missed(s)
    BY <2>1 DEF Missed
  <2> QED BY <2>1, <2>2 DEF Prefix, IsPlay
<1>3. CASE t \in Lines(x)
  <2>1. s \in Lines(x)
    BY <1>3 DEF Prefix
  <2> QED BY <2>1, <1>1, Taken
<1>4. CASE t \notin Lines(x)
  <2>1. x = k
    BY <1>1, <1>4, Taken
  <2>2. PICK i \in Accepted(k) : t = Content[f][i]
    BY <1>1, <1>4, <2>1, Taken
  <2>3. /\ Ahead(k, f) /\ \A g \in sync.todo[k] : f <= g
        /\ Lines(k) \subseteq Lines(k)'
        /\ \A j \in Accepted(k) : Content[f][j] \in Lines(k)'
        /\ \A j : j \in Fresh <=> j \in 1 .. Len(Content[f]) /\ ~Passed(k, f, j)
    BY <1>1, Taken
  <2>4. Owned(k, f) /\ i \in 1 .. Len(Content[f])
    <3>1. i \in 1 .. Len(Content[f])
      BY <2>2, <2>3 DEF Accepted
    <3>2. written[t].who = file[f].last
      BY <2>2, <3>1 DEF Sessions, Session
    <3> QED BY <2>1, <3>1, <3>2 DEF Owned
  <2>5. PICK g \in File : \E a \in 1 .. Len(Content[g]) : Content[g][a] = s
    BY DEF Sessions, Located
  <2> PICK a \in 1 .. Len(Content[g]) : Content[g][a] = s
    BY <2>5
  <2>6. file[g].last = file[f].last
    BY <2>2, <2>4 DEF Sessions, Session
  <2>7. \A j \in 1 .. a : j \in 1 .. Len(Content[g])
    BY NamedIs
  <2>8. ~Strange(k, g, a)
    BY <2>4, <2>6, <2>7 DEF Strange, Owned, Sessions, Session
  <2>9. Passed(k, g, a) => s \in Lines(k)
    BY <2>8 DEF Faithful, FaithfulTo, Sessions, Session
  <2>10. CASE g = f
    <3>1. CASE Passed(k, f, a)
      BY <2>1, <2>3, <2>9, <2>10, <3>1
    <3>2. CASE ~Passed(k, f, a)
      <4>1. a \in Fresh
        BY <2>3, <2>10, <3>2
      <4>2. ASSUME NEW j \in Fresh, j <= a, Refused(k, j) PROVE FALSE
        <5>1. j \in 1 .. Len(Content[f])
          BY <2>3
        <5>2. written[Content[f][j]].who = file[f].last /\ Content[f] = file[f].lines
          BY <5>1, NamedIs DEF Sessions, Session
        <5> QED BY <4>2, <5>2, <1>1, <2>4 DEF Refused, Owned
      <4>3. a \in Accepted(k)
        BY <4>1, <4>2 DEF Accepted
      <4> QED BY <4>3, <2>1, <2>3, <2>10
    <3> QED BY <3>1, <3>2
  <2>11. CASE g # f
    <3>1. f \in Nat /\ g \in Nat
      BY FilesBelow
    <3>2. /\ Len(Content[f]) \in Nat /\ Content[g][a] \in Nat /\ Content[f][i] \in Nat
      <4>1. Len(written) \in Nat
        BY Sizes
      <4> QED BY <4>1, <2>4, NamedIs
    <3>3. ~(f < g)
      <4>1. f < g => Content[f][i] < Content[g][a]
        BY <2>4, <2>6 DEF Sessions, InTurn
      <4> QED BY <4>1, <3>2, <2>2
    <3>4. g \in 1 .. f - 1
      BY <2>11, <3>1, <3>3 DEF File
    <3>5. Named(g)
      <4>1. \E j \in 1 .. a : IsLogin(Content[g][j])
        BY DEF Sessions, Session
      <4> QED BY <4>1, <2>7 DEF Named
    <3>6. g \in sync.todo[k] \/ Through(k, g)
      <4>1. g \notin misread
        BY MissedIs
      <4> QED BY <2>3, <2>4, <2>6, <3>4, <3>5, <4>1 DEF Ahead
    <3>7. g \notin sync.todo[k]
      BY <2>3, <3>1, <3>4
    <3>8. Passed(k, g, a)
      BY <3>6, <3>7 DEF Through
    <3> QED BY <3>8, <2>1, <2>3, <2>9
  <2> QED BY <2>10, <2>11
<1> QED BY <1>3, <1>4

StoresHold == \A k \in Key : Unmixed(k) /\ Prefix(k) /\ MarkOf(k)

LEMMA MarkRead ==
  ASSUME JInv, JInv', Sessions, Faithful, Faithful', Course, Read, NEW x \in Key,
         Prefix(x), MarkOf(x)
  PROVE  MarkOf(x)'
<1>1. PICK k \in Key, f \in File : k = sync.key /\ f = sync.file
  BY ReadEffect
<1>2. /\ written' = written /\ mark' = mark /\ derived' = derived /\ Lines(x) \subseteq Lines(x)'
      /\ Content' = Content /\ misread' = misread
  BY <1>1, Taken
<1>3. /\ Derivable(x) = {t \in Lines(x) : IsPlay(t)}
      /\ Derivable(x)' = {t \in Lines(x)' : IsPlay(t)}
      /\ \A t : Missed(t)' <=> Missed(t)
      /\ Alien(x) \subseteq Alien(x)'
  <2>1. /\ Derivable(x) = {t \in Lines(x) : IsPlay(t)}
        /\ Derivable(x)' = {t \in Lines(x)' : IsPlay(t)}
    BY <1>2 DEF Derivable, Lines, IsPlay
  <2>2. \A t : Missed(t)' <=> Missed(t)
    BY <1>2 DEF Missed
  <2>3. Alien(x) \subseteq Alien(x)'
    BY <1>2 DEF Alien, IsLogin, IsPlay
  <2> QED BY <2>1, <2>2, <2>3
<1>4. mark[x] \in Nat
  BY JournalSyncAssumption DEF JInv, Applied
<1>5. ASSUME Alien(x)' = {}, NEW t \in Lines(x)', IsPlay(t), t <= mark[x], ~Missed(t)
      PROVE  t \in Lines(x)
  <2> SUFFICES ASSUME t \notin Lines(x) PROVE FALSE
    OBVIOUS
  <2>1. x = k
    BY <1>1, <1>5, Taken
  <2>2. PICK i \in Accepted(k) : t = Content[f][i]
    BY <1>1, <1>5, <2>1, Taken
  <2>3. i \in 1 .. Len(Content[f]) /\ f \notin misread
    <3>1. i \in 1 .. Len(Content[f])
      BY <1>1, <2>2, Taken DEF Accepted
    <3> QED BY <1>5, <2>2, <3>1, MissedIs
  <2>4. t \in 1 .. Len(written) /\ Len(written) \in Nat
    BY <2>2, <2>3, NamedIs, Sizes
  <2>5. mark[x] # 0 /\ mark[x] \in Lines(x) /\ IsPlay(mark[x])
    BY <1>3, <1>4, <1>5, <2>4 DEF MarkOf
  <2>6. CASE x \in Fid
    <3>1. written[mark[x]].who = x /\ written[t].who = x
      BY <2>5, <2>6, <1>2, <1>5 DEF Alien, IsPlay
    <3>2. t < mark[x]
      BY <1>4, <1>5, <2>4, <2>5
    <3> QED BY <3>1, <3>2, <2>4, <2>5, <1>5 DEF Prefix
  <2>7. CASE x \notin Fid
    <3>1. x = Placeholder /\ f \in sync.todo[Placeholder]
      BY <2>1, <2>7, <1>1, Taken DEF Key
    <3>2. Content[f][i] > mark[Placeholder]
      BY <3>1, <2>2, <2>3, <1>5 DEF Course, Later
    <3> QED BY <3>1, <3>2, <2>2, <2>4, <1>4, <1>5
  <2> QED BY <2>6, <2>7
<1>6. mark[x] # 0 => mark[x] \in Derivable(x)'
  BY <1>2, <1>3 DEF MarkOf
<1>7. ASSUME Alien(x)' = {}, NEW t \in Derivable(x)', t <= mark[x], ~Missed(t)
      PROVE  t \in derived[x]
  <2>1. t \in Derivable(x)
    BY <1>3, <1>5, <1>7
  <2> QED BY <2>1, <1>3, <1>7 DEF MarkOf
<1> QED BY <1>2, <1>3, <1>6, <1>7 DEF MarkOf

LEMMA MarkDerive ==
  ASSUME JInv, Derive, NEW k \in Key, MarkOf(k)
  PROVE  MarkOf(k)'
<1>1. UNCHANGED <<folder, rows, written, misread>>
  BY DEF Derive, folder
<1>2. /\ Derivable(k)' = Derivable(k) /\ Alien(k)' = Alien(k)
      /\ \A t : Missed(t)' <=> Missed(t)
  <2>1. Lines(k)' = Lines(k) /\ Content' = Content
    BY <1>1, Untouched DEF Lines
  <2> QED BY <1>1, <2>1 DEF Derivable, Alien, Missed, IsLogin, IsPlay
<1>3. CASE k \notin stores
  <2>1. mark'[k] = mark[k] /\ derived'[k] = derived[k]
    BY <1>3 DEF Derive
  <2> QED BY <2>1, <1>2 DEF MarkOf
<1>4. CASE k \in stores
  <2>1. mark'[k] = NewMark(k) /\ derived'[k] = derived[k] \cup After(k)
    BY <1>4 DEF Derive
  <2>2. PICK S : S = After(k) \cup {mark[k]}
    OBVIOUS
  <2>3. /\ \A t \in Derivable(k) : t \in 1 .. Len(written)
        /\ Len(written) \in Nat /\ Len(written) <= MaxLines /\ MaxLines \in Nat
        /\ mark[k] \in 0 .. MaxLines
    BY LinesAre, Sizes DEF Derivable, Lines, JInv, Applied
  <2>4. S \subseteq Nat /\ S # {} /\ \A t \in S : t <= MaxLines
    BY <2>2, <2>3 DEF After
  <2>5. Max(S) \in S /\ \A t \in S : t <= Max(S)
    BY <2>3, <2>4, MaxOf
  <2>6. mark'[k] \in S
    BY <2>1, <2>2, <2>5 DEF NewMark
  <2>7. mark'[k] # 0 => mark'[k] \in Derivable(k)
    BY <2>2, <2>6 DEF MarkOf, After
  <2>8. ASSUME NEW t \in Derivable(k) PROVE t <= mark[k] \/ t \in After(k)
    BY <2>3 DEF After
  <2> QED BY <1>2, <2>1, <2>7, <2>8 DEF MarkOf
<1> QED BY <1>3, <1>4

LEMMA HoldKept ==
  ASSUME UNCHANGED <<written, rows, mark, derived>>, NEW k \in Key, Unmixed(k), Prefix(k), MarkOf(k),
         \A t : Missed(t) => Missed(t)'
  PROVE  Unmixed(k)' /\ Prefix(k)' /\ MarkOf(k)'
<1>1. Lines(k)' = Lines(k) /\ Derivable(k)' = Derivable(k)
  BY DEF Lines, Derivable
<1>2. Alien(k)' = Alien(k)
  BY <1>1 DEF Alien, IsLogin, IsPlay
<1>3. Unmixed(k)'
  BY <1>2 DEF Unmixed
<1>4. Prefix(k)'
  BY <1>1 DEF Prefix, IsPlay
<1>5. MarkOf(k)'
  BY <1>1, <1>2 DEF MarkOf
<1> QED BY <1>3, <1>4, <1>5

LEMMA HoldGame ==
  ASSUME JInv, GameStep, NEW k \in Key, Unmixed(k), Prefix(k), MarkOf(k),
         \A t : Missed(t) => Missed(t)'
  PROVE  Unmixed(k)' /\ Prefix(k)' /\ MarkOf(k)'
<1>1. /\ \A t \in 1 .. Len(written) : written'[t] = written[t]
      /\ Len(written) \in Nat /\ Len(written) <= Len(written') /\ Len(written') \in Nat
      /\ UNCHANGED <<rows, mark, derived>>
  <2>1. JInv' /\ UNCHANGED <<rows, mark, derived>>
    BY GameOk
  <2>2. Len(written') \in Nat
    BY <2>1, LenProperties DEF JInv, Folder, FolderTypes
  <2> QED BY <2>1, <2>2, Lasting, Sizes
<1>2. Lines(k)' = Lines(k) /\ \A t \in Lines(k) : t \in 1 .. Len(written)
  BY <1>1, LinesAre DEF Lines
<1>3. \A t \in 1 .. Len(written) :
        /\ written'[t].who = written[t].who
        /\ IsLogin(t)' <=> IsLogin(t)
        /\ IsPlay(t)' <=> IsPlay(t)
  BY <1>1 DEF IsLogin, IsPlay
<1>4. Alien(k)' = Alien(k)
  BY <1>2, <1>3 DEF Alien
<1>5. Unmixed(k)'
  BY <1>4 DEF Unmixed
<1>6. Prefix(k)'
  <2> SUFFICES ASSUME NEW t \in Lines(k), NEW s \in 1 .. Len(written'), s < t,
                      IsPlay(s)', IsPlay(t)', written'[s].who = written'[t].who,
                      k \in Fid => written'[t].who = k
               PROVE  s \in Lines(k) \/ Missed(s)'
    BY <1>2 DEF Prefix
  <2>1. s \in 1 .. Len(written) /\ t \in 1 .. Len(written)
    BY <1>1, <1>2
  <2> QED BY <2>1, <1>3 DEF Prefix
<1>7. Derivable(k)' = Derivable(k)
  BY <1>2, <1>3 DEF Derivable, Lines, IsPlay
<1>8. MarkOf(k)'
  BY <1>1, <1>4, <1>7 DEF MarkOf
<1> QED BY <1>5, <1>6, <1>8

\* The placeholder's store, when it is handed to the one commander it met.
LEMMA HandedOver ==
  ASSUME JInv, OwnFiles, Sessions, Faithful, NEW t \in Lines(Placeholder),
         IsLogin(t) \/ IsPlay(t)
  PROVE  written[t].who \in Met
<1>0. Placeholder \in Key /\ Placeholder \notin Fid
  BY TodoIs
<1>1. PICK f \in File : \E i \in 1 .. Len(Content[f]) :
           Content[f][i] = t /\ \A j \in 1 .. i : Passed(Placeholder, f, j)
  BY <1>0, RowsAre
<1> PICK i \in 1 .. Len(Content[f]) :
           Content[f][i] = t /\ \A j \in 1 .. i : Passed(Placeholder, f, j)
  BY <1>1
<1>2. PICK j \in 1 .. i : IsLogin(Content[f][j])
  BY NamedIs DEF Sessions, Session
<1>3. j \in 1 .. Len(Content[f])
  BY NamedIs
<1>4. Content[f][j] \in Lines(Placeholder)
  BY <1>0, <1>3 DEF Faithful, FaithfulTo, Sessions, Session, Strange
<1>5. PICK r \in rows[Placeholder] : r.line = Content[f][j]
  BY <1>4 DEF Lines
<1>6. written[Content[f][j]].who = written[t].who
  BY <1>3 DEF Sessions, Session
<1> QED BY <1>2, <1>5, <1>6 DEF Met

LEMMA HoldRestart ==
  ASSUME JInv, OwnFiles, Sessions, Faithful, Restart, NEW k \in Key, StoresHold
  PROVE  Unmixed(k)' /\ Prefix(k)' /\ MarkOf(k)'
<1>1. /\ rows' = Handed(rows, {}) /\ mark' = Handed(mark, 0) /\ derived' = Handed(derived, {})
      /\ written' = written /\ \A t : Missed(t)' <=> Missed(t)
  <2>1. UNCHANGED <<folder, written, misread>>
    BY DEF Restart, folder
  <2>2. Content' = Content
    BY <2>1, Untouched
  <2> QED BY <2>1, <2>2 DEF Restart, Missed
<1>2. ASSUME NEW j \in {k, Placeholder}, rows'[k] = rows[j], mark'[k] = mark[j], derived'[k] = derived[j],
             Unmixed(k)', Alien(k)' = {} => Alien(j) = {}
      PROVE  Unmixed(k)' /\ Prefix(k)' /\ MarkOf(k)'
  <2>1. Prefix(j) /\ MarkOf(j)
    BY <1>2, TodoIs DEF StoresHold
  <2>2. Lines(k)' = Lines(j) /\ Derivable(k)' = Derivable(j)
    BY <1>1, <1>2 DEF Lines, Derivable
  <2>3. Prefix(k)'
    BY <1>1, <1>2, <2>1, <2>2, TodoIs DEF Prefix, IsPlay
  <2>4. MarkOf(k)'
    BY <1>1, <1>2, <2>1, <2>2 DEF MarkOf
  <2> QED BY <1>2, <2>3, <2>4
<1>3. CASE rows'[k] = {} /\ mark'[k] = 0 /\ derived'[k] = {}
  <2>1. Lines(k)' = {} /\ Derivable(k)' = {}
    BY <1>3 DEF Lines, Derivable
  <2> QED BY <1>3, <2>1 DEF Unmixed, Alien, Prefix, MarkOf
<1>4. CASE rows'[k] = rows[k] /\ mark'[k] = mark[k] /\ derived'[k] = derived[k]
  <2>1. Alien(k)' = Alien(k)
    BY <1>1, <1>4 DEF Alien, Lines, IsLogin, IsPlay
  <2>2. Unmixed(k)'
    BY <1>1, <2>1 DEF StoresHold, Unmixed
  <2> QED BY <1>2, <1>4, <2>1, <2>2
<1>5. CASE /\ rows'[k] = rows[Placeholder] /\ mark'[k] = mark[Placeholder]
           /\ derived'[k] = derived[Placeholder] /\ Met = {k}
  <2>1. Lines(k)' = Lines(Placeholder)
    BY <1>5 DEF Lines
  <2>2. Alien(k)' = {}
    BY <2>1, <1>1, <1>5, HandedOver DEF Alien, IsLogin, IsPlay
  <2>3. Unmixed(k)' /\ Alien(Placeholder) = {}
    BY <2>2, TodoIs DEF Unmixed, Alien
  <2> QED BY <1>2, <1>5, <2>3
<1>6. \/ rows'[k] = {} /\ mark'[k] = 0 /\ derived'[k] = {}
      \/ rows'[k] = rows[k] /\ mark'[k] = mark[k] /\ derived'[k] = derived[k]
      \/ /\ rows'[k] = rows[Placeholder] /\ mark'[k] = mark[Placeholder]
         /\ derived'[k] = derived[Placeholder] /\ Met = {k}
  <2>1. CASE ~(Legacy /\ Met # {})
    BY <2>1, <1>1 DEF Handed
  <2>2. CASE Legacy /\ Met # {} /\ Met = {k}
    BY <2>2, <1>1 DEF Handed
  <2>3. CASE Legacy /\ Met # {} /\ Met # {k}
    BY <2>3, <1>1 DEF Handed
  <2> QED BY <2>1, <2>2, <2>3
<1> QED BY <1>3, <1>4, <1>5, <1>6

LEMMA HoldStep ==
  ASSUME JInv, JInv', OwnFiles, Sessions, Sessions', Faithful, Faithful', Course, StoresHold, [Next]_vars
  PROVE  StoresHold'
<1> SUFFICES ASSUME NEW k \in Key PROVE Unmixed(k)' /\ Prefix(k)' /\ MarkOf(k)'
  BY DEF StoresHold
<1>0. /\ Unmixed(k) /\ Prefix(k) /\ MarkOf(k)
      /\ \A t : Missed(t) => Missed(t)'
  BY MissedStays DEF StoresHold
<1>1. CASE GameStep
  BY <1>0, <1>1, HoldGame
<1>2. CASE SyncStart \/ (\E x \in Key, f \in File : Stat(x, f)) \/ SyncFails \/ UNCHANGED vars
  <2>1. UNCHANGED <<written, rows, mark, derived>>
    <3>1. SyncStart \/ SyncFails => UNCHANGED <<written, rows, mark, derived>>
      BY DEF SyncStart, SyncStartWithout, SyncFails, folder, db
    <3>2. (\E x \in Key, f \in File : Stat(x, f)) => UNCHANGED <<written, rows, mark, derived>>
      BY DEF Stat, folder, db
    <3>3. UNCHANGED vars => UNCHANGED <<written, rows, mark, derived>>
      BY DEF vars
    <3> QED BY <1>2, <3>1, <3>2, <3>3
  <2> QED BY <1>0, <2>1, HoldKept
<1>3. CASE Read
  <2>1. Unmixed(k)' /\ Prefix(k)'
    BY <1>0, <1>3, UnmixedRead, PrefixRead
  <2> QED BY <1>0, <1>3, <2>1, MarkRead
<1>4. CASE Derive
  <2>1. written' = written /\ rows' = rows
    BY <1>4 DEF Derive, folder
  <2>2. Lines(k)' = Lines(k) /\ Alien(k)' = Alien(k)
    BY <2>1 DEF Lines, Alien, IsLogin, IsPlay
  <2>3. Unmixed(k)' /\ Prefix(k)'
    BY <2>1, <2>2, <1>0 DEF Unmixed, Prefix, IsPlay
  <2> QED BY <1>0, <1>4, <2>3, MarkDerive
<1>5. CASE Restart
  BY <1>5, HoldRestart
<1> QED BY <1>1, <1>2, <1>3, <1>4, <1>5 DEF Next, SyncStep

LEMMA HoldStart == Init => StoresHold
<1> SUFFICES ASSUME Init, NEW k \in Key PROVE Unmixed(k) /\ Prefix(k) /\ MarkOf(k)
  BY DEF StoresHold
<1>1. rows[k] = {} /\ mark[k] = 0
  BY DEF Init
<1>2. Lines(k) = {} /\ Derivable(k) = {}
  BY <1>1 DEF Lines, Derivable
<1> QED BY <1>1, <1>2 DEF Unmixed, Alien, Prefix, MarkOf

OwnInv == Sessions /\ Rightly /\ Course /\ StoresHold

LEMMA AlwaysOwn ==
  ASSUME OwnFiles
  PROVE  Spec => []OwnInv
<1>1. ASSUME JInv, JInv', Faithful, Faithful', OwnInv, [Next]_vars PROVE OwnInv'
  <2>1. Placeholder \in Key /\ Sessions /\ Rightly /\ Course /\ StoresHold
    BY <1>1 DEF OwnInv, Key
  <2>2. MarkOf(Placeholder)
    BY <2>1 DEF StoresHold
  <2>3. Sessions'
    BY <1>1, <2>1, SessionsStep
  <2>4. Rightly'
    BY <1>1, <2>1, RightlyStep
  <2>5. Course'
    BY <1>1, <2>1, <2>2, CourseStep
  <2>6. StoresHold'
    BY <1>1, <2>1, <2>3, HoldStep
  <2> QED BY <2>3, <2>4, <2>5, <2>6 DEF OwnInv
<1>2. Init => OwnInv
  BY SessionsStart, RightlyStart, CourseInit, HoldStart DEF OwnInv
<1> QED BY <1>1, <1>2, Always, AlwaysFaithful, PTL DEF Spec

\* In such a folder a line missed by a store's row is in the row's own file.
LEMMA MissedRow ==
  ASSUME JInv, Faithful, Sessions, NEW k \in Key, NEW r \in rows[k], Missed(r.line)
  PROVE  r.file \in misread
<1>1. r.file \in File /\ FaithfulTo(k, r.file)
  BY DEF JInv, Stored, Entry, Faithful, Sessions, Session
<1>2. Current(r, Content)
  BY <1>1 DEF FaithfulTo
<1>3. PICK f \in misread : \E i \in 1 .. Len(Content[f]) : Content[f][i] = r.line
  BY DEF Missed
<1>4. f \in File /\ FolderOk(Content, Len(written))
  BY Sizes DEF JInv, Known
<1>5. f = r.file
  BY <1>1, <1>2, <1>3, <1>4 DEF Current, FolderOk
<1> QED BY <1>3, <1>5

\* Foreign rows and their lines.
LEMMA ForeignIs ==
  ASSUME NEW k \in Fid
  PROVE  /\ \A r \in Foreign(k) : r \in rows[k] /\ r.line \in Alien(k)
         /\ Foreign(k) = {} => Alien(k) = {}
BY DEF Foreign, Alien, Lines, IsLogin, IsPlay

\* Where each launch opens a file of its own and no file passes to another
\* commander, a commander's store never holds another commander's session: not by
\* a visit to the menu classed as the only commander's, not by the placeholder's
\* store handed over at a restart (Registry::sync_all and migrate_legacy in ed-store
\* registry.rs, the refusal of foreign_fid in ingest.rs).  The exception is a file
\* whose owner a sync failed to read: it passes for a visit to the menu.
THEOREM SessionsAreNotBlended ==
  ASSUME OwnFiles
  PROVE  Spec => []NoBlend
<1>1. ASSUME JInv, Faithful, OwnInv PROVE NoBlend
  <2> SUFFICES ASSUME NEW k \in Fid, NEW r \in Foreign(k) PROVE r.file \in misread
    BY DEF NoBlend
  <2>1. k \in Key /\ r \in rows[k] /\ r.line \in Alien(k)
    BY ForeignIs DEF Key
  <2>2. Missed(r.line)
    BY <1>1, <2>1 DEF OwnInv, StoresHold, Unmixed
  <2> QED BY <1>1, <2>1, <2>2, MissedRow DEF OwnInv
<1> QED BY <1>1, Always, AlwaysFaithful, AlwaysOwn, PTL

\* In such a folder nothing slips in behind the derivation's watermark of a store that
\* has its own commander's events only: when it takes one, it has all the older ones
\* already, although the files are read one by one, syncs fail between them and the
\* game writes on (derive_from in ed-store derive.rs, the file order of sync_all).
\* The exception is again a file whose owner could not be read once: skipped while
\* a newer file is derived, it is taken later.
THEOREM MarkIsABoundary ==
  ASSUME OwnFiles
  PROVE  Spec => []NothingBehindTheMark
<1>1. ASSUME JInv, Faithful, OwnInv PROVE NothingBehindTheMark
  <2> SUFFICES ASSUME NEW k \in Fid, Foreign(k) = {}, NEW r \in rows[k],
                      written[r.line].kind = "play", r.line <= mark[k]
               PROVE  r.line \in derived[k] \/ r.file \in misread
    BY DEF NothingBehindTheMark
  <2>1. k \in Key /\ Alien(k) = {} /\ r.line \in Derivable(k)
    BY ForeignIs DEF Key, Derivable
  <2>2. r.line \in derived[k] \/ Missed(r.line)
    BY <1>1, <2>1 DEF OwnInv, StoresHold, MarkOf
  <2> QED BY <1>1, <2>1, <2>2, MissedRow DEF OwnInv
<1> QED BY <1>1, Always, AlwaysFaithful, AlwaysOwn, PTL
=============================================================================
