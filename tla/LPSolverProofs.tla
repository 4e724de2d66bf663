---------------------------- MODULE LPSolverProofs ----------------------------
(***************************************************************************)
(* The solution cache of LPSolver, which all solvers share and which the   *)
(* flow problems use too: it keeps within its limit, and what a call       *)
(* answers is about the problem it was asked about.  First what a run of a *)
(* program does to the files, then what the cache knows of them.           *)
(***************************************************************************)
EXTENDS MultiCommodityFlow, DataInduction

\* Records are what their fields say: of the objects ...
IsObject(s) ==
  /\ s = [type |-> s.type, problemFile |-> s.problemFile, problemFormat |-> s.problemFormat,
          solutionFile |-> s.solutionFile, solution |-> s.solution, cacheSize |-> s.cacheSize]
  /\ s.type \in Types /\ s.cacheSize \in Nat
\* ... and of what a run leaves.
IsResult(w) ==
  /\ w = Result(w.solver, w.files, w.temps, w.known, w.status)
  /\ IsObject(w.solver)

\* What a solution with that status may say of a problem: nothing, or what is so.
Fits(status, x, p) ==
  \/ x.of = Missing
  \/ /\ x.of = p
     /\ status = "OPTIMAL" =>
           \E a \in Optimal(p) : \A i \in DOMAIN p.columns : ColumnValue(x, i) = a[i]
     /\ status = "INFEASIBLE" => Feasible(p) = {}

\* The file of a solution that is right.
Answers(c, status, p) ==
  /\ c # Missing /\ c.of = p /\ c.status = status
  /\ status = "OPTIMAL" => c.values \in Optimal(p)
  /\ status = "INFEASIBLE" => Feasible(p) = {}

\* What is read of it is nothing or is right, and has its status.
LEMMA ReadFits ==
  ASSUME NEW type \in Types, NEW c, NEW p, NEW status, Answers(c, status, p),
         NEW x \in ReadBasicSolution(type, c)
  PROVE  /\ Fits(status, x, p)
         /\ c.kind = "solution" /\ c.format = FormatOf(type) => x.status = status
<1>1. CASE c.kind # "solution" \/ c.format # FormatOf(type)
  BY <1>1 DEF ReadBasicSolution, Empty, Foreign, Throws, Solution, Answers, Fits
<1>2. CASE ~(c.kind # "solution" \/ c.format # FormatOf(type))
  <2>1. x \in ReadGlpk(c) \cup ReadCbc(c) \cup ReadClp(c) \cup ReadScip(c)
    BY <1>2 DEF ReadBasicSolution, Answers, Types
  <2>2. /\ x.status = status /\ x.of = p
        /\ status # "INFEASIBLE" => x.values = c.values
             \/ x.values = [i \in {j \in DOMAIN c.values : c.values[j] # 0} |-> c.values[i]]
    BY <2>1 DEF ReadGlpk, ReadCbc, ReadClp, ReadScip, Feasibly, Solution, Answers
  <2>3. ASSUME status = "OPTIMAL"
        PROVE  \A i \in DOMAIN p.columns : ColumnValue(x, i) = c.values[i]
    <3>1. c.values \in Optimal(p) BY <2>3 DEF Answers
    <3>2. DOMAIN c.values = DOMAIN p.columns BY <3>1 DEF Optimal, Feasible, Assignments
    <3> QED BY <2>2, <2>3, <3>2 DEF ColumnValue
  <2>4. status = "OPTIMAL" => c.values \in Optimal(p) BY DEF Answers
  <2>5. status = "INFEASIBLE" => Feasible(p) = {} BY DEF Answers
  <2> QED BY <2>2, <2>3, <2>4, <2>5 DEF Fits
<1> QED BY <1>1, <1>2

\* Of a file that is not there nothing is read.
LEMMA ReadMissing ==
  ASSUME NEW type \in Types, NEW x \in ReadBasicSolution(type, Missing)
  PROVE  x.of = Missing
BY DEF ReadBasicSolution, Empty, Solution

\* What a program writes answers the problem in the file it is given.
LEMMA WritesAnswer ==
  ASSUME NEW type \in Types, NEW contents, NEW c \in ProgramWrites(type, contents), c # Missing
  PROVE  /\ contents # Missing /\ contents.kind = "problem"
         /\ c.kind = "solution" /\ c.format = FormatOf(type)
         /\ Answers(c, c.status, contents.problem)
<1>1. contents # Missing /\ contents.kind = "problem" BY DEF ProgramWrites
<1> DEFINE p == contents.problem
<1>2. CASE Feasible(p) = {}
  <2>1. c = SolutionFile(type, "INFEASIBLE", p, [i \in DOMAIN p.columns |-> 0])
    BY <1>1, <1>2 DEF ProgramWrites
  <2> QED BY <1>1, <1>2, <2>1 DEF SolutionFile, Answers
<1>3. CASE Feasible(p) # {}
  <2>1. PICK a \in Optimal(p) : c = SolutionFile(type, "OPTIMAL", p, a)
    BY <1>1, <1>3 DEF ProgramWrites
  <2> QED BY <1>1, <2>1 DEF SolutionFile, Answers
<1> QED BY <1>2, <1>3

Given(w) == ContentsOf(w.files, w.solver.problemFile)

\* What r is after the program has run for w: it answers the problem it was
\* given, if at all, and writes nothing but the file of the solution.
Ran(w, r) ==
  /\ IsResult(r) /\ r.temps = w.temps /\ r.known = w.known
  /\ r.solver = [w.solver EXCEPT !.solution = r.solver.solution]
  /\ \/ r.files = w.files
     \/ \E c : /\ c \in ProgramWrites(w.solver.type, Given(w)) /\ c # Missing
               /\ r.files = Over(Entry(w.solver.solutionFile, c), w.files)
               /\ r.status \in {"throws", c.status}
  /\ r.status = "throws" \/ Fits(r.status, r.solver.solution, Given(w).problem)

\* A run of the program on the file the object names does that, for each type.
LEMMA RunOnNamedFileRuns ==
  ASSUME NEW w, IsResult(w), NEW r \in RunOnNamedFile(w)
  PROVE  Ran(w, r)
<1>0. w.solver.type \in Types BY DEF IsResult, IsObject
<1>1. CASE r = [w EXCEPT !.status = "throws"]
  BY <1>1 DEF IsResult, Result, IsObject, Ran
<1>2. ASSUME NEW c \in ProgramWrites(w.solver.type, Given(w)),
             NEW x \in ReadBasicSolution(w.solver.type, c),
             r = [w EXCEPT !.solver.solution = IF x.status = "throws" THEN @ ELSE x,
                    !.files = IF c = Missing THEN @ ELSE Over(Entry(w.solver.solutionFile, c), @),
                    !.status = x.status]
      PROVE  Ran(w, r)
  <2>1. /\ r.temps = w.temps /\ r.known = w.known /\ r.status = x.status
        /\ r.solver = [w.solver EXCEPT !.solution = IF x.status = "throws" THEN @ ELSE x]
        /\ r.files = IF c = Missing THEN w.files ELSE Over(Entry(w.solver.solutionFile, c), w.files)
        /\ r = Result(r.solver, r.files, r.temps, r.known, r.status)
    BY <1>2 DEF IsResult, Result
  <2>2. IsObject(r.solver) /\ r.solver.solution = IF x.status = "throws" THEN w.solver.solution ELSE x
    BY <2>1 DEF IsResult, IsObject
  <2>3. r.solver = [w.solver EXCEPT !.solution = r.solver.solution]
    BY <2>1, <2>2 DEF IsResult, IsObject
  <2>4. c # Missing => /\ Answers(c, c.status, Given(w).problem)
                       /\ Fits(x.status, x, Given(w).problem) /\ x.status = c.status
    <3> SUFFICES ASSUME c # Missing
                 PROVE  /\ Answers(c, c.status, Given(w).problem)
                        /\ Fits(x.status, x, Given(w).problem) /\ x.status = c.status
      OBVIOUS
    <3>1. Answers(c, c.status, Given(w).problem) /\ c.kind = "solution" /\ c.format = FormatOf(w.solver.type)
      BY <1>0, <1>2, WritesAnswer
    <3>2. Fits(c.status, x, Given(w).problem) /\ x.status = c.status
      BY <1>0, <1>2, <3>1, ReadFits
    <3> QED BY <3>1, <3>2
  <2>5. r.status = "throws" \/ Fits(r.status, r.solver.solution, Given(w).problem)
    <3>1. CASE c = Missing
      <4>1. x.of = Missing BY <1>0, <1>2, <3>1, ReadMissing
      <4> QED BY <2>1, <2>2, <4>1 DEF Fits
    <3>2. CASE c # Missing BY <2>1, <2>2, <2>4, <3>2
    <3> QED BY <3>1, <3>2
  <2>6. \/ r.files = w.files
        \/ \E d : /\ d \in ProgramWrites(w.solver.type, Given(w)) /\ d # Missing
                  /\ r.files = Over(Entry(w.solver.solutionFile, d), w.files)
                  /\ r.status \in {"throws", d.status}
    BY <1>2, <2>1, <2>4
  <2> QED BY <2>1, <2>2, <2>3, <2>5, <2>6 DEF IsResult, Ran
<1>3. CASE w.solver.type \in installed
  <2> DEFINE done(x) == [w EXCEPT !.solver.solution = IF x[2].status = "throws" THEN @ ELSE x[2],
                    !.files = IF x[1] = Missing THEN @ ELSE Over(Entry(w.solver.solutionFile, x[1]), @),
                    !.status = x[2].status]
         pairs == UNION {{c} \X ReadBasicSolution(w.solver.type, c) :
                           c \in ProgramWrites(w.solver.type, Given(w))}
  <2>1. RunOnNamedFile(w) = {done(x) : x \in pairs}
    BY <1>3 DEF RunOnNamedFile, Given
  <2>2. PICK x \in pairs : r = done(x)
    <3> HIDE DEF done, pairs
    <3> QED BY <2>1
  <2>3. x[1] \in ProgramWrites(w.solver.type, Given(w)) /\ x[2] \in ReadBasicSolution(w.solver.type, x[1])
    BY <2>2
  <2> QED BY <1>2, <2>2, <2>3
<1> QED BY <1>1, <1>3 DEF RunOnNamedFile

\* run(): the solution gets a new name.
RanProgram(w, r) ==
  /\ IsResult(r) /\ r.temps = w.temps + 1 /\ r.known = w.known
  /\ r.solver = [w.solver EXCEPT !.solution = r.solver.solution, !.solutionFile = Temp(w.temps + 1)]
  /\ \/ r.files = w.files
     \/ \E c : /\ c \in ProgramWrites(w.solver.type, Given(w)) /\ c # Missing
               /\ r.files = Over(Entry(Temp(w.temps + 1), c), w.files)
               /\ r.status \in {"throws", c.status}
  /\ r.status = "throws" \/ Fits(r.status, r.solver.solution, Given(w).problem)

\* And so does a run whose file does not have the extension the program wants:
\* the program is given a copy of it under a new name.
LEMMA RunProgramRuns ==
  ASSUME NEW w, IsResult(w), NEW r \in RunProgram(w)
  PROVE  RanProgram(w, r)
<1>1. PICK v : /\ v = [w EXCEPT !.temps = @ + 1, !.solver.solutionFile = Temp(w.temps + 1)]
               /\ r \in RunOnNamedFile(v)
  BY DEF RunProgram
<1>2. /\ v.temps = w.temps + 1 /\ v.known = w.known /\ v.files = w.files
      /\ v.solver = [w.solver EXCEPT !.solutionFile = Temp(w.temps + 1)]
      /\ v = Result(v.solver, v.files, v.temps, v.known, v.status)
  BY <1>1 DEF IsResult, Result
<1>3. /\ IsObject(v.solver) /\ v.solver.type = w.solver.type /\ v.solver.solutionFile = Temp(w.temps + 1)
      /\ v.solver.problemFile = w.solver.problemFile
  BY <1>2 DEF IsResult, IsObject
<1>4. IsResult(v) BY <1>2, <1>3 DEF IsResult
<1>5. Ran(v, r) BY <1>1, <1>4, RunOnNamedFileRuns
<1>6. Given(v) = Given(w) BY <1>2, <1>3 DEF Given
<1>7. r.solver = [w.solver EXCEPT !.solution = r.solver.solution, !.solutionFile = Temp(w.temps + 1)]
  BY <1>2, <1>5 DEF Ran, IsResult, IsObject
<1> QED BY <1>2, <1>3, <1>5, <1>6, <1>7 DEF Ran, RanProgram

-----------------------------------------------------------------------------
(* The cache.                                                                  *)

\* The file of a solution in the cache has a temporary name that was given, and
\* if it is there it answers the problem whose checksum leads to it.
Cached(known, fs, n) ==
  \A k \in DOMAIN known : \E i \in 1 .. n :
     /\ known[k].filename = Temp(i)
     /\ Temp(i) \in DOMAIN fs => Answers(fs[Temp(i)], known[k].status, k.problem)

\* Names that were not given are not used.
Unused(fs, n) == \A i \in 1 .. MaxTemps : i > n => Temp(i) \notin DOMAIN fs

SameBut(name, fs, gs) ==
  \A f : f # name => /\ f \in DOMAIN gs <=> f \in DOMAIN fs
                     /\ f \in DOMAIN fs => gs[f] = fs[f]

\* An entry that is written is there, and no other changes.
LEMMA OverEntry ==
  ASSUME NEW f, NEW k, NEW v
  PROVE  /\ DOMAIN Over(Entry(k, v), f) = DOMAIN f \cup {k}
         /\ Over(Entry(k, v), f)[k] = v
         /\ \A x \in DOMAIN f : x # k => Over(Entry(k, v), f)[x] = f[x]
         /\ SameBut(k, f, Over(Entry(k, v), f))
BY DEF Over, Entry, SameBut

\* A new file under a new name, or a file that goes, leaves the cache as good.
LEMMA CachedStays ==
  ASSUME NEW known, NEW fs, NEW gs, NEW n \in Nat, NEW m \in Nat, n <= m,
         Cached(known, fs, n),
         \A i \in 1 .. n : Temp(i) \in DOMAIN gs => Temp(i) \in DOMAIN fs /\ gs[Temp(i)] = fs[Temp(i)]
  PROVE  Cached(known, gs, m)
BY DEF Cached

\* No name is given to two temporary files.
LEMMA TempsDiffer == \A i, j \in Nat : Temp(i) = Temp(j) => i = j
BY DEF Temp

\* A solution from the cache, for a key, leaves all but the solver as it is.
FromCache(w, key, r) ==
  /\ IsResult(r) /\ r.temps = w.temps /\ r.known = w.known /\ r.files = w.files
  /\ r.solver = [w.solver EXCEPT !.solution = r.solver.solution]
  /\ r.status = w.status \/ Fits(r.status, r.solver.solution, key.problem)

\* What is loaded from the cache is what was registered with the key.
LEMMA LoadKnownSolutionLoads ==
  ASSUME NEW w, IsResult(w), w.temps \in Nat, Cached(w.known, w.files, w.temps),
         NEW key \in DOMAIN w.known, NEW r \in LoadKnownSolution(w, key)
  PROVE  FromCache(w, key, r)
<1> DEFINE f == w.known[key].filename
           c == ContentsOf(w.files, f)
<1>0. w.solver.type \in Types /\ w.solver = [w.solver EXCEPT !.solution = w.solver.solution]
  BY DEF IsResult, IsObject
<1>1. CASE r = w BY <1>0, <1>1 DEF FromCache
<1>2. CASE r # w
  <2>1. PICK v \in WithSolution(w, f) : r = [v EXCEPT !.status = w.known[key].status]
    BY <1>2 DEF LoadKnownSolution
  <2>2. PICK x \in ReadBasicSolution(w.solver.type, c) : v = [w EXCEPT !.solver.solution = x]
    BY <2>1 DEF WithSolution
  <2>3. /\ v.temps = w.temps /\ v.known = w.known /\ v.files = w.files
        /\ v.solver = [w.solver EXCEPT !.solution = x]
        /\ v = Result(v.solver, v.files, v.temps, v.known, v.status)
    BY <2>2 DEF IsResult, Result
  <2>4. /\ r.temps = w.temps /\ r.known = w.known /\ r.files = w.files /\ r.solver = v.solver
        /\ r = Result(r.solver, r.files, r.temps, r.known, r.status)
    BY <2>1, <2>3 DEF Result
  <2>5. IsObject(r.solver) /\ r.solver.solution = x
    BY <2>3, <2>4 DEF IsResult, IsObject
  <2>6. Fits(w.known[key].status, x, key.problem)
    <3>1. f \in DOMAIN w.files => Answers(c, w.known[key].status, key.problem) BY DEF Cached, ContentsOf
    <3>2. f \notin DOMAIN w.files => c = Missing BY DEF ContentsOf
    <3> HIDE DEF f, c
    <3>3. CASE f \in DOMAIN w.files BY <1>0, <2>2, <3>1, <3>3, ReadFits
    <3>4. CASE f \notin DOMAIN w.files
      <4>1. x.of = Missing BY <1>0, <2>2, <3>2, <3>4, ReadMissing
      <4> QED BY <4>1 DEF Fits
    <3> QED BY <3>3, <3>4
  <2>7. r.status = w.known[key].status BY <2>1, <2>3 DEF Result
  <2> QED BY <2>3, <2>4, <2>5, <2>6, <2>7 DEF FromCache, IsResult
<1> QED BY <1>1, <1>2

\* After registering, the cache holds at most one solution more than the limit.
LEMMA Registered ==
  ASSUME NEW r, IsResult(r), IsFiniteSet(DOMAIN r.known), NEW key
  PROVE  /\ IsFiniteSet(DOMAIN RegisterSolution(r, key))
         /\ Cardinality(DOMAIN RegisterSolution(r, key)) <= 1 + r.solver.cacheSize
<1> DEFINE kept == RoomMade(r.solver, r.known)
<1>1. r.solver.cacheSize \in Nat BY DEF IsResult, IsObject
<1>2. IsFiniteSet(DOMAIN kept) /\ Cardinality(DOMAIN kept) <= r.solver.cacheSize
      /\ Cardinality(DOMAIN kept) \in Nat
  <2>1. CASE Cardinality(DOMAIN r.known) > r.solver.cacheSize
    <3>1. DOMAIN kept = {} BY <2>1 DEF RoomMade
    <3> QED BY <1>1, <3>1, FS_EmptySet
  <2>2. CASE ~(Cardinality(DOMAIN r.known) > r.solver.cacheSize)
    <3>1. kept = r.known BY <2>2 DEF RoomMade
    <3>2. Cardinality(DOMAIN r.known) \in Nat BY FS_CardinalityType
    <3> QED BY <1>1, <2>2, <3>1, <3>2
  <2> QED BY <2>1, <2>2
<1>3. DOMAIN RegisterSolution(r, key) = DOMAIN kept \cup {key}
  BY DEF RegisterSolution, Over, Entry
<1> HIDE DEF kept
<1>4. /\ IsFiniteSet(DOMAIN kept \cup {key})
      /\ Cardinality(DOMAIN kept \cup {key}) = IF key \in DOMAIN kept THEN Cardinality(DOMAIN kept)
                                               ELSE Cardinality(DOMAIN kept) + 1
  BY <1>2, FS_AddElement
<1> QED BY <1>1, <1>2, <1>3, <1>4

\* A call of run may begin: the state of the solver, the files and the cache.
Ready(w, f) ==
  /\ IsResult(w) /\ w.status = "UNKNOWN" /\ w.temps \in Nat /\ w.temps + 1 <= MaxTemps
  /\ Cached(w.known, w.files, w.temps) /\ Unused(w.files, w.temps)
  /\ IsFiniteSet(DOMAIN w.known) /\ f # Temp(w.temps + 1)

\* It has come to an end.
Returned(w, f, r) ==
  /\ IsResult(r) /\ r.temps \in {w.temps, w.temps + 1}
  /\ Cached(r.known, r.files, r.temps) /\ Unused(r.files, r.temps)
  /\ SameBut(Temp(w.temps + 1), w.files, r.files)
  /\ IsFiniteSet(DOMAIN r.known)
  /\ r.known = w.known \/ Cardinality(DOMAIN r.known) <= 1 + r.solver.cacheSize
  /\ r.solver.problemFile = f /\ r.solver.cacheSize = w.solver.cacheSize
  /\ \/ r.status = "throws" \/ f \notin DOMAIN w.files
     \/ Fits(r.status, r.solver.solution, w.files[f].problem)

\* The state in which the program runs: the problem is loaded, and perhaps an
\* answer that the cache had without a status.
Loading(w, f, v) ==
  /\ IsResult(v) /\ v.temps = w.temps /\ v.known = w.known /\ v.files = w.files
  /\ v.solver.problemFile = f /\ v.solver.cacheSize = w.solver.cacheSize

\* After the program has run: nothing but a new file, with the solution.
LEMMA ProgramReturns ==
  ASSUME NEW w, NEW f, Ready(w, f), NEW v, Loading(w, f, v), NEW r \in RunProgram(v)
  PROVE  /\ Returned(w, f, r)
         /\ r.temps = w.temps + 1 /\ r.solver.solutionFile = Temp(w.temps + 1)
         /\ Temp(w.temps + 1) \in DOMAIN r.files =>
               /\ f \in DOMAIN w.files
               /\ \/ r.status = "throws"
                  \/ Answers(r.files[Temp(w.temps + 1)], r.status, w.files[f].problem)
<1> DEFINE n == w.temps + 1
           t == Temp(n)
<1>1. RanProgram(v, r) BY RunProgramRuns DEF Loading
<1>2. /\ n \in Nat /\ n \in 1 .. MaxTemps /\ w.temps \in Nat /\ v.temps + 1 = n
      /\ w.temps < n
  <2>1. MaxTemps \in Nat BY SolverAssumption
  <2> QED BY <2>1 DEF Ready, Loading
<1>3. t \notin DOMAIN w.files BY <1>2 DEF Ready, Unused
<1>4. /\ r.solver.solutionFile = t /\ r.solver.problemFile = f /\ r.solver.cacheSize = w.solver.cacheSize
  BY <1>1, <1>2 DEF RanProgram, Loading, IsResult, IsObject
<1>5. Given(v) = ContentsOf(w.files, f) BY DEF Given, Loading
<1>6. /\ IsResult(r) /\ r.temps = n /\ r.known = w.known BY <1>1, <1>2 DEF RanProgram, Loading
<1> HIDE DEF t, n
<1>7. \/ r.files = w.files
      \/ \E c : /\ c \in ProgramWrites(v.solver.type, Given(v)) /\ c # Missing
                /\ r.files = Over(Entry(t, c), w.files)
                /\ r.status \in {"throws", c.status}
  BY <1>1, <1>2 DEF RanProgram, Loading, t
<1>8. /\ SameBut(t, w.files, r.files)
      /\ t \in DOMAIN r.files =>
            /\ f \in DOMAIN w.files
            /\ r.status = "throws" \/ Answers(r.files[t], r.status, w.files[f].problem)
  <2>1. CASE r.files = w.files BY <1>3, <2>1 DEF SameBut
  <2>2. ASSUME NEW c, c \in ProgramWrites(v.solver.type, Given(v)), c # Missing,
               r.files = Over(Entry(t, c), w.files), r.status \in {"throws", c.status}
        PROVE  /\ SameBut(t, w.files, r.files) /\ f \in DOMAIN w.files
               /\ r.status = "throws" \/ Answers(r.files[t], r.status, w.files[f].problem)
    <3>1. SameBut(t, w.files, r.files) /\ r.files[t] = c
      <4>1. SameBut(t, w.files, Over(Entry(t, c), w.files)) /\ Over(Entry(t, c), w.files)[t] = c
        BY DEF Over, Entry, SameBut
      <4> QED BY <2>2, <4>1
    <3>2. v.solver.type \in Types BY DEF Loading, IsResult, IsObject
    <3>3. Answers(c, c.status, Given(v).problem) BY <2>2, <3>2, WritesAnswer
    <3>4. f \in DOMAIN w.files BY <1>5, <2>2 DEF ContentsOf, ProgramWrites
    <3>5. Given(v) = w.files[f] BY <1>5, <3>4 DEF ContentsOf
    <3> QED BY <2>2, <3>1, <3>3, <3>4, <3>5
  <2> QED BY <1>7, <2>1, <2>2
<1>9. Cached(r.known, r.files, r.temps)
  <2>1. \A i \in 1 .. w.temps : Temp(i) # t BY <1>2, TempsDiffer DEF t
  <2>2. \A i \in 1 .. w.temps : Temp(i) \in DOMAIN r.files =>
              Temp(i) \in DOMAIN w.files /\ r.files[Temp(i)] = w.files[Temp(i)]
    BY <1>8, <2>1 DEF SameBut
  <2>3. Cached(w.known, r.files, n)
    BY <1>2, <2>2, CachedStays DEF Ready
  <2> QED BY <1>6, <2>3
<1>10. Unused(r.files, r.temps)
  <2> SUFFICES ASSUME NEW i \in 1 .. MaxTemps, i > n PROVE Temp(i) \notin DOMAIN r.files
    BY <1>6 DEF Unused
  <2>1. Temp(i) # t BY <1>2, TempsDiffer DEF t
  <2>2. Temp(i) \notin DOMAIN w.files BY <1>2 DEF Ready, Unused
  <2> QED BY <1>8, <2>1, <2>2 DEF SameBut
<1>11. \/ r.status = "throws" \/ f \notin DOMAIN w.files
       \/ Fits(r.status, r.solver.solution, w.files[f].problem)
  BY <1>1, <1>5 DEF RanProgram, ContentsOf
<1>12. IsFiniteSet(DOMAIN r.known) BY <1>6 DEF Ready
<1> QED
  BY <1>4, <1>6, <1>8, <1>9, <1>10, <1>11, <1>12 DEF Returned, n, t

\* A program has run for a problem and its solution is registered.
LEMMA RegisteringReturns ==
  ASSUME NEW w, NEW f, Ready(w, f), NEW v, Loading(w, f, v), NEW q \in RunProgram(v),
         q.status # "throws", NEW key \in Md5(q, f), NEW r, r = [q EXCEPT !.known = RegisterSolution(q, key)]
  PROVE  Returned(w, f, r)
<1> DEFINE n == w.temps + 1
           t == Temp(n)
<1>1. /\ Returned(w, f, q) /\ q.temps = n /\ q.solver.solutionFile = t
      /\ t \in DOMAIN q.files =>
            f \in DOMAIN w.files /\ Answers(q.files[t], q.status, w.files[f].problem)
  BY ProgramReturns
<1>2. n \in Nat /\ n \in 1 .. n
  BY DEF Ready
<1>3. /\ r.known = RegisterSolution(q, key) /\ r.files = q.files /\ r.temps = q.temps
      /\ r.solver = q.solver /\ r.status = q.status /\ IsResult(r)
  BY <1>1 DEF Returned, IsResult, Result
<1> HIDE DEF t, n
<1>4. IsFiniteSet(DOMAIN r.known) /\ Cardinality(DOMAIN r.known) <= 1 + r.solver.cacheSize
  BY <1>1, <1>3, Registered DEF Returned
<1>5. t \in DOMAIN q.files => Answers(q.files[t], q.status, key.problem)
  <2> SUFFICES ASSUME t \in DOMAIN q.files PROVE Answers(q.files[t], q.status, key.problem) OBVIOUS
  <2>1. f \in DOMAIN q.files /\ q.files[f] = w.files[f]
    BY <1>1 DEF Returned, SameBut, Ready, n
  <2>2. key = w.files[f] BY <2>1 DEF Md5
  <2> QED BY <1>1, <2>2
<1>6. Cached(r.known, r.files, r.temps)
  <2> SUFFICES ASSUME NEW k \in DOMAIN r.known
               PROVE  \E i \in 1 .. n : /\ r.known[k].filename = Temp(i)
                                        /\ Temp(i) \in DOMAIN q.files =>
                                              Answers(q.files[Temp(i)], r.known[k].status, k.problem)
    BY <1>1, <1>3 DEF Cached
  <2>1. CASE k = key
    <3>1. r.known[k].filename = t /\ r.known[k].status = q.status
      BY <1>1, <1>3, <2>1 DEF RegisterSolution, Over, Entry
    <3> QED BY <1>2, <1>5, <2>1, <3>1 DEF t
  <2>2. CASE k # key
    <3>1. k \in DOMAIN q.known /\ r.known[k] = q.known[k]
      BY <1>3, <2>2 DEF RegisterSolution, Over, Entry, RoomMade
    <3> QED BY <1>1, <3>1 DEF Returned, Cached
  <2> QED BY <2>1, <2>2
<1> QED BY <1>1, <1>3, <1>4, <1>6 DEF Returned

\* run(problem, format, useCaching), whether the cache has the answer or not.
LEMMA RunReturns ==
  ASSUME NEW w, NEW f, Ready(w, f), NEW format, NEW useCaching \in BOOLEAN,
         NEW r \in RunResults(w, f, format, useCaching)
  PROVE  Returned(w, f, r)
<1> DEFINE loaded == [w EXCEPT !.solver = Loaded(@, f, format)]
           keys == Md5(w, f)
           found == Known(loaded, keys, useCaching)
           toRun == {x \in found : x.status = "UNKNOWN"} \cup
                    IF useCaching /\ keys \subseteq DOMAIN w.known THEN {} ELSE {loaded}
           computed == UNION {RunProgram(x) : x \in toRun}
           answers == UNION {IF x.status = "throws" \/ ~useCaching THEN {x}
              ELSE {[x EXCEPT !.known = RegisterSolution(x, key)] : key \in Md5(x, f)} :
                 x \in computed}
<1>1. (r \in found /\ r.status # "UNKNOWN") \/ r \in answers
  BY DEF RunResults
<1>2. /\ loaded.temps = w.temps /\ loaded.known = w.known /\ loaded.files = w.files
      /\ loaded.solver = Loaded(w.solver, f, format) /\ loaded.status = "UNKNOWN"
      /\ loaded = Result(loaded.solver, loaded.files, loaded.temps, loaded.known, loaded.status)
  BY DEF Ready, IsResult, Result
<1>3. /\ IsObject(loaded.solver) /\ loaded.solver.problemFile = f
      /\ loaded.solver.cacheSize = w.solver.cacheSize
  <2>1. IsObject(w.solver) BY DEF Ready, IsResult
  <2> HIDE DEF loaded
  <2> QED BY <1>2, <2>1 DEF IsObject, Loaded
<1>4. Loading(w, f, loaded) BY <1>2, <1>3 DEF Loading, IsResult
<1> HIDE DEF loaded
<1>5. ASSUME NEW x \in found
      PROVE  /\ Loading(w, f, x)
             /\ x.status = "UNKNOWN" \/ Returned(w, f, x)
  <2>1. PICK key \in keys \cap DOMAIN w.known : x \in LoadKnownSolution(loaded, key)
    BY <1>2 DEF Known
  <2>2. FromCache(loaded, key, x)
    BY <1>2, <1>4, <2>1, LoadKnownSolutionLoads DEF Ready, Loading
  <2>3. x.solver.problemFile = f /\ x.solver.cacheSize = w.solver.cacheSize
    BY <1>3, <2>2 DEF FromCache, IsObject
  <2>4. Loading(w, f, x) BY <1>2, <2>2, <2>3 DEF FromCache, Loading
  <2>5. f \in DOMAIN w.files => key = w.files[f] BY <2>1 DEF Md5
  <2>6. SameBut(Temp(w.temps + 1), w.files, x.files)
    BY <1>2, <2>2 DEF FromCache, SameBut
  <2>7. x.status = "UNKNOWN" \/ Returned(w, f, x)
    BY <1>2, <2>2, <2>3, <2>5, <2>6 DEF FromCache, Returned, Ready
  <2> QED BY <2>4, <2>7
<1> HIDE DEF found
<1>6. \A x \in toRun : Loading(w, f, x) BY <1>4, <1>5
<1> HIDE DEF toRun
<1>7. CASE r \in found /\ r.status # "UNKNOWN" BY <1>5, <1>7
<1>8. CASE r \in answers
  <2>1. PICK q \in computed :
           r \in IF q.status = "throws" \/ ~useCaching THEN {q}
                 ELSE {[q EXCEPT !.known = RegisterSolution(q, key)] : key \in Md5(q, f)}
    <3> HIDE DEF computed
    <3> QED BY <1>8
  <2>2. PICK v \in toRun : q \in RunProgram(v) BY DEF computed
  <2>3. Loading(w, f, v) BY <1>6, <2>2
  <2>4. Returned(w, f, q) BY <2>2, <2>3, ProgramReturns
  <2>5. CASE r = q BY <2>4, <2>5
  <2>6. CASE r # q
    <3>1. q.status # "throws" BY <2>1, <2>6
    <3>2. PICK key \in Md5(q, f) : r = [q EXCEPT !.known = RegisterSolution(q, key)]
      BY <2>1, <2>6
    <3> QED BY <2>2, <2>3, <3>1, <3>2, RegisteringReturns
  <2> QED BY <2>5, <2>6
<1> QED BY <1>1, <1>7, <1>8

-----------------------------------------------------------------------------
(* The inductive invariant.                                                    *)
CacheInv ==
  /\ temps \in 0 .. MaxTemps /\ runs \in Nat
  /\ DOMAIN solvers = Solvers /\ \A s \in Solvers : IsObject(solvers[s])
  /\ \A s \in Solvers, i \in 1 .. MaxTemps : i > temps => solvers[s].problemFile # Temp(i)
  /\ Cached(msKnownSolutions, files, temps) /\ Unused(files, temps)
  /\ IsFiniteSet(DOMAIN msKnownSolutions)
  /\ \E s \in Solvers : Cardinality(DOMAIN msKnownSolutions) <= 1 + solvers[s].cacheSize
  /\ runs = 0 => msKnownSolutions = <<>>

\* No file with a temporary name is written.
Quiet(fs, gs) ==
  \A i \in 1 .. MaxTemps : Temp(i) \in DOMAIN gs => Temp(i) \in DOMAIN fs /\ gs[Temp(i)] = fs[Temp(i)]

\* The cache stays right while its files and its problems stay as they are.
LEMMA QuietKeeps ==
  ASSUME NEW known, NEW fs, NEW gs, NEW n \in 0 .. MaxTemps, NEW m \in n .. MaxTemps,
         Cached(known, fs, n), Unused(fs, n), Quiet(fs, gs)
  PROVE  Cached(known, gs, m) /\ Unused(gs, m)
<1>1. MaxTemps \in Nat /\ n \in Nat /\ m \in Nat /\ n <= m /\ n <= MaxTemps /\ m <= MaxTemps
  BY SolverAssumption
<1>2. \A i \in 1 .. n : Temp(i) \in DOMAIN gs => Temp(i) \in DOMAIN fs /\ gs[Temp(i)] = fs[Temp(i)]
  BY <1>1 DEF Quiet
<1>3. Cached(known, gs, m) BY <1>1, <1>2, CachedStays
<1>4. Unused(gs, m) BY <1>1 DEF Unused, Quiet
<1> QED BY <1>3, <1>4

\* The names a caller uses are none of the temporary ones.
LEMMA NoProblemIsTemporary ==
  ASSUME NEW i \in 1 .. MaxTemps
  PROVE  Temp(i) \notin ProblemFiles /\ Temp(i) \notin SolutionFiles /\ Temp(i) # Missing
BY SolverAssumption DEF Temps

\* Writing a file of another name leaves them as they are.
LEMMA OverIsQuiet ==
  ASSUME NEW fs, NEW gs, Quiet(fs, gs), NEW f, f \notin Temps, NEW c
  PROVE  Quiet(fs, Over(Entry(f, c), gs))
BY DEF Quiet, Temps, Over, Entry

\* No solution is known at first.
LEMMA CacheInvInit == LPInit => CacheInv
<1> SUFFICES ASSUME LPInit PROVE CacheInv OBVIOUS
<1>1. PICK types \in SolverTypes : solvers = [s \in Solvers |-> NewSolver(types[s])]
  BY DEF LPInit
<1>2. MaxTemps \in Nat /\ DefaultCacheSize \in Nat /\ types \in [Solvers -> Types]
  BY SolverAssumption
<1>3. \A s \in Solvers : IsObject(solvers[s]) /\ solvers[s].problemFile = Missing
  BY <1>1, <1>2 DEF IsObject, NewSolver
<1>4. \A i \in 1 .. MaxTemps : Temp(i) \notin DOMAIN files
  BY SolverAssumption DEF LPInit, Temps
<1>5. msKnownSolutions = <<>> /\ DOMAIN msKnownSolutions = {} /\ temps = 0 /\ runs = 0
  BY DEF LPInit
<1>6. IsFiniteSet(DOMAIN msKnownSolutions) /\ Cardinality(DOMAIN msKnownSolutions) = 0
  BY <1>5, FS_EmptySet
<1>7. \E s \in Solvers : Cardinality(DOMAIN msKnownSolutions) <= 1 + solvers[s].cacheSize
  <2>1. PICK s \in Solvers : TRUE BY SolverAssumption
  <2>2. solvers[s].cacheSize \in Nat BY <1>3 DEF IsObject
  <2> QED BY <1>6, <2>1, <2>2
<1>8. Cached(msKnownSolutions, files, temps) /\ Unused(files, temps)
  BY <1>4, <1>5 DEF Cached, Unused
<1> QED BY <1>1, <1>2, <1>3, <1>5, <1>6, <1>7, <1>8, NoProblemIsTemporary DEF CacheInv

\* What solver s leaves behind keeps the invariant.
LEMMA TakesKeeps ==
  ASSUME CacheInv, NEW s \in Solvers, NEW r, IsResult(r), r.temps \in temps .. MaxTemps,
         Cached(r.known, r.files, r.temps), Unused(r.files, r.temps), IsFiniteSet(DOMAIN r.known),
         r.known = msKnownSolutions \/ Cardinality(DOMAIN r.known) <= 1 + r.solver.cacheSize,
         r.solver.cacheSize = solvers[s].cacheSize,
         \A i \in 1 .. MaxTemps : i > r.temps => r.solver.problemFile # Temp(i),
         NEW call, NEW f, Takes(call, s, r, f)
  PROVE  CacheInv'
<1>1. /\ solvers' = [solvers EXCEPT ![s] = r.solver] /\ files' = r.files /\ temps' = r.temps
      /\ msKnownSolutions' = r.known /\ runs' = runs + 1
  BY DEF Takes
<1>2. /\ temps \in 0 .. MaxTemps /\ runs \in Nat /\ MaxTemps \in Nat /\ DOMAIN solvers = Solvers
      /\ \A q \in Solvers : IsObject(solvers[q])
      /\ \E q \in Solvers : Cardinality(DOMAIN msKnownSolutions) <= 1 + solvers[q].cacheSize
      /\ \A q \in Solvers, i \in 1 .. MaxTemps : i > temps => solvers[q].problemFile # Temp(i)
  BY SolverAssumption DEF CacheInv
<1>3. temps' \in 0 .. MaxTemps /\ runs' \in Nat /\ runs' # 0 /\ temps <= temps' BY <1>1, <1>2
<1>4. /\ DOMAIN solvers' = Solvers /\ \A q \in Solvers : IsObject(solvers'[q])
      /\ \A q \in Solvers : solvers'[q].cacheSize = solvers[q].cacheSize
  BY <1>1, <1>2 DEF IsResult
<1>5. \A q \in Solvers, i \in 1 .. MaxTemps : i > temps' => solvers'[q].problemFile # Temp(i)
  BY <1>1, <1>2, <1>3
<1>6. \E q \in Solvers : Cardinality(DOMAIN r.known) <= 1 + solvers'[q].cacheSize
  BY <1>2, <1>4
<1>7. Cached(msKnownSolutions', files', temps') /\ Unused(files', temps') /\ IsFiniteSet(DOMAIN msKnownSolutions')
  BY <1>1
<1> QED BY <1>1, <1>3, <1>4, <1>5, <1>6, <1>7 DEF CacheInv

\* So do the calls that leave the cache alone and write no temporary file.
LEMMA CallsKeep ==
  ASSUME CacheInv, CacheUnchanged, Quiet(files, files'), temps' \in temps .. MaxTemps,
         DOMAIN solvers' = Solvers,
         \A q \in Solvers : IsObject(solvers'[q]) /\ solvers'[q].cacheSize = solvers[q].cacheSize,
         \A q \in Solvers, i \in 1 .. MaxTemps : i > temps' => solvers'[q].problemFile # Temp(i)
  PROVE  CacheInv'
<1>1. /\ temps \in 0 .. MaxTemps /\ runs \in Nat /\ MaxTemps \in Nat
      /\ Cached(msKnownSolutions, files, temps) /\ Unused(files, temps)
  BY SolverAssumption DEF CacheInv
<1>2. msKnownSolutions' = msKnownSolutions /\ runs' = runs BY DEF CacheUnchanged
<1>3. Cached(msKnownSolutions, files', temps') /\ Unused(files', temps')
  BY <1>1, QuietKeeps
<1>4. temps' \in 0 .. MaxTemps BY <1>1
<1>5. \E s \in Solvers : Cardinality(DOMAIN msKnownSolutions) <= 1 + solvers'[s].cacheSize
  BY DEF CacheInv
<1>6. Cached(msKnownSolutions', files', temps') /\ Unused(files', temps')
  BY <1>2, <1>3
<1> QED BY <1>2, <1>4, <1>5, <1>6 DEF CacheInv

-----------------------------------------------------------------------------
(* The calls.                                                                  *)

\* What AnswersAreOfTheProblem says of a step.
AnswerIsOfTheProblem ==
  runs' > runs /\ last'.status # "throws" /\ last'.file \in DOMAIN files' =>
    solvers'[last'.solver].solution.of \in {Missing, files'[last'.file].problem}

NowReady(s, f) ==
  /\ CacheInv /\ s \in Solvers /\ temps < MaxTemps /\ f # Temp(temps + 1)

\* A call begins with an object that can run.
LEMMA NowIsReady ==
  ASSUME NEW s, NEW f, NowReady(s, f)
  PROVE  /\ Ready(Now(solvers[s]), f)
         /\ Now(solvers[s]).files = files /\ Now(solvers[s]).temps = temps
         /\ Now(solvers[s]).known = msKnownSolutions /\ Now(solvers[s]).solver = solvers[s]
<1> DEFINE w == Now(solvers[s])
<1>1. /\ w.files = files /\ w.temps = temps /\ w.known = msKnownSolutions /\ w.status = "UNKNOWN"
      /\ w.solver = solvers[s] /\ w = Result(w.solver, w.files, w.temps, w.known, w.status)
  BY DEF Now, Result
<1> HIDE DEF w
<1>2. IsResult(w) BY <1>1 DEF IsResult, NowReady, CacheInv
<1>3. temps \in Nat /\ MaxTemps \in Nat BY SolverAssumption DEF NowReady, CacheInv
<1>4. /\ Cached(w.known, w.files, w.temps) /\ Unused(w.files, w.temps)
      /\ IsFiniteSet(DOMAIN w.known)
  BY <1>1 DEF NowReady, CacheInv
<1> QED BY <1>1, <1>2, <1>3, <1>4 DEF Ready, NowReady, w

\* A run of the solver on a file of its own or of the caller.
LEMMA RunKeeps ==
  ASSUME NEW s, NEW f, NowReady(s, f), \A i \in 1 .. MaxTemps : i > temps => f # Temp(i),
         NEW r, Returned(Now(solvers[s]), f, r), Takes("run", s, r, f)
  PROVE  CacheInv' /\ AnswerIsOfTheProblem
<1> DEFINE w == Now(solvers[s])
<1>1. /\ w.files = files /\ w.temps = temps /\ w.known = msKnownSolutions /\ w.solver = solvers[s]
  BY NowIsReady
<1>2. /\ temps \in 0 .. MaxTemps /\ temps < MaxTemps /\ MaxTemps \in Nat /\ s \in Solvers
      /\ DOMAIN solvers = Solvers
  BY SolverAssumption DEF NowReady, CacheInv
<1> HIDE DEF w
<1>0. Returned(w, f, r) BY DEF w
<1>3. r.temps \in {temps, temps + 1} BY <1>0, <1>1 DEF Returned
<1>4. r.temps \in temps .. MaxTemps BY <1>2, <1>3
<1>5. \A i \in 1 .. MaxTemps : i > r.temps => r.solver.problemFile # Temp(i)
  BY <1>0, <1>2, <1>4 DEF Returned
<1>6. CacheInv'
  BY <1>0, <1>1, <1>2, <1>4, <1>5, TakesKeeps DEF Returned, NowReady
<1>7. AnswerIsOfTheProblem
  <2>1. /\ last'.status = r.status /\ last'.file = f /\ last'.solver = s
        /\ files' = r.files /\ solvers'[s] = r.solver
    BY <1>2 DEF Takes, Ends
  <2>2. f # Temp(temps + 1) BY DEF NowReady
  <2>3. f \in DOMAIN r.files => f \in DOMAIN files /\ r.files[f] = files[f]
    BY <1>0, <1>1, <2>2 DEF Returned, SameBut
  <2> QED BY <1>0, <1>1, <2>1, <2>3 DEF AnswerIsOfTheProblem, Returned, Fits
<1> QED BY <1>6, <1>7

\* A run of the program without the cache.
LEMMA RunStep ==
  ASSUME CacheInv, NEW s \in Solvers, Run(s)
  PROVE  CacheInv' /\ AnswerIsOfTheProblem
<1> DEFINE f == solvers[s].problemFile
           w == Now(solvers[s])
<1>1. PICK r \in RunProgram(w) : Takes("run", s, r, f)
  BY DEF Run
<1>2. /\ temps \in 0 .. MaxTemps /\ temps < MaxTemps /\ MaxTemps \in Nat
      /\ \A i \in 1 .. MaxTemps : i > temps => f # Temp(i)
  BY SolverAssumption DEF Run, CacheInv
<1>3. temps + 1 \in 1 .. MaxTemps /\ temps + 1 > temps BY <1>2
<1>4. NowReady(s, f) BY <1>2, <1>3 DEF NowReady
<1>5. Ready(w, f) /\ w.solver = solvers[s] BY <1>4, NowIsReady
<1>6. Loading(w, f, w) BY <1>5 DEF Loading, Ready
<1>7. Returned(w, f, r) BY <1>1, <1>5, <1>6, ProgramReturns
<1> HIDE DEF f
<1> QED BY <1>1, <1>2, <1>4, <1>7, RunKeeps

\* A problem is loaded and solved.
LEMMA RunProblemStep ==
  ASSUME CacheInv, NEW s \in Solvers, NEW f \in ProblemFiles, NEW format,
         NEW useCaching \in BOOLEAN, RunProblem(s, f, format, useCaching)
  PROVE  CacheInv' /\ AnswerIsOfTheProblem
<1> DEFINE w == Now(solvers[s])
<1>1. PICK r \in RunResults(w, f, format, useCaching) : Takes("run", s, r, f)
  BY DEF RunProblem
<1>2. temps \in 0 .. MaxTemps /\ temps < MaxTemps /\ MaxTemps \in Nat
  BY SolverAssumption DEF RunProblem, CacheInv
<1>3. temps + 1 \in 1 .. MaxTemps /\ \A i \in 1 .. MaxTemps : f # Temp(i)
  BY <1>2, NoProblemIsTemporary
<1>4. NowReady(s, f) BY <1>2, <1>3 DEF NowReady
<1>5. Ready(w, f) BY <1>4, NowIsReady
<1>6. Returned(w, f, r) BY <1>1, <1>5, RunReturns
<1> QED BY <1>1, <1>3, <1>4, <1>6, RunKeeps

\* solve: the problem is in a temporary file of its own, and what is saved goes
\* to files with other names.
LEMMA SavedAsKeeps ==
  ASSUME NEW r, IsResult(r), NEW prefix \in SavePrefixes, NEW p
  PROVE  LET q == SavedAs(r, prefix, p) IN
         /\ IsResult(q) /\ q.temps \in {r.temps, r.temps + 1} /\ q.known = r.known
         /\ q.solver.problemFile = r.solver.problemFile /\ q.solver.cacheSize = r.solver.cacheSize
         /\ q.solver.solution = r.solver.solution
         /\ q.status = r.status \/ q.status = "throws"
         /\ Quiet(r.files, q.files)
         /\ \A t \in Temps : t \in DOMAIN q.files => t \in DOMAIN r.files /\ q.files[t] = r.files[t]
<1> DEFINE q == SavedAs(r, prefix, p)
           copied == Over(Entry(ProblemName(prefix), r.files[p]), r.files)
           both == Over(Entry(SolutionName(prefix), r.files[r.solver.solutionFile]), copied)
<1>1. CASE prefix = <<>>
  <2>1. q = [r EXCEPT !.solver = SavedToTempfile(@, r.temps), !.temps = @ + 1]
    BY <1>1 DEF SavedAs
  <2> HIDE DEF q
  <2>2. /\ q.solver = [r.solver EXCEPT !.solutionFile = Temp(r.temps + 1)] /\ q.temps = r.temps + 1
        /\ q.known = r.known /\ q.files = r.files /\ q.status = r.status
        /\ q = Result(q.solver, q.files, q.temps, q.known, q.status)
    BY <2>1 DEF IsResult, Result, SavedToTempfile
  <2>3. /\ IsObject(q.solver) /\ q.solver.problemFile = r.solver.problemFile
        /\ q.solver.cacheSize = r.solver.cacheSize /\ q.solver.solution = r.solver.solution
    BY <2>2 DEF IsResult, IsObject
  <2> QED BY <2>2, <2>3 DEF IsResult, Quiet, q
<1>2. CASE prefix # <<>>
  <2>1. ProblemName(prefix) \notin Temps /\ SolutionName(prefix) \notin Temps
    BY <1>2, FlowAssumption
  <2>2. \/ q = [r EXCEPT !.files = both] \/ q = [r EXCEPT !.files = copied, !.status = "throws"]
    BY <1>2 DEF SavedAs
  <2>3. \A t \in Temps : /\ t \in DOMAIN copied => t \in DOMAIN r.files /\ copied[t] = r.files[t]
                         /\ t \in DOMAIN both => t \in DOMAIN r.files /\ both[t] = r.files[t]
    BY <2>1 DEF Over, Entry
  <2> HIDE DEF q, copied, both
  <2>4. /\ q.solver = r.solver /\ q.temps = r.temps /\ q.known = r.known
        /\ q.files \in {copied, both} /\ q.status \in {r.status, "throws"}
        /\ q = Result(q.solver, q.files, q.temps, q.known, q.status)
    BY <2>2 DEF IsResult, Result
  <2>5. \A t \in Temps : t \in DOMAIN q.files => t \in DOMAIN r.files /\ q.files[t] = r.files[t]
    BY <2>3, <2>4
  <2>6. Quiet(r.files, q.files) BY <2>5 DEF Quiet, Temps
  <2> QED BY <2>4, <2>5, <2>6 DEF IsResult, q
<1> QED BY <1>1, <1>2

\* A flow problem saved to a temporary file is what its object runs on.
LEMMA StartReady ==
  ASSUME CacheInv, temps + 3 <= MaxTemps, NEW p, NEW start,
         start = [Now(solvers[Flow]) EXCEPT !.temps = @ + 1,
                    !.files = Over(Entry(Temp(temps + 1), p), @)]
  PROVE  /\ Ready(start, Temp(temps + 1)) /\ start.temps = temps + 1
         /\ start.known = msKnownSolutions /\ start.solver = solvers[Flow]
         /\ Temp(temps + 1) \in DOMAIN start.files
<1> DEFINE t == Temp(temps + 1)
<1>1. /\ temps \in Nat /\ temps \in 0 .. MaxTemps /\ MaxTemps \in Nat /\ temps + 1 \in temps .. MaxTemps
      /\ temps + 1 \in Nat /\ temps + 2 \in Nat /\ IsObject(solvers[Flow])
  <2>1. MaxTemps \in Nat /\ temps \in 0 .. MaxTemps BY SolverAssumption DEF CacheInv
  <2>2. IsObject(solvers[Flow]) BY FlowAssumption DEF CacheInv
  <2> QED BY <2>1, <2>2
<1>2. /\ start.temps = temps + 1 /\ start.known = msKnownSolutions /\ start.solver = solvers[Flow]
      /\ start.files = Over(Entry(t, p), files) /\ start.status = "UNKNOWN"
      /\ start = Result(start.solver, start.files, start.temps, start.known, start.status)
  BY DEF Now, Result
<1>3. t \in DOMAIN start.files /\ SameBut(t, files, start.files)
  BY <1>2 DEF Over, Entry, SameBut
<1>4. Cached(msKnownSolutions, start.files, temps + 1)
  <2>1. \A i \in 1 .. temps : Temp(i) # t BY <1>1, TempsDiffer
  <2>2. \A i \in 1 .. temps : Temp(i) \in DOMAIN start.files =>
              Temp(i) \in DOMAIN files /\ start.files[Temp(i)] = files[Temp(i)]
    BY <1>3, <2>1 DEF SameBut
  <2> QED BY <1>1, <2>2, CachedStays DEF CacheInv
<1>5. Unused(start.files, temps + 1)
  <2> SUFFICES ASSUME NEW i \in 1 .. MaxTemps, i > temps + 1 PROVE Temp(i) \notin DOMAIN start.files
    BY DEF Unused
  <2>1. Temp(i) # t BY <1>1, TempsDiffer
  <2>2. Temp(i) \notin DOMAIN files BY <1>1 DEF CacheInv, Unused
  <2> QED BY <1>3, <2>1, <2>2 DEF SameBut
<1>6. t # Temp(start.temps + 1) BY <1>1, <1>2, TempsDiffer
<1>7. IsResult(start) BY <1>1, <1>2 DEF IsResult
<1>8. start.temps \in Nat /\ start.temps + 1 <= MaxTemps BY <1>1, <1>2
<1> QED BY <1>2, <1>3, <1>4, <1>5, <1>6, <1>7, <1>8 DEF Ready, CacheInv

\* A flow problem is solved.
LEMMA SolveStep ==
  ASSUME CacheInv, NEW prefix \in SavePrefixes, NEW useCaching \in BOOLEAN, Solve(prefix, useCaching)
  PROVE  CacheInv' /\ AnswerIsOfTheProblem
<1> DEFINE f == Temp(temps + 1)
<1>1. PICK start : \E p : start = [Now(solvers[Flow]) EXCEPT !.temps = @ + 1,
                                       !.files = Over(Entry(f, p), @)] /\
         \E r \in RunResults(start, f, "CPLEX", useCaching) :
            Takes("solve", Flow, IF r.status = "throws" THEN r ELSE SavedAs(r, prefix, f), f)
  BY DEF Solve
<1>2. PICK r \in RunResults(start, f, "CPLEX", useCaching) :
            Takes("solve", Flow, IF r.status = "throws" THEN r ELSE SavedAs(r, prefix, f), f)
  BY <1>1
<1>3. PICK q : /\ q = IF r.status = "throws" THEN r ELSE SavedAs(r, prefix, f)
               /\ Takes("solve", Flow, q, f)
  BY <1>2
<1>4. /\ temps \in Nat /\ temps \in 0 .. MaxTemps /\ MaxTemps \in Nat /\ Flow \in Solvers
      /\ DOMAIN solvers = Solvers /\ temps + 3 <= MaxTemps /\ temps + 1 \in 1 .. MaxTemps
  <2>1. MaxTemps \in Nat /\ temps \in 0 .. MaxTemps BY SolverAssumption DEF CacheInv
  <2>2. Flow \in Solvers /\ DOMAIN solvers = Solvers BY FlowAssumption DEF CacheInv
  <2>3. temps + 3 <= MaxTemps BY DEF Solve
  <2> QED BY <2>1, <2>2, <2>3
<1>5. /\ Ready(start, f) /\ start.temps = temps + 1
      /\ start.known = msKnownSolutions /\ start.solver = solvers[Flow] /\ f \in DOMAIN start.files
  BY <1>1, <1>4, StartReady
<1>6. Returned(start, f, r) BY <1>2, <1>5, RunReturns
<1>7. f \in Temps BY <1>4 DEF Temps
<1>8. \A i \in 1 .. MaxTemps : i > temps + 1 => f # Temp(i) BY <1>4, TempsDiffer
<1>9. f # Temp(temps + 2) BY <1>4, TempsDiffer
<1> HIDE DEF f
<1>10. r.temps \in {temps + 1, temps + 2} BY <1>4, <1>5, <1>6 DEF Returned
<1>11. /\ IsResult(q) /\ q.temps \in {r.temps, r.temps + 1} /\ q.known = r.known
       /\ q.solver.problemFile = f /\ q.solver.cacheSize = solvers[Flow].cacheSize
       /\ q.solver.solution = r.solver.solution
       /\ q.status = r.status \/ q.status = "throws"
       /\ Quiet(r.files, q.files)
       /\ f \in DOMAIN q.files => f \in DOMAIN r.files /\ q.files[f] = r.files[f]
  <2>1. CASE r.status = "throws" BY <1>3, <1>5, <1>6, <2>1 DEF Returned, Quiet
  <2>2. CASE r.status # "throws"
    <3>1. q = SavedAs(r, prefix, f) BY <1>3, <2>2
    <3>2. IsResult(r) BY <1>6 DEF Returned
    <3> QED BY <1>5, <1>6, <1>7, <3>1, <3>2, SavedAsKeeps DEF Returned
  <2> QED BY <2>1, <2>2
<1>12. q.temps \in temps .. MaxTemps /\ q.temps \in r.temps .. MaxTemps /\ r.temps \in 0 .. MaxTemps
       /\ q.temps >= temps + 1
  BY <1>4, <1>10, <1>11
<1>13. Cached(q.known, q.files, q.temps) /\ Unused(q.files, q.temps)
  BY <1>6, <1>11, <1>12, QuietKeeps DEF Returned
<1>14. \A i \in 1 .. MaxTemps : i > q.temps => q.solver.problemFile # Temp(i)
  BY <1>4, <1>8, <1>11, <1>12
<1>15. IsFiniteSet(DOMAIN q.known) /\ (q.known = msKnownSolutions \/ Cardinality(DOMAIN q.known) <= 1 + q.solver.cacheSize)
  BY <1>5, <1>6, <1>11 DEF Returned
<1>16. CacheInv' BY <1>3, <1>4, <1>11, <1>12, <1>13, <1>14, <1>15, TakesKeeps
<1>17. AnswerIsOfTheProblem
  <2>1. /\ last'.status = q.status /\ last'.file = f /\ last'.solver = Flow
        /\ files' = q.files /\ solvers'[Flow] = q.solver
    BY <1>3, <1>4 DEF Takes, Ends
  <2>2. f # Temp(start.temps + 1) BY <1>4, <1>5, <1>9
  <2>3. f \in DOMAIN r.files => r.files[f] = start.files[f]
    BY <1>6, <2>2 DEF Returned, SameBut
  <2>4. q.status # "throws" => r.solver.solution.of \in {Missing, start.files[f].problem}
    BY <1>3, <1>5, <1>6, <1>11 DEF Returned, Fits
  <2> QED BY <1>11, <2>1, <2>3, <2>4 DEF AnswerIsOfTheProblem
<1> QED BY <1>16, <1>17

\* The calls that leave files and temporary names alone, and what is kept of the
\* objects by every call.
LEMMA ObjectsKept ==
  ASSUME CacheInv, temps' \in temps .. MaxTemps, NEW s \in Solvers, NEW o,
         IsObject(solvers[s]) => IsObject(o),
         IsObject(solvers[s]) => o.cacheSize = solvers[s].cacheSize,
         IsObject(solvers[s]) =>
            \/ o.problemFile = solvers[s].problemFile
            \/ \A i \in 1 .. MaxTemps : i > temps' => o.problemFile # Temp(i),
         solvers' = [solvers EXCEPT ![s] = o]
  PROVE  /\ DOMAIN solvers' = Solvers
         /\ \A q \in Solvers : IsObject(solvers'[q]) /\ solvers'[q].cacheSize = solvers[q].cacheSize
         /\ \A q \in Solvers, i \in 1 .. MaxTemps : i > temps' => solvers'[q].problemFile # Temp(i)
<1>1. /\ temps \in Nat /\ MaxTemps \in Nat /\ temps' \in Nat /\ temps <= temps'
      /\ DOMAIN solvers = Solvers /\ \A q \in Solvers : IsObject(solvers[q])
      /\ \A q \in Solvers, i \in 1 .. MaxTemps : i > temps => solvers[q].problemFile # Temp(i)
  <2>1. MaxTemps \in Nat BY SolverAssumption
  <2> QED BY <2>1 DEF CacheInv
<1>2. \A q \in Solvers : solvers'[q] = IF q = s THEN o ELSE solvers[q]
  BY <1>1
<1>3. DOMAIN solvers' = Solvers BY <1>1
<1> QED BY <1>1, <1>2, <1>3

\* Calls that create temporary files only leave the objects right.
LEMMA ObjectsUnchanged ==
  ASSUME CacheInv, temps' \in temps .. MaxTemps, solvers' = solvers
  PROVE  /\ DOMAIN solvers' = Solvers
         /\ \A q \in Solvers : IsObject(solvers'[q]) /\ solvers'[q].cacheSize = solvers[q].cacheSize
         /\ \A q \in Solvers, i \in 1 .. MaxTemps : i > temps' => solvers'[q].problemFile # Temp(i)
<1>1. MaxTemps \in Nat BY SolverAssumption
<1> QED BY <1>1 DEF CacheInv

\* What happens to an object.
LEMMA ObjectLoaded ==
  ASSUME NEW s, IsObject(s), NEW f, NEW format
  PROVE  /\ IsObject(Loaded(s, f, format)) /\ Loaded(s, f, format).cacheSize = s.cacheSize
         /\ Loaded(s, f, format).problemFile = f
<1>1. PICK o : o = Loaded(s, f, format) OBVIOUS
<1>2. IsObject(o) /\ o.cacheSize = s.cacheSize /\ o.problemFile = f BY <1>1 DEF Loaded, IsObject
<1> QED BY <1>1, <1>2

\* An object stays one when a problem is saved to a temporary file ...
LEMMA ObjectSaved ==
  ASSUME NEW s, IsObject(s), NEW n
  PROVE  /\ IsObject(SavedToTempfile(s, n)) /\ SavedToTempfile(s, n).cacheSize = s.cacheSize
         /\ SavedToTempfile(s, n).problemFile = s.problemFile
<1>1. PICK o : o = SavedToTempfile(s, n) OBVIOUS
<1>2. IsObject(o) /\ o.cacheSize = s.cacheSize /\ o.problemFile = s.problemFile
  BY <1>1 DEF SavedToTempfile, IsObject
<1> QED BY <1>1, <1>2

\* ... and when it takes a solution.
LEMMA ObjectSolved ==
  ASSUME NEW s, IsObject(s), NEW x, NEW o, o = [s EXCEPT !.solution = x]
  PROVE  IsObject(o) /\ o.cacheSize = s.cacheSize /\ o.problemFile = s.problemFile
BY DEF IsObject

\* The calls that load and save, and what happens to files outside.
LEMMA OtherCallsKeep ==
  ASSUME CacheInv,
         \/ \E s \in Solvers : \E f \in ProblemFiles, format \in Formats :
               LoadProblem(s, f, format) \/ SaveProblem(s, f, format)
         \/ \E s \in Solvers : SaveProblemToTempfile(s, "CPLEX") \/ SaveSolutionToTempfile(s)
         \/ \E s \in Solvers : \E f \in SolutionFiles : SaveSolution(s, f)
         \/ \E s \in Solvers : \E f \in DOMAIN files \ ProblemFiles : LoadSolution(s, f)
         \/ Environment
  PROVE  CacheInv' /\ runs' = runs
<1>1. /\ temps \in Nat /\ temps \in 0 .. MaxTemps /\ MaxTemps \in Nat /\ temps \in temps .. MaxTemps
      /\ \A s \in Solvers : IsObject(solvers[s])
  <2>1. MaxTemps \in Nat BY SolverAssumption
  <2> QED BY <2>1 DEF CacheInv
<1>2. Quiet(files, files) BY DEF Quiet
<1>3. \A f \in ProblemFiles \cup SolutionFiles : f \notin Temps BY SolverAssumption
<1>4. ASSUME NEW s \in Solvers, NEW f \in ProblemFiles, NEW format \in Formats, LoadProblem(s, f, format)
      PROVE  CacheInv' /\ runs' = runs
  <2> DEFINE o == Loaded(solvers[s], f, format)
  <2>1. /\ solvers' = [solvers EXCEPT ![s] = o] /\ files' = files /\ temps' = temps
        /\ CacheUnchanged
    BY <1>4 DEF LoadProblem
  <2>2. IsObject(o) /\ o.cacheSize = solvers[s].cacheSize /\ o.problemFile = f
    BY <1>1, ObjectLoaded
  <2>3. \A i \in 1 .. MaxTemps : f # Temp(i) BY NoProblemIsTemporary
  <2> HIDE DEF o
  <2>4. /\ DOMAIN solvers' = Solvers
        /\ \A q \in Solvers : IsObject(solvers'[q]) /\ solvers'[q].cacheSize = solvers[q].cacheSize
        /\ \A q \in Solvers, i \in 1 .. MaxTemps : i > temps' => solvers'[q].problemFile # Temp(i)
    BY <1>1, <2>1, <2>2, <2>3, ObjectsKept
  <2>5. CacheInv' BY <1>1, <1>2, <2>1, <2>4, CallsKeep
  <2> QED BY <2>1, <2>5 DEF CacheUnchanged
<1>5. ASSUME NEW from, NEW to \in ProblemFiles \cup SolutionFiles, CacheUnchanged, temps' = temps, solvers' = solvers,
             files' = files \/ files' = Copied(from, to)
      PROVE  CacheInv' /\ runs' = runs
  <2>1. Quiet(files, files')
    BY <1>2, <1>3, <1>5, OverIsQuiet DEF Copied
  <2>2. CacheInv' BY <1>1, <1>5, <2>1, CallsKeep, ObjectsUnchanged
  <2> QED BY <1>5, <2>2 DEF CacheUnchanged
<1>6. ASSUME NEW s \in Solvers, NEW f \in ProblemFiles, NEW format \in Formats, SaveProblem(s, f, format)
      PROVE  CacheInv' /\ runs' = runs
  BY <1>5, <1>6 DEF SaveProblem
<1>7. ASSUME NEW s \in Solvers, NEW f \in SolutionFiles, SaveSolution(s, f)
      PROVE  CacheInv' /\ runs' = runs
  BY <1>5, <1>7 DEF SaveSolution
<1>8. ASSUME NEW s \in Solvers, SaveProblemToTempfile(s, "CPLEX") \/ SaveSolutionToTempfile(s)
      PROVE  CacheInv' /\ runs' = runs
  <2>1. /\ temps' = temps + 1 /\ temps < MaxTemps /\ files' = files /\ CacheUnchanged
        /\ \/ solvers' = [solvers EXCEPT ![s] = Loaded(@, Temp(temps + 1), "CPLEX")]
           \/ solvers' = [solvers EXCEPT ![s] = SavedToTempfile(@, temps)]
    BY <1>8 DEF SaveProblemToTempfile, SaveSolutionToTempfile
  <2>2. temps' \in temps .. MaxTemps /\ \A i \in 1 .. MaxTemps : i > temps' => Temp(temps + 1) # Temp(i)
    BY <1>1, <2>1, TempsDiffer
  <2>3. PICK o \in {Loaded(solvers[s], Temp(temps + 1), "CPLEX"), SavedToTempfile(solvers[s], temps)} :
           solvers' = [solvers EXCEPT ![s] = o]
    BY <2>1
  <2>4. /\ IsObject(o) /\ o.cacheSize = solvers[s].cacheSize
        /\ o.problemFile = solvers[s].problemFile \/ o.problemFile = Temp(temps + 1)
    BY <1>1, <2>3, ObjectLoaded, ObjectSaved
  <2>5. /\ DOMAIN solvers' = Solvers
        /\ \A q \in Solvers : IsObject(solvers'[q]) /\ solvers'[q].cacheSize = solvers[q].cacheSize
        /\ \A q \in Solvers, i \in 1 .. MaxTemps : i > temps' => solvers'[q].problemFile # Temp(i)
    BY <2>2, <2>3, <2>4, ObjectsKept
  <2>6. CacheInv' BY <1>2, <2>1, <2>2, <2>5, CallsKeep
  <2> QED BY <2>1, <2>6 DEF CacheUnchanged
<1>9. ASSUME NEW s \in Solvers, NEW f, LoadSolution(s, f)
      PROVE  CacheInv' /\ runs' = runs
  <2>1. /\ files' = files /\ temps' = temps /\ CacheUnchanged
        /\ \/ solvers' = solvers
           \/ \E r \in WithSolution(Now(solvers[s]), f) : solvers' = [solvers EXCEPT ![s] = r.solver]
    BY <1>9 DEF LoadSolution
  <2>2. CASE solvers' = solvers
    <3>1. CacheInv' BY <1>1, <1>2, <2>1, <2>2, CallsKeep, ObjectsUnchanged
    <3> QED BY <2>1, <3>1 DEF CacheUnchanged
  <2>3. ASSUME NEW x, solvers' = [solvers EXCEPT ![s] = [solvers[s] EXCEPT !.solution = x]]
        PROVE  CacheInv' /\ runs' = runs
    <3> DEFINE o == [solvers[s] EXCEPT !.solution = x]
    <3>1. IsObject(o) /\ o.cacheSize = solvers[s].cacheSize /\ o.problemFile = solvers[s].problemFile
      BY <1>1, ObjectSolved
    <3>2. solvers' = [solvers EXCEPT ![s] = o] BY <2>3
    <3> HIDE DEF o
    <3>3. /\ DOMAIN solvers' = Solvers
          /\ \A q \in Solvers : IsObject(solvers'[q]) /\ solvers'[q].cacheSize = solvers[q].cacheSize
          /\ \A q \in Solvers, i \in 1 .. MaxTemps : i > temps' => solvers'[q].problemFile # Temp(i)
      BY <1>1, <2>1, <3>1, <3>2, ObjectsKept
    <3>4. CacheInv' BY <1>1, <1>2, <2>1, <3>3, CallsKeep
    <3> QED BY <2>1, <3>4 DEF CacheUnchanged
  <2>4. ASSUME NEW r \in WithSolution(Now(solvers[s]), f)
        PROVE  \E x : r.solver = [solvers[s] EXCEPT !.solution = x]
    BY DEF WithSolution, Now, Result
  <2> QED BY <2>1, <2>2, <2>3, <2>4
<1>10. ASSUME NEW f \in ProblemFiles, NEW p \in Problems, WriteProblemFile(f, p)
       PROVE  CacheInv' /\ runs' = runs
  <2>1. /\ files' = Over(Entry(f, [kind |-> "problem", problem |-> p]), files) /\ temps' = temps
        /\ solvers' = solvers /\ CacheUnchanged
    BY <1>10 DEF WriteProblemFile
  <2>2. Quiet(files, files') BY <1>2, <1>3, <2>1, OverIsQuiet
  <2>3. CacheInv' BY <1>1, <2>1, <2>2, CallsKeep, ObjectsUnchanged
  <2> QED BY <2>1, <2>3 DEF CacheUnchanged
<1>11. ASSUME NEW f \in DOMAIN files, RemoveFile(f)
       PROVE  CacheInv' /\ runs' = runs
  <2>1. /\ files' = [g \in DOMAIN files \ {f} |-> files[g]] /\ temps' = temps
        /\ solvers' = solvers /\ CacheUnchanged
    BY <1>11 DEF RemoveFile
  <2>2. Quiet(files, files') BY <2>1 DEF Quiet
  <2>3. CacheInv' BY <1>1, <2>1, <2>2, CallsKeep, ObjectsUnchanged
  <2> QED BY <2>1, <2>3 DEF CacheUnchanged
<1> QED BY <1>4, <1>6, <1>7, <1>8, <1>9, <1>10, <1>11 DEF Environment

\* The limit of the cache is set ...
LEMMA CacheSizeSet ==
  ASSUME CacheInv, NEW s \in Solvers, NEW n \in CacheSizes, SetSolutionCacheSize(s, n)
  PROVE  CacheInv' /\ runs' = runs
<1>1. /\ runs = 0 /\ solvers' = [solvers EXCEPT ![s].cacheSize = n] /\ UNCHANGED <<files, temps>>
      /\ runs' = runs /\ msKnownSolutions' = msKnownSolutions /\ n \in Nat
  BY SolverAssumption DEF SetSolutionCacheSize, CacheUnchanged
<1>2. DOMAIN solvers = Solvers /\ IsObject(solvers[s]) BY DEF CacheInv
<1>3. /\ IsObject(solvers'[s]) /\ solvers'[s].problemFile = solvers[s].problemFile
      /\ solvers'[s].cacheSize = n
  BY <1>1, <1>2 DEF IsObject
<1>4. \A q \in Solvers : q # s => solvers'[q] = solvers[q] BY <1>1, <1>2
<1>5. DOMAIN solvers' = Solvers /\ \A q \in Solvers : IsObject(solvers'[q])
  BY <1>1, <1>2, <1>3, <1>4 DEF CacheInv
<1>6. \A q \in Solvers, i \in 1 .. MaxTemps : i > temps' => solvers'[q].problemFile # Temp(i)
  BY <1>1, <1>3, <1>4 DEF CacheInv
<1>7. msKnownSolutions' = <<>> /\ DOMAIN msKnownSolutions' = {} BY <1>1 DEF CacheInv
<1>8. Cardinality(DOMAIN msKnownSolutions') = 0 BY <1>7, FS_EmptySet
<1>9. \E q \in Solvers : Cardinality(DOMAIN msKnownSolutions') <= 1 + solvers'[q].cacheSize
  BY <1>1, <1>3, <1>8
<1> QED BY <1>1, <1>5, <1>6, <1>7, <1>9 DEF CacheInv

\* ... or the cache is emptied: the invariant stays.
LEMMA CacheReset ==
  ASSUME CacheInv, NEW s, ResetSolutionCache(s)
  PROVE  CacheInv' /\ runs' = runs
<1>1. /\ msKnownSolutions' = <<>> /\ DOMAIN msKnownSolutions' = {}
      /\ UNCHANGED <<files, temps, solvers, runs>>
  BY DEF ResetSolutionCache
<1>2. IsFiniteSet(DOMAIN msKnownSolutions') /\ Cardinality(DOMAIN msKnownSolutions') = 0
  BY <1>1, FS_EmptySet
<1>3. \E q \in Solvers : Cardinality(DOMAIN msKnownSolutions') <= 1 + solvers'[q].cacheSize
  <2>1. PICK q \in Solvers : TRUE BY SolverAssumption
  <2>2. solvers[q].cacheSize \in Nat BY DEF CacheInv, IsObject
  <2> QED BY <1>1, <1>2, <2>1, <2>2
<1>4. Cached(msKnownSolutions', files, temps) BY <1>1 DEF Cached
<1> QED BY <1>1, <1>2, <1>3, <1>4 DEF CacheInv

\* Every step keeps the invariant, and answers the problem it is asked about.
LEMMA CacheInvStep ==
  ASSUME CacheInv, [FlowNext]_vars
  PROVE  CacheInv' /\ [AnswerIsOfTheProblem]_lpVars
<1>1. CASE UNCHANGED lpVars
  BY <1>1 DEF lpVars, CacheInv, Cached, Unused, IsObject
<1>2. ASSUME CacheInv', runs' = runs PROVE CacheInv' /\ AnswerIsOfTheProblem
  BY <1>2 DEF AnswerIsOfTheProblem, CacheInv
<1>3. CASE LPNext
  <2>1. Direct \subseteq Solvers BY SolverAssumption
  <2>2. ASSUME NEW s \in Direct, Run(s) PROVE CacheInv' /\ AnswerIsOfTheProblem
    BY <2>1, <2>2, RunStep
  <2>3. ASSUME NEW s \in Direct, NEW f \in ProblemFiles, NEW format \in Formats, NEW useCaching \in BOOLEAN,
               RunProblem(s, f, format, useCaching)
        PROVE  CacheInv' /\ AnswerIsOfTheProblem
    BY <2>1, <2>3, RunProblemStep
  <2>4. ASSUME NEW s \in Direct, NEW n \in CacheSizes, SetSolutionCacheSize(s, n)
        PROVE  CacheInv' /\ AnswerIsOfTheProblem
    BY <1>2, <2>1, <2>4, CacheSizeSet
  <2>5. ASSUME NEW s \in Direct, ResetSolutionCache(s) PROVE CacheInv' /\ AnswerIsOfTheProblem
    BY <1>2, <2>5, CacheReset
  <2>6. CASE \/ \E s \in Direct : \E f \in ProblemFiles, format \in Formats :
                   LoadProblem(s, f, format) \/ SaveProblem(s, f, format)
             \/ \E s \in Direct : SaveProblemToTempfile(s, "CPLEX") \/ SaveSolutionToTempfile(s)
             \/ \E s \in Direct : \E f \in SolutionFiles : SaveSolution(s, f)
             \/ \E s \in Direct : \E f \in DOMAIN files \ ProblemFiles : LoadSolution(s, f)
             \/ Environment
    <3>1. CacheInv' /\ runs' = runs BY <2>1, <2>6, OtherCallsKeep
    <3> QED BY <1>2, <3>1
  <2> QED BY <1>3, <2>2, <2>3, <2>4, <2>5, <2>6 DEF LPNext, Calls
<1>4. ASSUME NEW prefix \in SavePrefixes, NEW useCaching \in BOOLEAN, Solve(prefix, useCaching)
      PROVE  CacheInv' /\ AnswerIsOfTheProblem
  BY <1>4, SolveStep
<1>5. ASSUME UNCHANGED <<files, temps, solvers>>, CacheUnchanged
      PROVE  CacheInv' /\ AnswerIsOfTheProblem
  <2>1. UNCHANGED <<files, temps, solvers, msKnownSolutions, runs>> BY <1>5 DEF CacheUnchanged
  <2>2. CacheInv' BY <2>1 DEF CacheInv, Cached, Unused, IsObject
  <2> QED BY <1>2, <2>1, <2>2
<1>6. CASE \E e \in network.pool : AddEdge(e)
  BY <1>5, <1>6 DEF AddEdge
<1>7. CASE \E b \in Bounded : SetCommoditiesMaxInFlow(b[1], b[2], b[3]) \/ SetCommoditiesMinInFlow(b[1], b[2], b[3])
  BY <1>5, <1>7 DEF SetCommoditiesMaxInFlow, SetCommoditiesMinInFlow
<1> QED BY <1>1, <1>3, <1>4, <1>6, <1>7 DEF FlowNext, vars

\* The invariant holds throughout.
LEMMA CacheInvHolds == FlowSpec => []CacheInv
<1>1. FlowInit => CacheInv BY CacheInvInit DEF FlowInit
<1>2. CacheInv /\ [FlowNext]_vars => CacheInv' BY CacheInvStep
<1> QED BY <1>1, <1>2, PTL DEF FlowSpec

\* The largest size any solver allows is one of the sizes.
LEMMA LargestSize ==
  ASSUME NEW S, IsFiniteSet(S), NEW size, \A s \in S : size[s] \in Nat
  PROVE  \A s \in S : size[s] <= Max({size[x] : x \in S}) /\ Max({size[x] : x \in S}) \in Nat
<1> DEFINE T == {s \in SUBSET S : s = {} \/ \E m \in s : \A x \in s : size[x] <= size[m]}
           V == {size[x] : x \in S}
<1>1. {} \in T OBVIOUS
<1>2. ASSUME NEW s \in SUBSET S, NEW x \in S, s \in T, x \notin s PROVE s \cup {x} \in T
  <2>1. CASE s = {} BY <2>1
  <2>2. CASE s # {}
    <3>1. PICK m \in s : \A y \in s : size[y] <= size[m] BY <1>2, <2>2
    <3>2. CASE size[m] <= size[x] BY <3>1, <3>2
    <3>3. CASE ~(size[m] <= size[x]) BY <3>1, <3>3
    <3> QED BY <3>2, <3>3
  <2> QED BY <2>1, <2>2
<1>3. S \in T
  <2> HIDE DEF T
  <2> QED BY <1>1, <1>2, FiniteInduction
<1> SUFFICES ASSUME NEW s \in S PROVE size[s] <= Max(V) /\ Max(V) \in Nat OBVIOUS
<1>4. PICK m \in S : \A x \in S : size[x] <= size[m] BY <1>3
<1>5. \E v \in V : \A u \in V : v >= u BY <1>4
<1>6. Max(V) \in V /\ \A u \in V : Max(V) >= u
  <2> HIDE DEF V
  <2> QED BY <1>5, Zenon DEF Max
<1>7. Max(V) \in Nat /\ size[s] \in V BY <1>6
<1> QED BY <1>6, <1>7

\* The cache holds at most one solution more than the largest size allows
\* (registerSolution, setSolutionCacheSize).
THEOREM CacheIsLimited == FlowSpec => []CacheWithinLimit
<1>1. CacheInv => CacheWithinLimit
  <2> SUFFICES ASSUME CacheInv PROVE CacheWithinLimit OBVIOUS
  <2> DEFINE size == [s \in Solvers |-> solvers[s].cacheSize]
             V == {solvers[s].cacheSize : s \in Solvers}
  <2>1. PICK s \in Solvers : Cardinality(DOMAIN msKnownSolutions) <= 1 + solvers[s].cacheSize
    BY DEF CacheInv
  <2>2. IsFiniteSet(Solvers) BY SolverAssumption
  <2>3. \A q \in Solvers : size[q] \in Nat BY DEF CacheInv, IsObject
  <2>4. V = {size[q] : q \in Solvers} OBVIOUS
  <2>5. Cardinality(DOMAIN msKnownSolutions) \in Nat BY FS_CardinalityType DEF CacheInv
  <2>6. size[s] = solvers[s].cacheSize OBVIOUS
  <2> HIDE DEF size, V
  <2>7. size[s] <= Max(V) /\ Max(V) \in Nat BY <2>2, <2>3, <2>4, LargestSize
  <2> QED BY <2>1, <2>3, <2>5, <2>6, <2>7 DEF CacheWithinLimit, V
<1> QED BY <1>1, CacheInvHolds, PTL

\* Every run answers the problem in its file, or not at all, whatever is in the
\* cache (CommandlineSolver::run, loadKnownSolution, registerSolution).
THEOREM AnswersFitTheProblem == FlowSpec => AnswersAreOfTheProblem
<1>1. CacheInv /\ [FlowNext]_vars => [AnswerIsOfTheProblem]_lpVars BY CacheInvStep
<1>2. FlowSpec => [][AnswerIsOfTheProblem]_lpVars
  BY <1>1, CacheInvHolds, PTL DEF FlowSpec
<1> QED BY <1>2 DEF AnswersAreOfTheProblem, AnswerIsOfTheProblem

-----------------------------------------------------------------------------
(* The rows that create_problem writes down, and the flows that meet them. *)

-----------------------------------------------------------------------------
(* The flow problem: where its columns are.                                    *)

\* The columns of the network's edges come first and in their order.
Lined(n, cs) ==
  /\ NetworkOK(n) /\ cs \in Seq(n.pool) /\ Len(n.edges) <= Len(cs)
  /\ \A i \in 1 .. Len(n.edges) : cs[i] = n.edges[i]

\* The columns there are.
Columns(n) == 1 .. Len(n.edges) * n.commodities

\* The edges of the network, and those into and out of a vertex.
LEMMA EdgesAre ==
  ASSUME NEW n, NetworkOK(n)
  PROVE  /\ n.commodities \in Nat /\ n.edges \in Seq(n.pool) /\ NoneTwice(n.edges)
         /\ n.edges \in Seq(ToSet(n.edges)) /\ ToSet(n.edges) = Held(n.edges)
         /\ ToSet(n.edges) \subseteq n.pool
         /\ \A v : /\ InEdges(n, v) \in Seq(ToSet(n.edges))
                   /\ OutEdges(n, v) \in Seq(ToSet(n.edges))
                   /\ ToSet(InEdges(n, v)) = {e \in ToSet(n.edges) : n.ends[e][2] = v}
                   /\ ToSet(OutEdges(n, v)) = {e \in ToSet(n.edges) : n.ends[e][1] = v}
<1>1. n.commodities \in Nat /\ n.edges \in Seq(n.pool) /\ NoneTwice(n.edges) BY DEF NetworkOK, NoneTwice
<1>2. \A s : ToSet(s) = Held(s) BY DEF ToSet, Held
<1>3. n.edges \in Seq(ToSet(n.edges)) /\ ToSet(n.edges) \subseteq n.pool
  <2>1. \A i \in 1 .. Len(n.edges) : n.edges[i] \in Held(n.edges) BY <1>1 DEF Held
  <2>2. n.edges \in Seq(Held(n.edges)) BY <1>1, <2>1
  <2>3. Held(n.edges) \subseteq n.pool BY <1>1 DEF Held
  <2> QED BY <1>2, <2>2, <2>3
<1>4. ASSUME NEW v, NEW S, S \subseteq ToSet(n.edges)
      PROVE  Among(n.edges, S) \in Seq(ToSet(n.edges)) /\ ToSet(Among(n.edges, S)) = S
  <2>1. /\ Among(n.edges, S) \in Seq(ToSet(n.edges)) /\ Held(Among(n.edges, S)) = Held(n.edges) \cap S
    BY <1>3, AmongHolds
  <2> QED BY <1>2, <1>4, <2>1
<1>5. ASSUME NEW v
      PROVE  /\ InEdges(n, v) \in Seq(ToSet(n.edges))
             /\ OutEdges(n, v) \in Seq(ToSet(n.edges))
             /\ ToSet(InEdges(n, v)) = {e \in ToSet(n.edges) : n.ends[e][2] = v}
             /\ ToSet(OutEdges(n, v)) = {e \in ToSet(n.edges) : n.ends[e][1] = v}
  BY <1>4 DEF InEdges, OutEdges
<1> QED BY <1>1, <1>2, <1>3, <1>5

\* The column of an edge and a commodity (getColumnIndex).
LEMMA ColumnFound ==
  ASSUME NEW n, NEW cs, Lined(n, cs)
  PROVE  /\ \A i \in 1 .. Len(n.edges) : Place(cs, n.edges[i]) = i
         /\ \A i \in 1 .. Len(n.edges), k \in Commodities(n) :
               GetColumnIndex(n, cs, n.edges[i], k) = (i - 1) * n.commodities + k
         /\ \A e \in ToSet(n.edges), k \in Commodities(n) : GetColumnIndex(n, cs, e, k) \in Columns(n)
<1>1. /\ n.commodities \in Nat /\ n.edges \in Seq(n.pool) /\ NoneTwice(n.edges)
      /\ ToSet(n.edges) = Held(n.edges) /\ cs \in Seq(n.pool) /\ Len(n.edges) <= Len(cs)
      /\ \A i \in 1 .. Len(n.edges) : cs[i] = n.edges[i]
  BY EdgesAre DEF Lined
<1>2. ASSUME NEW i \in 1 .. Len(n.edges) PROVE Place(cs, n.edges[i]) = i
  <2> DEFINE First(j) == cs[j] = n.edges[i] /\ \A l \in 1 .. j - 1 : cs[l] # n.edges[i]
  <2>1. i \in DOMAIN cs /\ i \in Nat BY <1>1
  <2>2. \A l \in 1 .. i - 1 : l \in 1 .. Len(n.edges) /\ l # i BY <1>1
  <2>3. \A l \in 1 .. i - 1 : n.edges[l] # n.edges[i] BY <1>1, <2>2 DEF NoneTwice
  <2>4. First(i) BY <1>1, <2>2, <2>3
  <2>5. ASSUME NEW j \in DOMAIN cs, First(j) PROVE j = i
    <3>1. j \in Nat /\ j >= 1 BY <1>1
    <3>2. ~(j < i)
      <4> SUFFICES ASSUME j < i PROVE FALSE OBVIOUS
      <4>1. j \in 1 .. i - 1 BY <2>1, <3>1
      <4> QED BY <2>4, <2>5, <4>1
    <3>3. ~(i < j)
      <4> SUFFICES ASSUME i < j PROVE FALSE OBVIOUS
      <4>1. i \in 1 .. j - 1 BY <2>1, <3>1
      <4> QED BY <2>4, <2>5, <4>1
    <3> QED BY <2>1, <3>1, <3>2, <3>3
  <2>6. Place(cs, n.edges[i]) = CHOOSE j \in DOMAIN cs : First(j) BY DEF Place
  <2> HIDE DEF First
  <2> QED BY <2>1, <2>4, <2>5, <2>6
<1>3. ASSUME NEW i \in 1 .. Len(n.edges), NEW k \in Commodities(n)
      PROVE  /\ GetColumnIndex(n, cs, n.edges[i], k) = (i - 1) * n.commodities + k
             /\ GetColumnIndex(n, cs, n.edges[i], k) \in Columns(n)
  <2>1. GetColumnIndex(n, cs, n.edges[i], k) = (i - 1) * n.commodities + k
    BY <1>2 DEF GetColumnIndex
  <2>2. k \in 1 .. n.commodities /\ Len(n.edges) \in Nat BY <1>1 DEF Commodities
  <2>3. (i - 1) * n.commodities + k \in 1 .. Len(n.edges) * n.commodities
    BY <1>1, <2>2, PlaceInLines
  <2> QED BY <2>1, <2>3 DEF Columns
<1>4. ASSUME NEW e \in ToSet(n.edges) PROVE \E i \in 1 .. Len(n.edges) : e = n.edges[i]
  BY <1>1 DEF Held
<1> QED BY <1>2, <1>3, <1>4

-----------------------------------------------------------------------------
(* What the rows of the problem add up.                                        *)

\* Values for the columns, and the flows they are.
Assigned(n, cs, a) == Lined(n, cs) /\ a \in [Columns(n) -> Nat]
FlowOf(n, cs, a) ==
  [e \in ToSet(n.edges) |-> [k \in Commodities(n) |-> a[GetColumnIndex(n, cs, e, k)]]]

\* Each is a value of the flow.
LEMMA FlowOfIs ==
  ASSUME NEW n, NEW cs, NEW a, Assigned(n, cs, a)
  PROVE  /\ FlowOf(n, cs, a) \in [ToSet(n.edges) -> [Commodities(n) -> Nat]]
         /\ \A e \in ToSet(n.edges), k \in Commodities(n) :
               /\ GetColumnIndex(n, cs, e, k) \in Columns(n)
               /\ FlowOf(n, cs, a)[e][k] = a[GetColumnIndex(n, cs, e, k)]
<1>1. \A e \in ToSet(n.edges), k \in Commodities(n) : GetColumnIndex(n, cs, e, k) \in Columns(n)
  BY ColumnFound DEF Assigned
<1>2. \A e \in ToSet(n.edges), k \in Commodities(n) : a[GetColumnIndex(n, cs, e, k)] \in Nat
  BY <1>1 DEF Assigned
<1> QED BY <1>1, <1>2 DEF FlowOf

\* The entries of rows.
EntriesSet(n) == Seq(Columns(n) \X Int)
BoundsSet == [min : Int, max : Int, type : {"Exact", "Lower", "LowerUpper"}]
RowSet(n) == [bounds : BoundsSet, entries : EntriesSet(n)]

\* What entries add up to, one list behind the other.
LEMMA TotalJoins ==
  ASSUME NEW n, NEW a \in [Columns(n) -> Nat], NEW s \in EntriesSet(n), NEW t \in EntriesSet(n)
  PROVE  Total(s, a) \in Int /\ Total(s \o t, a) = Total(s, a) + Total(t, a)
<1> DEFINE T(l) == [i \in DOMAIN l |-> l[i][2] * a[l[i][1]]]
           st == s \o t
<1>1. ASSUME NEW l \in EntriesSet(n) PROVE T(l) \in Seq(Int) /\ Len(T(l)) = Len(l)
  <2>1. \A i \in 1 .. Len(l) : l[i][1] \in Columns(n) /\ l[i][2] \in Int BY <1>1 DEF EntriesSet
  <2>2. \A i \in 1 .. Len(l) : a[l[i][1]] \in Int BY <2>1
  <2>3. \A i \in 1 .. Len(l) : l[i][2] * a[l[i][1]] \in Int BY <2>1, <2>2
  <2>4. DOMAIN l = 1 .. Len(l) /\ Len(l) \in Nat BY <1>1 DEF EntriesSet
  <2> QED BY <2>3, <2>4
<1>2. /\ st \in EntriesSet(n) /\ Len(st) = Len(s) + Len(t)
      /\ \A i \in 1 .. Len(s) : st[i] = s[i]
      /\ \A i \in 1 .. Len(t) : st[Len(s) + i] = t[i]
  BY JoinedAt DEF EntriesSet
<1>3. Len(s) \in Nat /\ Len(t) \in Nat /\ DOMAIN s = 1 .. Len(s) /\ DOMAIN t = 1 .. Len(t)
      /\ DOMAIN st = 1 .. Len(s) + Len(t)
  BY <1>2 DEF EntriesSet
<1>4. T(st) = T(s) \o T(t)
  <2> DEFINE ts == T(s)
             tt == T(t)
             u == T(st)
  <2>1. ts \in Seq(Int) /\ tt \in Seq(Int) /\ u \in Seq(Int) BY <1>1, <1>2
  <2>2. Len(ts) = Len(s) /\ Len(tt) = Len(t) /\ Len(u) = Len(s) + Len(t) BY <1>1, <1>2
  <2>3. \A i \in 1 .. Len(s) : u[i] = ts[i]
    <3> HIDE DEF st
    <3>1. \A i \in 1 .. Len(s) : i \in DOMAIN st /\ i \in DOMAIN s BY <1>3
    <3> QED BY <1>2, <3>1
  <2>4. \A i \in 1 .. Len(t) : u[Len(s) + i] = tt[i]
    <3> HIDE DEF st
    <3>1. \A i \in 1 .. Len(t) : Len(s) + i \in DOMAIN st /\ i \in DOMAIN t BY <1>3
    <3> QED BY <1>2, <3>1
  <2> HIDE DEF ts, tt, u, st
  <2>5. /\ ts \o tt \in Seq(Int) /\ Len(ts \o tt) = Len(s) + Len(t)
        /\ \A i \in 1 .. Len(s) : (ts \o tt)[i] = ts[i]
        /\ \A i \in 1 .. Len(t) : (ts \o tt)[Len(s) + i] = tt[i]
    <3>1. /\ ts \o tt \in Seq(Int) /\ Len(ts \o tt) = Len(ts) + Len(tt)
          /\ \A i \in 1 .. Len(ts) : (ts \o tt)[i] = ts[i]
          /\ \A i \in 1 .. Len(tt) : (ts \o tt)[Len(ts) + i] = tt[i]
      <4>1. ts \in Seq(Int) /\ tt \in Seq(Int) BY <2>1
      <4> QED BY <4>1, JoinedAt
    <3> QED BY <2>2, <3>1
  <2> DEFINE q == ts \o tt
  <2>6. q \in Seq(Int) /\ Len(q) = Len(u) /\ u \in Seq(Int) BY <2>1, <2>2, <2>5
  <2>7. \A i \in 1 .. Len(u) : u[i] = q[i]
    <3> SUFFICES ASSUME NEW i \in 1 .. Len(u) PROVE u[i] = q[i] OBVIOUS
    <3>1. CASE i \in 1 .. Len(s) BY <2>3, <2>5, <3>1
    <3>2. CASE i \notin 1 .. Len(s)
      <4>1. i - Len(s) \in 1 .. Len(t) /\ Len(s) + (i - Len(s)) = i BY <1>3, <2>2, <3>2
      <4>2. u[Len(s) + (i - Len(s))] = (ts \o tt)[Len(s) + (i - Len(s))] BY <2>4, <2>5, <4>1
      <4> QED BY <4>1, <4>2
    <3> QED BY <3>1, <3>2
  <2> HIDE DEF q
  <2>8. u = q
    <3>1. u = [i \in 1 .. Len(u) |-> u[i]] /\ q = [i \in 1 .. Len(u) |-> q[i]] BY <2>6
    <3>2. [i \in 1 .. Len(u) |-> u[i]] = [i \in 1 .. Len(u) |-> q[i]] BY <2>7, Zenon
    <3> QED BY <3>1, <3>2
  <2> QED BY <2>8 DEF u, q, ts, tt
<1>5. T(s) \in Seq(Int) /\ T(t) \in Seq(Int) BY <1>1
<1>6. Total(s, a) = SumOf(T(s)) /\ Total(t, a) = SumOf(T(t)) /\ Total(st, a) = SumOf(T(st)) BY DEF Total
<1> HIDE DEF T
<1>7. SumOf(T(s) \o T(t)) = SumOf(T(s)) + SumOf(T(t)) /\ SumOf(T(s)) \in Int
  BY <1>5, SumJoins, SumOfFew
<1> QED BY <1>4, <1>6, <1>7

\* The same for a chain of them.
LEMMA TotalOfChained ==
  ASSUME NEW n, NEW a \in [Columns(n) -> Nat], NEW lists \in Seq(EntriesSet(n))
  PROVE  Total(Chained(lists), a) = SumOf([i \in 1 .. Len(lists) |-> Total(lists[i], a)])
<1> DEFINE A == Columns(n) \X Int
           g == [s \in Seq(A) |-> Total(s, a)]
<1>1. EntriesSet(n) = Seq(A) BY DEF EntriesSet
<1>2. g \in [Seq(A) -> Int] BY <1>1, TotalJoins
<1>3. <<>> \in Seq(A) /\ g[<<>>] = Total(<<>>, a) OBVIOUS
<1>4. Total(<<>>, a) = 0
  <2>1. Total(<<>>, a) = SumOf([i \in {} |-> 0])
    <3>1. [i \in DOMAIN <<>> |-> <<>>[i][2] * a[<<>>[i][1]]] = [i \in {} |-> 0] OBVIOUS
    <3> QED BY <3>1 DEF Total
  <2>2. [i \in {} |-> 0] = <<>> OBVIOUS
  <2> QED BY <2>1, <2>2, SumOfFew
<1>5. ASSUME NEW s \in Seq(A), NEW t \in Seq(A) PROVE g[s \o t] = g[s] + g[t]
  <2>1. s \o t \in Seq(A) BY JoinedAt
  <2>2. Total(s \o t, a) = Total(s, a) + Total(t, a)
    <3>1. s \in EntriesSet(n) /\ t \in EntriesSet(n) BY <1>1
    <3> QED BY <3>1, TotalJoins
  <2>3. g[s \o t] = Total(s \o t, a) BY <2>1
  <2> QED BY <2>2, <2>3
<1>6. lists \in Seq(Seq(A)) BY <1>1
<1> HIDE DEF g, A
<1>7. g[Chained(lists)] = SumOf([i \in 1 .. Len(lists) |-> g[lists[i]]])
  BY <1>2, <1>3, <1>4, <1>5, <1>6, SumOverChained
<1>8. Chained(lists) \in Seq(A) BY <1>6, ChainedHolds
<1>9. \A i \in 1 .. Len(lists) : lists[i] \in Seq(A) BY <1>6
<1>10. [i \in 1 .. Len(lists) |-> g[lists[i]]] = [i \in 1 .. Len(lists) |-> Total(lists[i], a)]
  BY <1>9 DEF g
<1> QED BY <1>7, <1>8, <1>10 DEF g

\* The flow of a commodity over edges, as the entries of rows add it up.
LEMMA TotalOfEntries ==
  ASSUME NEW n, NEW cs, NEW a, Assigned(n, cs, a), NEW es \in Seq(ToSet(n.edges)),
         NEW k \in Commodities(n), NEW c \in Int
  PROVE  /\ Entries(n, cs, es, k, c) \in EntriesSet(n) /\ Len(Entries(n, cs, es, k, c)) = Len(es)
         /\ Total(Entries(n, cs, es, k, c), a) = c * FlowSum(FlowOf(n, cs, a), es, k)
         /\ FlowSum(FlowOf(n, cs, a), es, k) \in Nat
<1> DEFINE l == Entries(n, cs, es, k, c)
           F == FlowOf(n, cs, a)
           r == [i \in DOMAIN l |-> l[i][2] * a[l[i][1]]]
           s == [i \in DOMAIN es |-> F[es[i]][k]]
<1>1. /\ Len(es) \in Nat /\ DOMAIN es = 1 .. Len(es)
      /\ \A i \in 1 .. Len(es) : es[i] \in ToSet(n.edges)
  OBVIOUS
<1>2. \A i \in 1 .. Len(es) : /\ GetColumnIndex(n, cs, es[i], k) \in Columns(n)
                              /\ F[es[i]][k] = a[GetColumnIndex(n, cs, es[i], k)] /\ F[es[i]][k] \in Nat
  BY <1>1, FlowOfIs
<1>3. DOMAIN l = 1 .. Len(es) /\ \A i \in 1 .. Len(es) : l[i] = <<GetColumnIndex(n, cs, es[i], k), c>>
  BY <1>1 DEF Entries
<1>4. l \in EntriesSet(n) /\ Len(l) = Len(es)
  <2>1. l = [i \in 1 .. Len(es) |-> l[i]] BY <1>1 DEF Entries
  <2>2. \A i \in 1 .. Len(es) : <<GetColumnIndex(n, cs, es[i], k), c>> \in Columns(n) \X Int BY <1>2
  <2> HIDE DEF l, F
  <2>3. \A i \in 1 .. Len(es) : l[i] \in Columns(n) \X Int BY <1>3, <2>2
  <2> QED BY <1>1, <2>1, <2>3, ListMade DEF EntriesSet
<1>5. Total(l, a) = SumOf(r) /\ FlowSum(F, es, k) = SumOf(s) BY DEF Total, FlowSum
<1>6. s \in Seq(Nat) /\ s \in Seq(Int) /\ Len(s) = Len(es) BY <1>1, <1>2
<1>7. \A i \in 1 .. Len(es) : r[i] = c * s[i] /\ r[i] \in Int
  <2> HIDE DEF l, F
  <2> QED BY <1>1, <1>2, <1>3
<1>8. DOMAIN r = 1 .. Len(es) /\ r = [i \in 1 .. Len(es) |-> r[i]]
  <2> HIDE DEF l
  <2> QED BY <1>3
<1> HIDE DEF r, s, l, F
<1>9. r \in Seq(Int) /\ Len(r) = Len(es) BY <1>1, <1>7, <1>8
<1>10. SumOf(r) = c * SumOf(s) BY <1>6, <1>7, <1>9, SumScaled
<1>11. SumOf(s) \in Nat BY <1>6, SumNotNegative
<1> QED BY <1>4, <1>5, <1>10, <1>11 DEF l, F

\* The flow of a set of commodities over an edge.
LEMMA TotalOfSet ==
  ASSUME NEW n, NEW cs, NEW a, Assigned(n, cs, a), NEW e \in ToSet(n.edges),
         NEW ks, ks \subseteq Commodities(n)
  PROVE  /\ EntriesOf(n, cs, e, ks) \in EntriesSet(n)
         /\ ks # {} => Held(EntriesOf(n, cs, e, ks)) # {}
         /\ Total(EntriesOf(n, cs, e, ks), a) = Together(FlowOf(n, cs, a), e, ks)
         /\ Together(FlowOf(n, cs, a), e, ks) \in Nat
<1> DEFINE list == Ascending(ks)
           l == EntriesOf(n, cs, e, ks)
           F == FlowOf(n, cs, a)
           r == [i \in DOMAIN l |-> l[i][2] * a[l[i][1]]]
           s == [j \in DOMAIN list |-> F[e][list[j]]]
<1>1. list \in Seq(Nat) /\ Held(list) = ks
  <2>1. n.commodities \in Nat BY EdgesAre DEF Assigned, Lined
  <2>2. IsFiniteSet(Commodities(n)) /\ Commodities(n) \subseteq Nat BY <2>1, FS_Interval DEF Commodities
  <2>3. IsFiniteSet(ks) /\ ks \subseteq Nat BY <2>2, FS_Subset
  <2> QED BY <2>3, AscendingHolds
<1>2. DOMAIN l = DOMAIN list /\ \A j \in DOMAIN list : l[j] = <<GetColumnIndex(n, cs, e, list[j]), 1>>
  BY DEF EntriesOf
<1> HIDE DEF list
<1>3. \A j \in DOMAIN list : list[j] \in ks BY <1>1 DEF Held
<1>4. \A j \in DOMAIN list : /\ GetColumnIndex(n, cs, e, list[j]) \in Columns(n)
                             /\ F[e][list[j]] = a[GetColumnIndex(n, cs, e, list[j])] /\ F[e][list[j]] \in Nat
  BY <1>3, FlowOfIs
<1>5. l \in EntriesSet(n)
  <2>1. l = [i \in DOMAIN list |-> l[i]] BY <1>2 DEF EntriesOf, list
  <2>2. \A j \in DOMAIN list : l[j] \in Columns(n) \X Int BY <1>2, <1>4
  <2>3. DOMAIN list = 1 .. Len(list) /\ Len(list) \in Nat BY <1>1
  <2> HIDE DEF l
  <2> QED BY <2>1, <2>2, <2>3 DEF EntriesSet
<1>6. Total(l, a) = SumOf(r) /\ Together(F, e, ks) = SumOf(s) BY DEF Total, Together, list
<1>7. r = s
  <2> HIDE DEF l, F
  <2>1. \A j \in DOMAIN list : l[j][2] * a[l[j][1]] = F[e][list[j]] BY <1>2, <1>4
  <2> QED BY <1>2, <2>1
<1>8. s \in Seq(Nat)
  <2>1. DOMAIN list = 1 .. Len(list) /\ Len(list) \in Nat BY <1>1
  <2> QED BY <1>4, <2>1
<1>9. SumOf(s) \in Nat BY <1>8, SumNotNegative
<1>10. ks # {} => Held(l) # {}
  <2>1. ks # {} => \E j : j \in DOMAIN list BY <1>1 DEF Held
  <2> HIDE DEF l
  <2> QED BY <1>2, <2>1 DEF Held
<1> HIDE DEF r, s, l, F
<1> QED BY <1>5, <1>6, <1>7, <1>9, <1>10 DEF l, F

\* And over several edges.
LEMMA TotalOfSets ==
  ASSUME NEW n, NEW cs, NEW a, Assigned(n, cs, a), NEW es \in Seq(ToSet(n.edges)),
         NEW ks, ks \subseteq Commodities(n)
  PROVE  LET l == Chained([i \in DOMAIN es |-> EntriesOf(n, cs, es[i], ks)]) IN
         /\ l \in EntriesSet(n)
         /\ ks # {} /\ es # <<>> => Held(l) # {}
         /\ Total(l, a) = SetSum(FlowOf(n, cs, a), es, ks)
         /\ SetSum(FlowOf(n, cs, a), es, ks) \in Nat
<1> DEFINE lists == [i \in DOMAIN es |-> EntriesOf(n, cs, es[i], ks)]
           F == FlowOf(n, cs, a)
           s == [i \in DOMAIN es |-> Together(F, es[i], ks)]
<1>1. /\ Len(es) \in Nat /\ DOMAIN es = 1 .. Len(es)
      /\ \A i \in 1 .. Len(es) : es[i] \in ToSet(n.edges)
  OBVIOUS
<1>2. \A i \in 1 .. Len(es) :
        /\ EntriesOf(n, cs, es[i], ks) \in EntriesSet(n)
        /\ ks # {} => Held(EntriesOf(n, cs, es[i], ks)) # {}
        /\ Total(EntriesOf(n, cs, es[i], ks), a) = Together(F, es[i], ks) /\ Together(F, es[i], ks) \in Nat
  BY <1>1, TotalOfSet
<1>3. lists \in Seq(EntriesSet(n)) /\ Len(lists) = Len(es)
      /\ \A i \in 1 .. Len(es) : lists[i] = EntriesOf(n, cs, es[i], ks)
  BY <1>1, <1>2
<1>4. SetSum(F, es, ks) = SumOf(s) BY DEF SetSum
<1>5. s \in Seq(Nat) BY <1>1, <1>2
<1>6. s = [i \in 1 .. Len(lists) |-> Total(lists[i], a)]
  <2> HIDE DEF F, lists
  <2>1. \A i \in 1 .. Len(es) : Total(lists[i], a) = Together(F, es[i], ks) BY <1>2, <1>3
  <2> QED BY <1>1, <1>3, <2>1
<1> HIDE DEF lists, F, s
<1>7. Total(Chained(lists), a) = SumOf(s)
  <2>1. a \in [Columns(n) -> Nat] BY DEF Assigned
  <2> QED BY <1>3, <1>6, <2>1, TotalOfChained
<1>8. SumOf(s) \in Nat BY <1>5, SumNotNegative
<1>9. /\ Chained(lists) \in EntriesSet(n)
      /\ \A x : x \in Held(Chained(lists)) <=> \E i \in 1 .. Len(lists) : x \in Held(lists[i])
  <2>1. lists \in Seq(Seq(Columns(n) \X Int)) BY <1>3 DEF EntriesSet
  <2> QED BY <2>1, ChainedHolds DEF EntriesSet
<1>10. ASSUME ks # {}, es # <<>> PROVE Held(Chained(lists)) # {}
  <2>1. 1 \in 1 .. Len(es) BY <1>1, <1>10
  <2>2. Held(lists[1]) # {} BY <1>2, <1>3, <1>10, <2>1
  <2> QED BY <1>3, <1>9, <2>1, <2>2
<1> QED BY <1>4, <1>7, <1>8, <1>9, <1>10 DEF lists, F

-----------------------------------------------------------------------------
(* Which rows are met.                                                         *)

\* What bounds of each kind admit.
LEMMA AdmitsWhat ==
  /\ \A x, t : Admits(Bounds(x, x, "Exact"), t) <=> t = x
  /\ \A c, t \in Nat : c <= IntMax => (Admits(Bounds(0, c, "LowerUpper"), t) <=> t <= c)
  /\ \A min, t \in Nat : \A max \in 0 .. IntMax \cup {UIntMax} :
        Admits(LowerLimit(min, max), t) <=> Within(t, min, max)
<1>0. IntMax \in Nat BY IntMaxAssumption
<1>1. ASSUME NEW x, NEW t PROVE Admits(Bounds(x, x, "Exact"), t) <=> t = x
  BY DEF Admits, Bounds
<1>2. ASSUME NEW c \in Nat, NEW t \in Nat, c <= IntMax
      PROVE  Admits(Bounds(0, c, "LowerUpper"), t) <=> t <= c
  BY <1>0, <1>2 DEF Admits, Bounds, AboveMin, BelowMax
<1>3. ASSUME NEW min \in Nat, NEW t \in Nat, NEW max \in 0 .. IntMax \cup {UIntMax}
      PROVE  Admits(LowerLimit(min, max), t) <=> Within(t, min, max)
  <2>1. CASE max = UIntMax BY <2>1 DEF Admits, Bounds, LowerLimit, Within, AboveMin
  <2>2. CASE max # UIntMax
    <3>1. max \in Nat /\ max <= IntMax BY <1>0, <2>2
    <3>2. LowerLimit(min, max) = Bounds(min, max, "LowerUpper") BY <2>2 DEF LowerLimit
    <3>3. Admits(Bounds(min, max, "LowerUpper"), t) <=> min <= t /\ t <= max
      BY <1>0, <3>1 DEF Admits, Bounds, AboveMin, BelowMax
    <3>4. Within(t, min, max) <=> min <= t /\ t <= max BY <2>2, <3>1 DEF Within
    <3> QED BY <3>2, <3>3, <3>4
  <2> QED BY <2>1, <2>2
<1> QED BY <1>1, <1>2, <1>3

\* The row of the capacity of an edge.
LEMMA CapacityMet ==
  ASSUME NEW n, NEW cs, NEW a, Assigned(n, cs, a), NEW i \in 1 .. Len(n.edges)
  PROVE  /\ CapacityRow(n, i) \in RowSet(n)
         /\ n.capacity[n.edges[i]] <= IntMax =>
               (Meets(CapacityRow(n, i), a) <=> SumOf(FlowOf(n, cs, a)[n.edges[i]]) <= n.capacity[n.edges[i]])
<1> DEFINE F == FlowOf(n, cs, a)
           e == n.edges[i]
           l == CapacityRow(n, i).entries
           r == [k \in DOMAIN l |-> l[k][2] * a[l[k][1]]]
<1>1. /\ n.commodities \in Nat /\ e \in ToSet(n.edges) /\ e \in n.pool
      /\ n.capacity[e] \in Nat
  <2>1. Len(n.edges) \in Nat /\ DOMAIN n.edges = 1 .. Len(n.edges) /\ e \in ToSet(n.edges)
    BY EdgesAre DEF Assigned, Lined, Held
  <2>2. n.commodities \in Nat /\ e \in n.pool BY <2>1, EdgesAre DEF Assigned, Lined
  <2>3. n.capacity[e] \in Nat BY <2>2 DEF Assigned, Lined, NetworkOK
  <2> QED BY <2>1, <2>2, <2>3
<1>2. l = [k \in Commodities(n) |-> <<(i - 1) * n.commodities + k, 1>>] BY DEF CapacityRow
<1>3. \A k \in Commodities(n) : /\ (i - 1) * n.commodities + k \in Columns(n)
                                /\ F[e][k] = a[(i - 1) * n.commodities + k] /\ F[e][k] \in Nat
  <2>1. \A k \in Commodities(n) : GetColumnIndex(n, cs, e, k) = (i - 1) * n.commodities + k
    BY ColumnFound DEF Assigned
  <2> QED BY <1>1, <2>1, FlowOfIs
<1>4. F[e] \in [Commodities(n) -> Nat] BY <1>1, FlowOfIs
<1> HIDE DEF F, e
<1>5. r = F[e]
  <2>1. DOMAIN l = Commodities(n) /\ \A k \in Commodities(n) : l[k] = <<(i - 1) * n.commodities + k, 1>>
    BY <1>2
  <2> HIDE DEF l
  <2>2. \A k \in Commodities(n) : l[k][2] * a[l[k][1]] = F[e][k] BY <1>3, <2>1
  <2> QED BY <1>4, <2>1, <2>2
<1>6. F[e] \in Seq(Nat) BY <1>1, <1>4 DEF Commodities
<1>7. l \in EntriesSet(n)
  <2>1. \A k \in Commodities(n) : <<(i - 1) * n.commodities + k, 1>> \in Columns(n) \X Int BY <1>3
  <2>2. l = [k \in 1 .. n.commodities |-> l[k]] BY <1>2 DEF Commodities
  <2>3. \A k \in 1 .. n.commodities : l[k] \in Columns(n) \X Int BY <1>2, <2>1 DEF Commodities
  <2> HIDE DEF l
  <2> QED BY <1>1, <2>2, <2>3, ListMade DEF EntriesSet
<1>8. SumOf(F[e]) \in Nat BY <1>6, SumNotNegative
<1>9. Total(l, a) = SumOf(F[e]) BY <1>5 DEF Total
<1>10. Meets(CapacityRow(n, i), a) <=> Admits(Bounds(0, n.capacity[e], "LowerUpper"), Total(l, a))
  BY DEF Meets, CapacityRow, e
<1> HIDE DEF l
<1>11. n.capacity[e] <= IntMax => (Meets(CapacityRow(n, i), a) <=> SumOf(F[e]) <= n.capacity[e])
  BY <1>1, <1>8, <1>9, <1>10, AdmitsWhat
<1>12. CapacityRow(n, i) \in RowSet(n)
  <2>1. CapacityRow(n, i) = [bounds |-> Bounds(0, n.capacity[e], "LowerUpper"), entries |-> l]
    BY DEF CapacityRow, e, l
  <2> QED BY <1>1, <1>7, <2>1 DEF RowSet, BoundsSet, Bounds
<1> QED BY <1>11, <1>12 DEF F, e

\* The row of a set of commodities on the first edge.
LEMMA SubCapacityMet ==
  ASSUME NEW n, NEW cs, NEW a, Assigned(n, cs, a), 1 \in 1 .. Len(n.edges),
         NEW s, s[1] \subseteq Commodities(n), s[2] \in Nat, s[2] <= IntMax
  PROVE  /\ SubCapacityRow(n, s) \in RowSet(n)
         /\ Meets(SubCapacityRow(n, s), a) <=> Together(FlowOf(n, cs, a), n.edges[1], s[1]) <= s[2]
<1> DEFINE e == n.edges[1]
           ks == Ascending(s[1])
           l == EntriesOf(n, cs, e, s[1])
<1>1. e \in ToSet(n.edges) /\ n.commodities \in Nat
  BY EdgesAre DEF Assigned, Lined, Held
<1>2. ks \in Seq(Nat) /\ Held(ks) = s[1]
  <2>1. IsFiniteSet(Commodities(n)) /\ Commodities(n) \subseteq Nat BY <1>1, FS_Interval DEF Commodities
  <2>2. IsFiniteSet(s[1]) /\ s[1] \subseteq Nat BY <2>1, FS_Subset
  <2> QED BY <2>2, AscendingHolds
<1>3. \A k \in Commodities(n) : GetColumnIndex(n, cs, e, k) = k
  <2>1. \A k \in Commodities(n) : GetColumnIndex(n, cs, e, k) = (1 - 1) * n.commodities + k
    BY ColumnFound DEF Assigned
  <2>2. (1 - 1) * n.commodities = 0 BY <1>1
  <2>3. \A k \in Commodities(n) : k \in Nat BY <1>1 DEF Commodities
  <2> QED BY <2>1, <2>2, <2>3
<1> HIDE DEF e
<1>4. SubCapacityRow(n, s) = [bounds |-> Bounds(0, s[2], "LowerUpper"), entries |-> l]
  <2>1. SubCapacityRow(n, s) =
          [bounds |-> Bounds(0, s[2], "LowerUpper"), entries |-> [j \in DOMAIN ks |-> <<ks[j], 1>>]]
    BY DEF SubCapacityRow
  <2>2. l = [j \in DOMAIN ks |-> <<GetColumnIndex(n, cs, e, ks[j]), 1>>] BY DEF EntriesOf
  <2> HIDE DEF ks, l
  <2>3. \A j \in DOMAIN ks : GetColumnIndex(n, cs, e, ks[j]) = ks[j] BY <1>2, <1>3 DEF Held
  <2>4. l = [j \in DOMAIN ks |-> <<ks[j], 1>>] BY <2>2, <2>3
  <2> QED BY <2>1, <2>4
<1>5. /\ l \in EntriesSet(n) /\ Total(l, a) = Together(FlowOf(n, cs, a), e, s[1])
      /\ Together(FlowOf(n, cs, a), e, s[1]) \in Nat
  BY <1>1, TotalOfSet
<1> HIDE DEF l
<1>6. SubCapacityRow(n, s) \in RowSet(n) BY <1>4, <1>5 DEF RowSet, BoundsSet, Bounds
<1>7. Meets(SubCapacityRow(n, s), a) <=> Admits(Bounds(0, s[2], "LowerUpper"), Total(l, a))
  BY <1>4 DEF Meets
<1>8. Meets(SubCapacityRow(n, s), a) <=> Together(FlowOf(n, cs, a), e, s[1]) <= s[2]
  BY <1>5, <1>7, AdmitsWhat
<1> QED BY <1>6, <1>8 DEF e

\* The rows of an edge.
LEMMA EdgeMet ==
  ASSUME NEW n, NEW cs, NEW a, Assigned(n, cs, a), Expressible(n), NEW i \in 1 .. Len(n.edges)
  PROVE  LET e == n.edges[i]
             f == FlowOf(n, cs, a) IN
         /\ EdgeRows(n, i) \in Seq(RowSet(n))
         /\ (\A r \in Held(EdgeRows(n, i)) : Meets(r, a)) <=>
               SumOf(f[e]) <= n.capacity[e] /\ \A s \in ToSet(n.sub[e]) : Together(f, e, s[1]) <= s[2]
<1> DEFINE e == n.edges[i]
           f == FlowOf(n, cs, a)
           sub == n.sub[e]
           list == [s \in DOMAIN sub |-> SubCapacityRow(n, sub[s])]
           cap == CapacityRow(n, i)
<1>1. /\ e \in ToSet(n.edges) /\ e \in n.pool /\ Len(n.edges) \in Nat /\ DOMAIN n.edges = 1 .. Len(n.edges)
  <2>1. Len(n.edges) \in Nat /\ DOMAIN n.edges = 1 .. Len(n.edges) /\ e \in ToSet(n.edges)
    BY EdgesAre DEF Assigned, Lined, Held
  <2> QED BY <2>1, EdgesAre DEF Assigned, Lined
<1>2. sub \in Seq((SUBSET Nat) \X Nat) /\ n.capacity[e] <= IntMax
      /\ \A s \in ToSet(sub) : s[1] \subseteq Commodities(n) /\ s[2] <= IntMax
      /\ (i # 1 => sub = <<>>)
  <2>1. sub \in Seq((SUBSET Nat) \X Nat) BY <1>1 DEF Assigned, Lined, NetworkOK
  <2>2. n.capacity[e] <= IntMax /\ \A s \in ToSet(sub) : s[1] \subseteq Commodities(n) /\ s[2] <= IntMax
    BY <1>1 DEF Expressible
  <2>3. i # 1 => sub = <<>> BY <1>1 DEF Expressible
  <2> QED BY <2>1, <2>2, <2>3
<1>3. cap \in RowSet(n) /\ (Meets(cap, a) <=> SumOf(f[e]) <= n.capacity[e])
  BY <1>2, CapacityMet
<1>4. \A s \in ToSet(sub) : /\ SubCapacityRow(n, s) \in RowSet(n)
                            /\ Meets(SubCapacityRow(n, s), a) <=> Together(f, e, s[1]) <= s[2]
  <2> SUFFICES ASSUME NEW s \in ToSet(sub)
               PROVE  /\ SubCapacityRow(n, s) \in RowSet(n)
                      /\ Meets(SubCapacityRow(n, s), a) <=> Together(f, e, s[1]) <= s[2]
    OBVIOUS
  <2>1. i = 1
    <3>1. ToSet(<<>>) = {} BY DEF ToSet
    <3> QED BY <1>2, <3>1
  <2>2. s[1] \subseteq Commodities(n) /\ s[2] <= IntMax BY <1>2
  <2>3. s[2] \in Nat
    <3> HIDE DEF sub
    <3> QED BY <1>2 DEF ToSet
  <2>4. 1 \in 1 .. Len(n.edges) /\ e = n.edges[1] BY <2>1
  <2> HIDE DEF e, f
  <2>5. /\ SubCapacityRow(n, s) \in RowSet(n)
        /\ Meets(SubCapacityRow(n, s), a) <=> Together(FlowOf(n, cs, a), n.edges[1], s[1]) <= s[2]
    BY <2>2, <2>3, <2>4, SubCapacityMet
  <2> QED BY <2>4, <2>5 DEF f
<1>5. list \in Seq(RowSet(n)) /\ Held(list) = {SubCapacityRow(n, s) : s \in ToSet(sub)}
  <2>1. DOMAIN sub = 1 .. Len(sub) /\ Len(sub) \in Nat BY <1>2
  <2>2. \A j \in DOMAIN sub : sub[j] \in ToSet(sub) BY DEF ToSet
  <2>3. list = [j \in 1 .. Len(sub) |-> list[j]] BY <2>1
  <2>4. \A j \in 1 .. Len(sub) : list[j] \in RowSet(n) BY <1>4, <2>1, <2>2
  <2>5. list \in Seq(RowSet(n))
    <3> HIDE DEF list
    <3> QED BY <2>1, <2>3, <2>4, ListMade
  <2>6. Held(list) = {SubCapacityRow(n, s) : s \in ToSet(sub)}
    <3>1. DOMAIN list = DOMAIN sub /\ \A j \in DOMAIN sub : list[j] = SubCapacityRow(n, sub[j]) OBVIOUS
    <3> HIDE DEF list, sub
    <3> QED BY <3>1 DEF Held, ToSet
  <2> QED BY <2>5, <2>6
<1>6. EdgeRows(n, i) = <<cap>> \o list BY DEF EdgeRows
<1> HIDE DEF cap, list, sub, f, e
<1>7. EdgeRows(n, i) \in Seq(RowSet(n)) /\ Held(EdgeRows(n, i)) = {cap} \cup Held(list)
  BY <1>3, <1>5, <1>6, HeldBehind
<1>8. (\A r \in Held(EdgeRows(n, i)) : Meets(r, a)) <=>
         SumOf(f[e]) <= n.capacity[e] /\ \A s \in ToSet(sub) : Together(f, e, s[1]) <= s[2]
  BY <1>3, <1>4, <1>5, <1>7
<1> QED BY <1>7, <1>8 DEF e, f, sub

\* The row of the balance of a vertex and commodity.
LEMMA BalanceMet ==
  ASSUME NEW n, NEW cs, NEW a, Assigned(n, cs, a), NEW v \in ToSet(n.vertices), NEW k \in Commodities(n)
  PROVE  LET f == FlowOf(n, cs, a)
             row == BalanceRow(n, cs, v, k) IN
         /\ row \in RowSet(n)
         /\ Meets(row, a) <=>
               FlowSum(f, OutEdges(n, v), k) - FlowSum(f, InEdges(n, v), k) = n.supply[v][k]
         /\ row.entries = <<>> => InEdges(n, v) \o OutEdges(n, v) = <<>>
<1> DEFINE f == FlowOf(n, cs, a)
           ins == Entries(n, cs, InEdges(n, v), k, -1)
           outs == Entries(n, cs, OutEdges(n, v), k, 1)
           x == FlowSum(f, InEdges(n, v), k)
           y == FlowSum(f, OutEdges(n, v), k)
           ie == InEdges(n, v)
           oe == OutEdges(n, v)
<1>1. ie \in Seq(ToSet(n.edges)) /\ oe \in Seq(ToSet(n.edges))
  BY EdgesAre DEF Assigned, Lined
<1>2. ins \in EntriesSet(n) /\ Len(ins) = Len(ie) /\ Total(ins, a) = (-1) * x /\ x \in Nat
  <2>1. -1 \in Int OBVIOUS
  <2> QED BY <1>1, <2>1, TotalOfEntries
<1>3. outs \in EntriesSet(n) /\ Len(outs) = Len(oe) /\ Total(outs, a) = 1 * y /\ y \in Nat
  BY <1>1, TotalOfEntries
<1>4. BalanceRow(n, cs, v, k) =
        [bounds |-> Bounds(n.supply[v][k], n.supply[v][k], "Exact"), entries |-> ins \o outs]
  BY DEF BalanceRow
<1>5. n.supply[v][k] \in Int BY DEF Assigned, Lined, NetworkOK, Numbers
<1> HIDE DEF ins, outs, x, y, ie, oe
<1>6. Total(ins \o outs, a) = Total(ins, a) + Total(outs, a)
  BY <1>2, <1>3, TotalJoins DEF Assigned
<1>7. ins \o outs \in EntriesSet(n) /\ Len(ins \o outs) = Len(ins) + Len(outs)
  BY <1>2, <1>3, JoinedAt DEF EntriesSet
<1>8. BalanceRow(n, cs, v, k) \in RowSet(n) BY <1>4, <1>5, <1>7 DEF RowSet, BoundsSet, Bounds
<1>9. Total(ins \o outs, a) = y - x BY <1>2, <1>3, <1>6
<1>10. Meets(BalanceRow(n, cs, v, k), a) <=> y - x = n.supply[v][k]
  BY <1>4, <1>9, AdmitsWhat DEF Meets
<1>11. ins \o outs = <<>> => ie \o oe = <<>>
  <2> SUFFICES ASSUME ins \o outs = <<>> PROVE ie \o oe = <<>> OBVIOUS
  <2>1. Len(ie) + Len(oe) = 0 BY <1>2, <1>3, <1>7
  <2>2. Len(ie \o oe) = Len(ie) + Len(oe) /\ ie \o oe \in Seq(ToSet(n.edges)) BY <1>1, JoinedAt
  <2> QED BY <2>1, <2>2
<1> QED BY <1>4, <1>8, <1>10, <1>11 DEF x, y, ie, oe

\* The row of the flow through a vertex.
LEMMA TransFlowMet ==
  ASSUME NEW n, NEW cs, NEW a, Assigned(n, cs, a), NEW v \in ToSet(n.vertices), NEW k \in Commodities(n)
  PROVE  LET t == FlowSum(FlowOf(n, cs, a), InEdges(n, v), k)
             row == TransFlowRow(n, cs, v, k)
             max == n.maxTrans[v][k]
             min == n.minTrans[v][k] IN
         /\ row \in RowSet(n)
         /\ max \in 0 .. IntMax \cup {UIntMax} => (Meets(row, a) <=> Within(t, min, max))
         /\ ~TransFlowBounded(n, v, k) => Within(t, min, max)
         /\ row.entries = <<>> => InEdges(n, v) = <<>> /\ t = 0
         /\ min \in Nat /\ max \in Nat
<1> DEFINE t == FlowSum(FlowOf(n, cs, a), InEdges(n, v), k)
           ie == InEdges(n, v)
           ins == Entries(n, cs, InEdges(n, v), k, 1)
           min == n.minTrans[v][k]
           max == n.maxTrans[v][k]
<1>0. IntMax \in Nat BY IntMaxAssumption
<1>1. ie \in Seq(ToSet(n.edges)) BY EdgesAre DEF Assigned, Lined
<1>2. ins \in EntriesSet(n) /\ Len(ins) = Len(ie) /\ Total(ins, a) = 1 * t /\ t \in Nat
  BY <1>1, TotalOfEntries
<1>3. min \in Nat /\ max \in Nat BY DEF Assigned, Lined, NetworkOK, Numbers
<1>4. TransFlowRow(n, cs, v, k) = [bounds |-> LowerLimit(min, max), entries |-> ins]
  BY DEF TransFlowRow
<1>5. ~TransFlowBounded(n, v, k) => max = UIntMax /\ min = 0 BY DEF TransFlowBounded
<1>6. ie = <<>> => t = 0
  <2>1. ie = <<>> => t = SumOf([i \in {} |-> FlowOf(n, cs, a)[<<>>[i]][k]]) BY DEF FlowSum
  <2>2. [i \in {} |-> FlowOf(n, cs, a)[<<>>[i]][k]] = <<>> OBVIOUS
  <2> QED BY <2>1, <2>2, SumOfFew
<1> HIDE DEF t, ie, ins, min, max
<1>7. TransFlowRow(n, cs, v, k) \in RowSet(n)
  BY <1>0, <1>2, <1>3, <1>4 DEF RowSet, BoundsSet, Bounds, LowerLimit
<1>8. max \in 0 .. IntMax \cup {UIntMax} => (Meets(TransFlowRow(n, cs, v, k), a) <=> Within(t, min, max))
  <2>1. Total(ins, a) = t BY <1>2
  <2> QED BY <1>2, <1>3, <1>4, <2>1, AdmitsWhat DEF Meets
<1>9. ~TransFlowBounded(n, v, k) => Within(t, min, max) BY <1>2, <1>5 DEF Within
<1>10. ins = <<>> => ie = <<>> BY <1>1, <1>2 DEF EntriesSet
<1> QED BY <1>3, <1>4, <1>6, <1>7, <1>8, <1>9, <1>10 DEF t, ie, min, max

\* The row of a bound of the inflow.
LEMMA InFlowMet ==
  ASSUME NEW n, NEW cs, NEW a, Assigned(n, cs, a), NEW v \in ToSet(n.vertices),
         NEW b \in ToSet(n.inflow[v]), b.commodities \subseteq Commodities(n)
  PROVE  LET t == SetSum(FlowOf(n, cs, a), InEdges(n, v), b.commodities)
             row == InFlowRow(n, cs, v, b) IN
         /\ row \in RowSet(n)
         /\ b.max <= IntMax => (Meets(row, a) <=> Within(t, b.min, b.max))
         /\ b.commodities # {} /\ InEdges(n, v) # <<>> => row.entries # <<>>
<1> DEFINE ie == InEdges(n, v)
           t == SetSum(FlowOf(n, cs, a), ie, b.commodities)
           ins == Chained([i \in DOMAIN ie |-> EntriesOf(n, cs, ie[i], b.commodities)])
<1>0. IntMax \in Nat BY IntMaxAssumption
<1>1. ie \in Seq(ToSet(n.edges)) BY EdgesAre DEF Assigned, Lined
<1>2. /\ ins \in EntriesSet(n) /\ Total(ins, a) = t /\ t \in Nat
      /\ b.commodities # {} /\ ie # <<>> => Held(ins) # {}
  <2> DEFINE ks == b.commodities
  <2>1. ks \subseteq Commodities(n) OBVIOUS
  <2> HIDE DEF ie, ks
  <2>2. LET l == Chained([i \in DOMAIN ie |-> EntriesOf(n, cs, ie[i], ks)]) IN
        /\ l \in EntriesSet(n)
        /\ ks # {} /\ ie # <<>> => Held(l) # {}
        /\ Total(l, a) = SetSum(FlowOf(n, cs, a), ie, ks)
        /\ SetSum(FlowOf(n, cs, a), ie, ks) \in Nat
    BY <1>1, <2>1, TotalOfSets
  <2> QED BY <2>2 DEF ks
<1>3. b.min \in Nat /\ b.max \in Nat
  <2>1. n.inflow[v] \in Seq([commodities : SUBSET Nat, min : Nat, max : Nat])
    BY DEF Assigned, Lined, NetworkOK
  <2>2. PICK i \in DOMAIN n.inflow[v] : b = n.inflow[v][i] BY DEF ToSet
  <2>3. b \in [commodities : SUBSET Nat, min : Nat, max : Nat]
    <3> DEFINE A == [commodities : SUBSET Nat, min : Nat, max : Nat]
               list == n.inflow[v]
    <3>1. list \in Seq(A) /\ i \in DOMAIN list /\ b = list[i] BY <2>1, <2>2
    <3> HIDE DEF A, list
    <3>2. b \in A BY <3>1
    <3> QED BY <3>2 DEF A
  <2> QED BY <2>3
<1>4. InFlowRow(n, cs, v, b) = [bounds |-> LowerLimit(b.min, b.max), entries |-> ins]
  BY DEF InFlowRow
<1> HIDE DEF t, ie, ins
<1>5. InFlowRow(n, cs, v, b) \in RowSet(n)
  BY <1>0, <1>2, <1>3, <1>4 DEF RowSet, BoundsSet, Bounds, LowerLimit
<1>6. b.max <= IntMax => (Meets(InFlowRow(n, cs, v, b), a) <=> Within(t, b.min, b.max))
  <2>1. b.max <= IntMax => b.max \in 0 .. IntMax BY <1>0, <1>3
  <2> QED BY <1>2, <1>3, <1>4, <2>1, AdmitsWhat DEF Meets
<1>7. Held(ins) # {} => ins # <<>> BY DEF Held
<1> QED BY <1>2, <1>4, <1>5, <1>6, <1>7 DEF t, ie

-----------------------------------------------------------------------------
(* The rows of a vertex, and of all.                                           *)

\* Rows and whose they are.
OwnedSet(n) ==
  [row : RowSet(n), owner : {<<>>} \cup (ToSet(n.vertices) \X Commodities(n))]

\* The inflow bounds are of commodities there are.
BoundsOfCommodities(n, v) == \A b \in ToSet(n.inflow[v]) : b.commodities \subseteq Commodities(n)

\* The rows of a vertex and a commodity.
LEMMA CommodityRowsAre ==
  ASSUME NEW n, NEW cs, NEW a, Assigned(n, cs, a), NEW v \in ToSet(n.vertices), NEW k \in Commodities(n)
  PROVE  /\ CommodityRows(n, cs, v, k) \in Seq(OwnedSet(n))
         /\ \A r : r \in Held(CommodityRows(n, cs, v, k)) <=>
                     \/ r = Owned(BalanceRow(n, cs, v, k), <<v, k>>)
                     \/ TransFlowBounded(n, v, k) /\ r = Owned(TransFlowRow(n, cs, v, k), <<v, k>>)
<1> DEFINE A == OwnedSet(n)
           x == Owned(BalanceRow(n, cs, v, k), <<v, k>>)
           y == Owned(TransFlowRow(n, cs, v, k), <<v, k>>)
           list == IF TransFlowBounded(n, v, k) THEN <<y>> ELSE <<>>
<1>1. BalanceRow(n, cs, v, k) \in RowSet(n) /\ TransFlowRow(n, cs, v, k) \in RowSet(n)
  BY BalanceMet, TransFlowMet
<1>2. x \in A /\ y \in A BY <1>1 DEF Owned, OwnedSet
<1>3. CommodityRows(n, cs, v, k) = <<x>> \o list BY DEF CommodityRows
<1> HIDE DEF A, x, y
<1>4. list \in Seq(A) /\ \A r : r \in Held(list) <=> TransFlowBounded(n, v, k) /\ r = y
  <2>1. CASE TransFlowBounded(n, v, k)
    <3>1. list = <<y>> BY <2>1
    <3>2. <<y>> \in Seq(A) /\ Held(<<y>>) = {y} BY <1>2 DEF Held
    <3> QED BY <2>1, <3>1, <3>2
  <2>2. CASE ~TransFlowBounded(n, v, k)
    <3>1. list = <<>> BY <2>2
    <3>2. <<>> \in Seq(A) /\ Held(<<>>) = {} BY DEF Held
    <3> QED BY <2>2, <3>1, <3>2
  <2> QED BY <2>1, <2>2
<1> HIDE DEF list
<1>5. <<x>> \o list \in Seq(A) /\ Held(<<x>> \o list) = {x} \cup Held(list)
  BY <1>2, <1>4, HeldBehind
<1> QED BY <1>3, <1>4, <1>5 DEF A, x, y

\* The rows of the bounds of its inflow.
LEMMA InFlowRowsAre ==
  ASSUME NEW n, NEW cs, NEW a, Assigned(n, cs, a), NEW v \in ToSet(n.vertices), BoundsOfCommodities(n, v)
  PROVE  /\ InFlowRows(n, cs, v) \in Seq(OwnedSet(n))
         /\ \A r : r \in Held(InFlowRows(n, cs, v)) <=>
                     \E b \in ToSet(n.inflow[v]) : InFlowBounded(b) /\ r = Owned(InFlowRow(n, cs, v, b), <<>>)
<1> DEFINE A == OwnedSet(n)
           S == {b \in ToSet(n.inflow[v]) : InFlowBounded(b)}
           bounds == Among(n.inflow[v], S)
           list == [i \in DOMAIN bounds |-> Owned(InFlowRow(n, cs, v, bounds[i]), <<>>)]
           B == [commodities : SUBSET Nat, min : Nat, max : Nat]
<1>1. n.inflow[v] \in Seq(B) BY DEF Assigned, Lined, NetworkOK
<1>2. S \subseteq ToSet(n.inflow[v]) /\ ToSet(n.inflow[v]) = Held(n.inflow[v]) BY DEF ToSet, Held
<1>3. InFlowRows(n, cs, v) = list BY DEF InFlowRows
<1> HIDE DEF B
<1>4. bounds \in Seq(B) /\ Held(bounds) = S
  <2> HIDE DEF S
  <2>1. bounds \in Seq(B) /\ Held(bounds) = Held(n.inflow[v]) \cap S BY <1>1, AmongHolds
  <2> QED BY <1>2, <2>1
<1>5. \A b \in S : Owned(InFlowRow(n, cs, v, b), <<>>) \in A
  <2> SUFFICES ASSUME NEW b \in S PROVE Owned(InFlowRow(n, cs, v, b), <<>>) \in A OBVIOUS
  <2>1. b \in ToSet(n.inflow[v]) /\ b.commodities \subseteq Commodities(n)
    BY DEF BoundsOfCommodities
  <2>2. InFlowRow(n, cs, v, b) \in RowSet(n) BY <2>1, InFlowMet
  <2> QED BY <2>2 DEF Owned, OwnedSet
<1>6. \A b : b \in S <=> b \in ToSet(n.inflow[v]) /\ InFlowBounded(b) OBVIOUS
<1> HIDE DEF S, bounds, A
<1>7. DOMAIN bounds = 1 .. Len(bounds) /\ Len(bounds) \in Nat /\ \A i \in DOMAIN bounds : bounds[i] \in S
  BY <1>4 DEF Held
<1>8. DOMAIN list = DOMAIN bounds
      /\ \A i \in DOMAIN bounds : list[i] = Owned(InFlowRow(n, cs, v, bounds[i]), <<>>)
  OBVIOUS
<1>11. list = [i \in 1 .. Len(bounds) |-> list[i]]
  <2>1. DOMAIN bounds = 1 .. Len(bounds) BY <1>7
  <2>2. list = [i \in DOMAIN bounds |-> list[i]] OBVIOUS
  <2> QED BY <2>1, <2>2
<1> HIDE DEF list
<1>9. list \in Seq(A)
  <2> DEFINE m == Len(bounds)
  <2>1. \A i \in 1 .. m : list[i] \in A BY <1>5, <1>7, <1>8
  <2>2. list = [i \in 1 .. m |-> list[i]] BY <1>11
  <2>3. m \in Nat BY <1>7
  <2> HIDE DEF m
  <2> QED BY <2>1, <2>2, <2>3, ListMade
<1>10. \A r : r \in Held(list) <=> \E b \in S : r = Owned(InFlowRow(n, cs, v, b), <<>>)
  BY <1>4, <1>8 DEF Held
<1> QED BY <1>3, <1>6, <1>9, <1>10 DEF A

\* The rows of a vertex.
LEMMA VertexRowsAre ==
  ASSUME NEW n, NEW cs, NEW a, Assigned(n, cs, a), NEW v \in ToSet(n.vertices), BoundsOfCommodities(n, v)
  PROVE  /\ VertexRows(n, cs, v) \in Seq(OwnedSet(n))
         /\ \A r : r \in Held(VertexRows(n, cs, v)) <=>
                     /\ r.row.entries # <<>>
                     /\ \/ \E k \in Commodities(n) : r \in Held(CommodityRows(n, cs, v, k))
                        \/ r \in Held(InFlowRows(n, cs, v))
<1> DEFINE A == OwnedSet(n)
           lists == [k \in Commodities(n) |-> CommodityRows(n, cs, v, k)]
           rows == Chained(lists) \o InFlowRows(n, cs, v)
           S == {r \in ToSet(rows) : r.row.entries # <<>>}
<1>1. n.commodities \in Nat /\ Commodities(n) = 1 .. n.commodities
  BY EdgesAre DEF Assigned, Lined, Commodities
<1>2. lists \in Seq(Seq(A)) /\ Len(lists) = n.commodities
  <2>1. \A k \in 1 .. n.commodities : lists[k] \in Seq(A) BY <1>1, CommodityRowsAre
  <2>2. lists = [k \in 1 .. n.commodities |-> lists[k]] BY <1>1
  <2> HIDE DEF lists, A
  <2> QED BY <1>1, <2>1, <2>2, ListMade
<1>3. \A k \in Commodities(n) : lists[k] = CommodityRows(n, cs, v, k) OBVIOUS
<1>4. InFlowRows(n, cs, v) \in Seq(A) BY InFlowRowsAre
<1> HIDE DEF lists, A
<1>5. /\ Chained(lists) \in Seq(A)
      /\ \A r : r \in Held(Chained(lists)) <=> \E k \in Commodities(n) : r \in Held(CommodityRows(n, cs, v, k))
  BY <1>1, <1>2, <1>3, ChainedHolds
<1>6. rows \in Seq(A) /\ Held(rows) = Held(Chained(lists)) \cup Held(InFlowRows(n, cs, v))
  BY <1>4, <1>5, HeldTogether
<1>7. VertexRows(n, cs, v) = Among(rows, S) BY DEF VertexRows, Filled, lists
<1>8. \A r : r \in S <=> r \in Held(rows) /\ r.row.entries # <<>> BY DEF ToSet, Held
<1> HIDE DEF rows, S
<1>9. Among(rows, S) \in Seq(A) /\ Held(Among(rows, S)) = Held(rows) \cap S
  BY <1>6, AmongHolds
<1> QED BY <1>5, <1>6, <1>7, <1>8, <1>9 DEF A

\* They are met by the flows the vertex may have.
LEMMA VertexMet ==
  ASSUME NEW n, NEW cs, NEW a, Assigned(n, cs, a), Expressible(n), NEW v \in ToSet(n.vertices)
  PROVE  /\ VertexRows(n, cs, v) \in Seq(OwnedSet(n))
         /\ (\A r \in Held(VertexRows(n, cs, v)) : Meets(r.row, a)) <=> Passes(n, FlowOf(n, cs, a), v)
<1> DEFINE f == FlowOf(n, cs, a)
           balance(k) == FlowSum(f, OutEdges(n, v), k) - FlowSum(f, InEdges(n, v), k) = n.supply[v][k]
           through(k) == Within(FlowSum(f, InEdges(n, v), k), n.minTrans[v][k], n.maxTrans[v][k])
           inflow(b) == Within(SetSum(f, InEdges(n, v), b.commodities), b.min, b.max)
           bal(k) == Owned(BalanceRow(n, cs, v, k), <<v, k>>)
           trans(k) == Owned(TransFlowRow(n, cs, v, k), <<v, k>>)
           infl(b) == Owned(InFlowRow(n, cs, v, b), <<>>)
<1>1. /\ \A b \in ToSet(n.inflow[v]) :
            /\ InFlowBounded(b) /\ b.max <= IntMax /\ InEdges(n, v) # <<>>
            /\ b.commodities \subseteq Commodities(n) /\ b.commodities # {}
      /\ \A k \in Commodities(n) :
            /\ n.maxTrans[v][k] \in 0 .. IntMax \cup {UIntMax}
            /\ InEdges(n, v) \o OutEdges(n, v) = <<>> => n.supply[v][k] = 0
            /\ InEdges(n, v) = <<>> => n.minTrans[v][k] = 0
  BY DEF Expressible
<1>2. BoundsOfCommodities(n, v) BY <1>1 DEF BoundsOfCommodities
<1>3. ASSUME NEW k \in Commodities(n)
      PROVE  /\ Meets(bal(k).row, a) <=> balance(k)
             /\ bal(k).row.entries = <<>> => balance(k)
  <2>1. /\ Meets(BalanceRow(n, cs, v, k), a) <=> balance(k)
        /\ BalanceRow(n, cs, v, k).entries = <<>> => InEdges(n, v) \o OutEdges(n, v) = <<>>
    BY BalanceMet
  <2>2. bal(k).row = BalanceRow(n, cs, v, k) BY DEF Owned
  <2>3. InEdges(n, v) \o OutEdges(n, v) = <<>> => balance(k)
    <3> SUFFICES ASSUME InEdges(n, v) \o OutEdges(n, v) = <<>> PROVE balance(k) OBVIOUS
    <3>1. InEdges(n, v) = <<>> /\ OutEdges(n, v) = <<>>
      <4> DEFINE ie == InEdges(n, v)
                 oe == OutEdges(n, v)
      <4>1. ie \in Seq(ToSet(n.edges)) /\ oe \in Seq(ToSet(n.edges)) BY EdgesAre DEF Assigned, Lined
      <4>2. ie \o oe = <<>> OBVIOUS
      <4> HIDE DEF ie, oe
      <4>3. Len(ie \o oe) = Len(ie) + Len(oe) BY <4>1, JoinedAt
      <4>4. Len(ie) = 0 /\ Len(oe) = 0 BY <4>1, <4>2, <4>3
      <4> QED BY <4>1, <4>4 DEF ie, oe
    <3>2. FlowSum(f, <<>>, k) = 0
      <4>1. [i \in DOMAIN <<>> |-> f[<<>>[i]][k]] = <<>> OBVIOUS
      <4> QED BY <4>1, SumOfFew DEF FlowSum
    <3>3. n.supply[v][k] = 0 BY <1>1
    <3> QED BY <3>1, <3>2, <3>3
  <2> QED BY <2>1, <2>2, <2>3
<1>4. ASSUME NEW k \in Commodities(n)
      PROVE  /\ Meets(trans(k).row, a) <=> through(k)
             /\ trans(k).row.entries = <<>> => through(k)
             /\ ~TransFlowBounded(n, v, k) => through(k)
  <2> DEFINE t == FlowSum(f, InEdges(n, v), k)
             min == n.minTrans[v][k]
             max == n.maxTrans[v][k]
  <2>1. /\ Meets(TransFlowRow(n, cs, v, k), a) <=> Within(t, min, max)
        /\ ~TransFlowBounded(n, v, k) => Within(t, min, max)
        /\ TransFlowRow(n, cs, v, k).entries = <<>> => InEdges(n, v) = <<>> /\ t = 0
        /\ min \in Nat /\ max \in Nat
    BY <1>1, TransFlowMet
  <2>2. trans(k).row = TransFlowRow(n, cs, v, k) BY DEF Owned
  <2>3. InEdges(n, v) = <<>> => min = 0 BY <1>1
  <2> HIDE DEF t, min, max
  <2>4. min = 0 /\ t = 0 => Within(t, min, max) BY <2>1 DEF Within
  <2>5. through(k) <=> Within(t, min, max) BY DEF t, min, max
  <2> QED BY <2>1, <2>2, <2>3, <2>4, <2>5
<1>5. ASSUME NEW b \in ToSet(n.inflow[v])
      PROVE  /\ Meets(infl(b).row, a) <=> inflow(b)
             /\ infl(b).row.entries # <<>>
  <2>1. /\ Meets(InFlowRow(n, cs, v, b), a) <=> inflow(b)
        /\ InFlowRow(n, cs, v, b).entries # <<>>
    BY <1>1, InFlowMet
  <2>2. infl(b).row = InFlowRow(n, cs, v, b) BY DEF Owned
  <2> QED BY <2>1, <2>2
<1>6. /\ VertexRows(n, cs, v) \in Seq(OwnedSet(n))
      /\ \A r : r \in Held(VertexRows(n, cs, v)) <=>
           /\ r.row.entries # <<>>
           /\ \/ \E k \in Commodities(n) : r = bal(k) \/ (TransFlowBounded(n, v, k) /\ r = trans(k))
              \/ \E b \in ToSet(n.inflow[v]) : InFlowBounded(b) /\ r = infl(b)
  <2>1. \A k \in Commodities(n) : \A r :
          r \in Held(CommodityRows(n, cs, v, k)) <=> r = bal(k) \/ (TransFlowBounded(n, v, k) /\ r = trans(k))
    BY CommodityRowsAre
  <2>2. \A r : r \in Held(InFlowRows(n, cs, v)) <=>
                 \E b \in ToSet(n.inflow[v]) : InFlowBounded(b) /\ r = infl(b)
    BY <1>2, InFlowRowsAre
  <2> HIDE DEF bal, trans, infl
  <2> QED BY <1>2, <2>1, <2>2, VertexRowsAre
<1>7. Passes(n, f, v) <=> /\ \A k \in Commodities(n) : balance(k) /\ through(k)
                          /\ \A b \in ToSet(n.inflow[v]) : inflow(b)
  BY DEF Passes
<1> HIDE DEF bal, trans, infl, balance, through, inflow, f
<1>8. ASSUME Passes(n, f, v), NEW r \in Held(VertexRows(n, cs, v)) PROVE Meets(r.row, a)
  BY <1>3, <1>4, <1>5, <1>6, <1>7, <1>8
<1>9. ASSUME \A r \in Held(VertexRows(n, cs, v)) : Meets(r.row, a) PROVE Passes(n, f, v)
  <2>1. ASSUME NEW k \in Commodities(n) PROVE balance(k)
    <3>1. CASE bal(k).row.entries = <<>> BY <1>3, <3>1
    <3>2. CASE bal(k).row.entries # <<>>
      <4>1. bal(k) \in Held(VertexRows(n, cs, v)) BY <1>6, <3>2
      <4> QED BY <1>3, <1>9, <4>1
    <3> QED BY <3>1, <3>2
  <2>2. ASSUME NEW k \in Commodities(n) PROVE through(k)
    <3>1. CASE trans(k).row.entries = <<>> \/ ~TransFlowBounded(n, v, k) BY <1>4, <3>1
    <3>2. CASE ~(trans(k).row.entries = <<>> \/ ~TransFlowBounded(n, v, k))
      <4>1. trans(k) \in Held(VertexRows(n, cs, v)) BY <1>6, <3>2
      <4> QED BY <1>4, <1>9, <4>1
    <3> QED BY <3>1, <3>2
  <2>3. ASSUME NEW b \in ToSet(n.inflow[v]) PROVE inflow(b)
    <3>1. infl(b) \in Held(VertexRows(n, cs, v)) BY <1>1, <1>5, <1>6
    <3> QED BY <1>5, <1>9, <3>1
  <2> QED BY <1>7, <2>1, <2>2, <2>3
<1> QED BY <1>6, <1>8, <1>9 DEF f

-----------------------------------------------------------------------------
(* All rows, and the problem with them and its columns.                    *)

\* The rows of all edges and vertices, and all rows.
RowsTyped(n, cs) ==
  /\ \A i \in 1 .. Len(n.edges) : EdgeRows(n, i) \in Seq(RowSet(n))
  /\ \A v \in ToSet(n.vertices) : VertexRows(n, cs, v) \in Seq(OwnedSet(n))
AllRows(n, cs) == AllEdgeRows(n) \o [i \in DOMAIN AllVertexRows(n, cs) |-> AllVertexRows(n, cs)[i].row]

\* They are the rows of each.
LEMMA AllRowsAre ==
  ASSUME NEW n, NetworkOK(n), NEW cs, RowsTyped(n, cs)
  PROVE  /\ AllEdgeRows(n) \in Seq(RowSet(n)) /\ AllVertexRows(n, cs) \in Seq(OwnedSet(n))
         /\ AllRows(n, cs) \in Seq(RowSet(n))
         /\ Len(AllRows(n, cs)) = Len(AllEdgeRows(n)) + Len(AllVertexRows(n, cs))
         /\ \A i \in 1 .. Len(AllEdgeRows(n)) : AllRows(n, cs)[i] = AllEdgeRows(n)[i]
         /\ \A i \in 1 .. Len(AllVertexRows(n, cs)) :
               AllRows(n, cs)[Len(AllEdgeRows(n)) + i] = AllVertexRows(n, cs)[i].row
         /\ \A o : o \in Held(AllVertexRows(n, cs)) <=>
                     \E v \in ToSet(n.vertices) : o \in Held(VertexRows(n, cs, v))
         /\ \A r : r \in Held(AllRows(n, cs)) <=>
                     \/ \E i \in 1 .. Len(n.edges) : r \in Held(EdgeRows(n, i))
                     \/ \E v \in ToSet(n.vertices) : \E o \in Held(VertexRows(n, cs, v)) : r = o.row
<1> DEFINE A == RowSet(n)
           O == OwnedSet(n)
           el == [i \in DOMAIN n.edges |-> EdgeRows(n, i)]
           vl == [i \in DOMAIN n.vertices |-> VertexRows(n, cs, n.vertices[i])]
           e == AllEdgeRows(n)
           v == AllVertexRows(n, cs)
           w == [i \in DOMAIN v |-> v[i].row]
<1>1. /\ DOMAIN n.edges = 1 .. Len(n.edges) /\ Len(n.edges) \in Nat
      /\ DOMAIN n.vertices = 1 .. Len(n.vertices) /\ Len(n.vertices) \in Nat
      /\ \A x : x \in ToSet(n.vertices) <=> \E i \in 1 .. Len(n.vertices) : x = n.vertices[i]
  <2>1. /\ DOMAIN n.edges = 1 .. Len(n.edges) /\ Len(n.edges) \in Nat
        /\ DOMAIN n.vertices = 1 .. Len(n.vertices) /\ Len(n.vertices) \in Nat
    <3>1. n.edges \in Seq(n.pool) /\ n.vertices \in Seq(ToSet(n.vertices)) BY DEF NetworkOK
    <3> QED BY <3>1
  <2> QED BY <2>1 DEF ToSet
<1>2. \A o \in O : o.row \in A BY DEF OwnedSet
<1>3. el \in Seq(Seq(A)) /\ Len(el) = Len(n.edges) /\ \A i \in 1 .. Len(n.edges) : el[i] = EdgeRows(n, i)
  <2> DEFINE m == Len(n.edges)
  <2>1. \A i \in 1 .. m : el[i] = EdgeRows(n, i) BY <1>1
  <2>2. \A i \in 1 .. m : el[i] \in Seq(A) BY <2>1 DEF RowsTyped
  <2>3. el = [i \in 1 .. m |-> el[i]] BY <1>1
  <2>4. m \in Nat BY <1>1
  <2> HIDE DEF el, m, A
  <2>5. el \in Seq(Seq(A)) /\ Len(el) = m BY <2>2, <2>3, <2>4, ListMade
  <2> QED BY <2>1, <2>5 DEF m
<1>4. vl \in Seq(Seq(O)) /\ Len(vl) = Len(n.vertices)
      /\ \A i \in 1 .. Len(n.vertices) : vl[i] = VertexRows(n, cs, n.vertices[i])
  <2> DEFINE m == Len(n.vertices)
  <2>1. \A i \in 1 .. m : vl[i] = VertexRows(n, cs, n.vertices[i]) BY <1>1
  <2>2. \A i \in 1 .. m : vl[i] \in Seq(O) BY <1>1, <2>1 DEF RowsTyped
  <2>3. vl = [i \in 1 .. m |-> vl[i]] BY <1>1
  <2>4. m \in Nat BY <1>1
  <2> HIDE DEF vl, m, O
  <2>5. vl \in Seq(Seq(O)) /\ Len(vl) = m BY <2>2, <2>3, <2>4, ListMade
  <2> QED BY <2>1, <2>5 DEF m
<1>5. e = Chained(el) /\ v = Chained(vl) BY DEF AllEdgeRows, AllVertexRows
<1> HIDE DEF A, O, el, vl
<1>6. e \in Seq(A) /\ \A x : x \in Held(e) <=> \E i \in 1 .. Len(n.edges) : x \in Held(EdgeRows(n, i))
  BY <1>3, <1>5, ChainedHolds
<1>7. v \in Seq(O) /\ \A x : x \in Held(v) <=> \E y \in ToSet(n.vertices) : x \in Held(VertexRows(n, cs, y))
  <2>1. v \in Seq(O) /\ \A x : x \in Held(v) <=> \E i \in 1 .. Len(n.vertices) : x \in Held(vl[i])
    BY <1>4, <1>5, ChainedHolds
  <2> HIDE DEF v
  <2>2. SUFFICES ASSUME NEW x
                 PROVE  (\E i \in 1 .. Len(n.vertices) : x \in Held(vl[i]))
                          <=> \E y \in ToSet(n.vertices) : x \in Held(VertexRows(n, cs, y))
    BY <2>1
  <2>3. ASSUME NEW i \in 1 .. Len(n.vertices), x \in Held(vl[i])
        PROVE  \E y \in ToSet(n.vertices) : x \in Held(VertexRows(n, cs, y))
    <3>1. n.vertices[i] \in ToSet(n.vertices) /\ vl[i] = VertexRows(n, cs, n.vertices[i]) BY <1>1, <1>4
    <3> QED BY <2>3, <3>1
  <2>4. ASSUME NEW y \in ToSet(n.vertices), x \in Held(VertexRows(n, cs, y))
        PROVE  \E i \in 1 .. Len(n.vertices) : x \in Held(vl[i])
    <3>1. PICK i \in 1 .. Len(n.vertices) : y = n.vertices[i] BY <1>1
    <3>2. vl[i] = VertexRows(n, cs, y) BY <1>4, <3>1
    <3> QED BY <2>4, <3>2
  <2> QED BY <2>3, <2>4
<1>8. AllRows(n, cs) = e \o w BY DEF AllRows
<1> HIDE DEF e, v
<1>9. DOMAIN v = 1 .. Len(v) /\ Len(v) \in Nat /\ \A i \in 1 .. Len(v) : v[i] \in O BY <1>7
<1>10. w \in Seq(A) /\ Len(w) = Len(v) /\ \A i \in 1 .. Len(v) : w[i] = v[i].row
  <2> DEFINE m == Len(v)
  <2>1. \A i \in 1 .. m : w[i] = v[i].row BY <1>9
  <2>2. \A i \in 1 .. m : w[i] \in A BY <1>2, <1>9, <2>1
  <2>3. w = [i \in 1 .. m |-> w[i]] BY <1>9
  <2>4. m \in Nat BY <1>9
  <2> HIDE DEF w, m
  <2>5. w \in Seq(A) /\ Len(w) = m BY <2>2, <2>3, <2>4, ListMade
  <2> QED BY <2>1, <2>5 DEF m
<1> HIDE DEF w
<1>11. \A r : r \in Held(w) <=> \E o \in Held(v) : r = o.row
  <2>1. DOMAIN w = 1 .. Len(v) BY <1>10
  <2> QED BY <1>9, <1>10, <2>1 DEF Held
<1>12. e \o w \in Seq(A) /\ Held(e \o w) = Held(e) \cup Held(w) BY <1>6, <1>10, HeldTogether
<1>13. /\ Len(e \o w) = Len(e) + Len(w)
       /\ \A i \in 1 .. Len(e) : (e \o w)[i] = e[i]
       /\ \A i \in 1 .. Len(w) : (e \o w)[Len(e) + i] = w[i]
  <2>1. e \in Seq(A) /\ w \in Seq(A) BY <1>6, <1>10
  <2> QED BY <2>1, JoinedAt
<1>14. \A r : r \in Held(e \o w) <=>
              \/ \E i \in 1 .. Len(n.edges) : r \in Held(EdgeRows(n, i))
              \/ \E y \in ToSet(n.vertices) : \E o \in Held(VertexRows(n, cs, y)) : r = o.row
  BY <1>6, <1>7, <1>11, <1>12
<1>15. e \in Seq(A) /\ v \in Seq(O) BY <1>6, <1>7
<1> QED BY <1>7, <1>8, <1>10, <1>12, <1>13, <1>14, <1>15 DEF e, v, A, O

\* Rows of different names are added one by one.
LEMMA AddRowsAdds ==
  ASSUME NEW x, NEW c, NEW p, p = [name |-> x, columns |-> c, rows |-> <<>>, refused |-> FALSE],
         NEW A, NEW rows \in Seq(A),
         \A i, j \in 1 .. Len(rows) : rows[i].name = rows[j].name => i = j
  PROVE  AddRows(p, rows) = [p EXCEPT !.rows = rows]
<1> DEFINE m == Len(rows)
           first(i) == [j \in 1 .. i |-> rows[j]]
           g == [i \in 0 .. m |-> [p EXCEPT !.rows = first(i)]]
           Adds(k) == k = [i \in 0 .. m |-> IF i = 0 THEN p ELSE AddRow(k[i - 1], rows[i])]
           k == CHOOSE k : Adds(k)
<1>1. m \in Nat /\ DOMAIN rows = 1 .. m OBVIOUS
<1>2. g[0] = p
  <2>1. 0 \in 0 .. m /\ 1 .. 0 = {} BY <1>1
  <2>2. first(0) = <<>> BY <2>1
  <2> HIDE DEF first
  <2>3. g[0] = [p EXCEPT !.rows = p.rows] BY <2>1, <2>2
  <2> QED BY <2>3
<1>3. ASSUME NEW i \in 1 .. m PROVE AddRow(g[i - 1], rows[i]) = g[i]
  <2>1. i \in 0 .. m /\ i - 1 \in 0 .. m /\ i \in Nat /\ i - 1 \in Nat BY <1>1
  <2>2. g[i] = [p EXCEPT !.rows = first(i)] /\ g[i - 1] = [p EXCEPT !.rows = first(i - 1)]
    <3> HIDE DEF first
    <3> QED BY <2>1
  <2>3. Append(first(i - 1), rows[i]) = first(i)
    <3>1. first(i - 1) \in Seq(A) /\ Len(first(i - 1)) = i - 1 /\ first(i) \in Seq(A) /\ Len(first(i)) = i
      BY <1>1, <2>1
    <3>2. \A j \in 1 .. i - 1 : first(i - 1)[j] = first(i)[j]
      <4>1. \A j \in 1 .. i - 1 : j \in 1 .. i BY <2>1
      <4> QED BY <4>1
    <3>3. first(i)[i] = rows[i] BY <2>1
    <3>4. rows[i] \in A OBVIOUS
    <3> HIDE DEF first
    <3> QED BY <2>1, <3>1, <3>2, <3>3, <3>4
  <2>4. \A j \in DOMAIN first(i - 1) : first(i - 1)[j].name # rows[i].name
    <3>1. DOMAIN first(i - 1) = 1 .. i - 1 /\ \A j \in 1 .. i - 1 : first(i - 1)[j] = rows[j] OBVIOUS
    <3>2. \A j \in 1 .. i - 1 : j \in 1 .. m /\ j # i BY <2>1
    <3> QED BY <3>1, <3>2
  <2>5. "rows" \in DOMAIN p OBVIOUS
  <2> HIDE DEF first, g
  <2>6. g[i - 1].rows = first(i - 1) BY <2>2, <2>5
  <2>7. AddRow(g[i - 1], rows[i]) = [g[i - 1] EXCEPT !.rows = Append(@, rows[i])]
    BY <2>4, <2>6 DEF AddRow
  <2>8. [g[i - 1] EXCEPT !.rows = Append(@, rows[i])] = [p EXCEPT !.rows = Append(first(i - 1), rows[i])]
    BY <2>2, <2>5
  <2> QED BY <2>2, <2>3, <2>7, <2>8
<1>4. Adds(g)
  <2>1. DOMAIN g = 0 .. m /\ g = [i \in 0 .. m |-> g[i]] OBVIOUS
  <2> HIDE DEF g
  <2>2. \A i \in 0 .. m : g[i] = IF i = 0 THEN p ELSE AddRow(g[i - 1], rows[i])
    <3>1. \A i \in 0 .. m : i # 0 => i \in 1 .. m BY <1>1
    <3> QED BY <1>2, <1>3, <3>1
  <2>3. [i \in 0 .. m |-> g[i]] = [i \in 0 .. m |-> IF i = 0 THEN p ELSE AddRow(g[i - 1], rows[i])]
    BY <2>2
  <2> QED BY <2>1, <2>3
<1>5. Adds(k)
  <2> HIDE DEF Adds, g
  <2> QED BY <1>4
<1>6. AddRows(p, rows) = k[m] BY DEF AddRows
<1> HIDE DEF k
<1>7. \A i \in 0 .. m : k[i] = IF i = 0 THEN p ELSE AddRow(k[i - 1], rows[i]) BY <1>5, Zenon
<1>8. \A i \in 0 .. m : k[i] \in {g[i]}
  <2> DEFINE S == [i \in 0 .. m |-> {g[i]}]
  <2>1. \A i \in 0 .. m : S[i] = {g[i]} OBVIOUS
  <2> HIDE DEF S, g
  <2>2. 0 \in 0 .. m /\ \A i \in 1 .. m : i \in 0 .. m /\ i - 1 \in 0 .. m /\ i # 0 BY <1>1
  <2>3. k[0] \in S[0] BY <1>2, <1>7, <2>1, <2>2
  <2>4. ASSUME NEW i \in 1 .. m, k[i - 1] \in S[i - 1] PROVE k[i] \in S[i]
    <3>1. k[i - 1] = g[i - 1] BY <2>1, <2>2, <2>4
    <3>2. k[i] = AddRow(g[i - 1], rows[i]) BY <1>7, <2>2, <3>1
    <3>3. k[i] = g[i] BY <1>3, <3>2
    <3> QED BY <2>1, <2>2, <3>3
  <2>5. \A i \in 0 .. m : k[i] \in S[i]
    <3> HIDE DEF m
    <3> QED BY <1>1, <2>3, <2>4, LoopKeeps
  <2> QED BY <2>1, <2>5
<1>9. k[m] = [p EXCEPT !.rows = first(m)]
  <2>1. m \in 0 .. m BY <1>1
  <2> HIDE DEF first
  <2>2. g[m] = [p EXCEPT !.rows = first(m)] BY <2>1
  <2> HIDE DEF g
  <2> QED BY <1>8, <2>1, <2>2
<1>10. first(m) = rows OBVIOUS
<1> QED BY <1>6, <1>9, <1>10

\* The rows of the problem are met by the flows that are admissible, but for the
\* limits of single commodities, which are limits of columns.
LEMMA RowsMet ==
  ASSUME NEW n, NEW cs, NEW a, Assigned(n, cs, a), Expressible(n)
  PROVE  /\ RowsTyped(n, cs)
         /\ (\A r \in Held(AllRows(n, cs)) : Meets(r, a))
              /\ (\A e \in ToSet(n.edges), k \in Commodities(n) : FlowOf(n, cs, a)[e][k] <= n.upper[e][k])
            <=> Admissible(n, FlowOf(n, cs, a))
<1> DEFINE f == FlowOf(n, cs, a)
           limits(e) == SumOf(f[e]) <= n.capacity[e] /\ \A s \in ToSet(n.sub[e]) : Together(f, e, s[1]) <= s[2]
           edgeOk(i) == \A r \in Held(EdgeRows(n, i)) : Meets(r, a)
           vertexOk(v) == \A r \in Held(VertexRows(n, cs, v)) : Meets(r.row, a)
           single(e) == \A k \in Commodities(n) : f[e][k] <= n.upper[e][k]
<1>1. NetworkOK(n) /\ (\A e : e \in ToSet(n.edges) <=> \E i \in 1 .. Len(n.edges) : e = n.edges[i])
  <2>1. NetworkOK(n) BY DEF Assigned, Lined
  <2>2. n.edges \in Seq(n.pool) BY <2>1 DEF NetworkOK
  <2>3. DOMAIN n.edges = 1 .. Len(n.edges) BY <2>2
  <2> QED BY <2>1, <2>3 DEF ToSet
<1>2. \A i \in 1 .. Len(n.edges) :
        EdgeRows(n, i) \in Seq(RowSet(n)) /\ (edgeOk(i) <=> limits(n.edges[i]))
  BY EdgeMet
<1>3. \A v \in ToSet(n.vertices) :
        VertexRows(n, cs, v) \in Seq(OwnedSet(n)) /\ (vertexOk(v) <=> Passes(n, f, v))
  BY VertexMet
<1>4. RowsTyped(n, cs) BY <1>2, <1>3 DEF RowsTyped
<1>5. Admissible(n, f) <=> /\ \A e \in ToSet(n.edges) : limits(e) /\ single(e)
                           /\ \A v \in ToSet(n.vertices) : Passes(n, f, v)
  BY DEF Admissible, Carries
<1>6. (\A r \in Held(AllRows(n, cs)) : Meets(r, a)) <=>
         /\ \A i \in 1 .. Len(n.edges) : edgeOk(i)
         /\ \A v \in ToSet(n.vertices) : vertexOk(v)
  <2>1. \A r : r \in Held(AllRows(n, cs)) <=>
                \/ \E i \in 1 .. Len(n.edges) : r \in Held(EdgeRows(n, i))
                \/ \E v \in ToSet(n.vertices) : \E o \in Held(VertexRows(n, cs, v)) : r = o.row
    BY <1>1, <1>4, AllRowsAre
  <2> QED BY <2>1
<1> HIDE DEF f, limits, edgeOk, vertexOk, single
<1>7. (\A r \in Held(AllRows(n, cs)) : Meets(r, a)) /\ (\A e \in ToSet(n.edges) : single(e))
      <=> Admissible(n, f)
  BY <1>1, <1>2, <1>3, <1>5, <1>6
<1> QED BY <1>4, <1>7 DEF f, single

\* The columns of the problem.
ColumnsOf(n) == Chained([i \in DOMAIN n.edges |-> EdgeColumns(n, n.edges[i])])

\* They are those of each edge, one per commodity, behind each other.
LEMMA ColumnsAre ==
  ASSUME NEW n, NetworkOK(n)
  PROVE  /\ ColumnsOf(n) \in Seq([upper : Nat, cost : Int])
         /\ DOMAIN ColumnsOf(n) = Columns(n) /\ Len(ColumnsOf(n)) = Len(n.edges) * n.commodities
         /\ \A i \in 1 .. Len(n.edges), k \in Commodities(n) :
               /\ (i - 1) * n.commodities + k \in Columns(n)
               /\ ColumnsOf(n)[(i - 1) * n.commodities + k] = Column(n.upper[n.edges[i]][k], n.cost[n.edges[i]][k])
         /\ \A c \in Columns(n) : \E i \in 1 .. Len(n.edges), k \in Commodities(n) : c = (i - 1) * n.commodities + k
<1> DEFINE A == [upper : Nat, cost : Int]
           lists == [i \in DOMAIN n.edges |-> EdgeColumns(n, n.edges[i])]
           w == n.commodities
           m == Len(n.edges)
<1>1. w \in Nat /\ m \in Nat /\ DOMAIN n.edges = 1 .. m /\ \A i \in 1 .. m : n.edges[i] \in n.pool
  <2>1. n.edges \in Seq(n.pool) /\ w \in Nat BY DEF NetworkOK
  <2> QED BY <2>1
<1>2. \A i \in 1 .. m : \A k \in 1 .. w : n.upper[n.edges[i]][k] \in Nat /\ n.cost[n.edges[i]][k] \in Int
  <2>1. \A e \in n.pool : n.upper[e] \in [1 .. w -> Nat] /\ n.cost[e] \in [1 .. w -> Int]
    BY DEF NetworkOK, Numbers, Commodities
  <2> QED BY <1>1, <2>1
<1>3. \A i \in 1 .. m : lists[i] = [k \in 1 .. w |-> Column(n.upper[n.edges[i]][k], n.cost[n.edges[i]][k])]
  BY <1>1 DEF EdgeColumns, Commodities
<1>4. lists = [i \in 1 .. m |-> lists[i]] BY <1>1
<1>5. ColumnsOf(n) = Chained(lists) BY DEF ColumnsOf
<1> HIDE DEF lists
<1>6. \A i \in 1 .. m : lists[i] \in Seq(A) /\ Len(lists[i]) = w
  <2> SUFFICES ASSUME NEW i \in 1 .. m PROVE lists[i] \in Seq(A) /\ Len(lists[i]) = w OBVIOUS
  <2> DEFINE l == lists[i]
  <2>1. l = [k \in 1 .. w |-> Column(n.upper[n.edges[i]][k], n.cost[n.edges[i]][k])] BY <1>3
  <2>2. \A k \in 1 .. w : Column(n.upper[n.edges[i]][k], n.cost[n.edges[i]][k]) \in A BY <1>2 DEF Column
  <2> HIDE DEF l, A
  <2>3. \A k \in 1 .. w : l[k] \in A BY <2>1, <2>2
  <2>4. l = [k \in 1 .. w |-> l[k]] BY <2>1
  <2>5. l \in Seq(A) /\ Len(l) = w BY <1>1, <2>3, <2>4, ListMade
  <2> QED BY <2>5 DEF l
<1>7. lists \in Seq(Seq(A)) /\ Len(lists) = m
  <2> HIDE DEF A, m
  <2> QED BY <1>1, <1>4, <1>6, ListMade
<1>11. Columns(n) = 1 .. m * w /\ Commodities(n) = 1 .. w BY DEF Columns, Commodities
<1>12. \A i \in 1 .. m, j \in 1 .. w : lists[i][j] = Column(n.upper[n.edges[i]][j], n.cost[n.edges[i]][j])
  BY <1>3
<1> HIDE DEF A, m, w
<1>8. /\ Chained(lists) \in Seq(A) /\ Len(Chained(lists)) = m * w
      /\ \A i \in 1 .. m, j \in 1 .. w :
            /\ (i - 1) * w + j \in 1 .. m * w
            /\ Chained(lists)[(i - 1) * w + j] = lists[i][j]
      /\ \A c \in 1 .. m * w : \E i \in 1 .. m, j \in 1 .. w : c = (i - 1) * w + j
  <2>1. lists \in Seq(Seq(A)) /\ w \in Nat BY <1>1, <1>7
  <2>2. \A i \in 1 .. Len(lists) : Len(lists[i]) = w BY <1>6, <1>7
  <2>3. Chained(lists) \in Seq(A) /\ Len(Chained(lists)) = Len(lists) * w BY <2>1, <2>2, ChainedEven DEF InLines
  <2>5. \A i \in 1 .. Len(lists), j \in 1 .. w :
          /\ (i - 1) * w + j \in 1 .. Len(lists) * w
          /\ Chained(lists)[(i - 1) * w + j] = lists[i][j]
    <3>1. \A i \in 1 .. Len(lists), j \in 1 .. w : (i - 1) * w + j \in 1 .. Len(lists) * w
      BY <2>1, <2>2, ChainedEven DEF InLines
    <3>2. \A i \in 1 .. Len(lists), j \in 1 .. w : Chained(lists)[(i - 1) * w + j] = lists[i][j]
      <4> SUFFICES ASSUME NEW i \in 1 .. Len(lists), NEW j \in 1 .. w
                   PROVE  Chained(lists)[(i - 1) * w + j] = lists[i][j]
        OBVIOUS
      <4> QED BY <2>1, <2>2, ChainedEven DEF InLines
    <3> QED BY <3>1, <3>2
  <2>6. \A c \in 1 .. Len(lists) * w : \E i \in 1 .. Len(lists), j \in 1 .. w : c = (i - 1) * w + j
    BY <1>1, <1>7, EveryPlace
  <2>4. Len(lists) = m BY <1>7
  <2> QED BY <2>3, <2>4, <2>5, <2>6, Zenon
<1>10. DOMAIN Chained(lists) = 1 .. m * w
  <2> DEFINE q == Chained(lists)
             z == m * w
  <2>1. q \in Seq(A) /\ Len(q) = z BY <1>8
  <2> HIDE DEF q, z
  <2>2. DOMAIN q = 1 .. z BY <2>1
  <2> QED BY <2>2 DEF q, z
<1>13. ColumnsOf(n) \in Seq(A) /\ DOMAIN ColumnsOf(n) = Columns(n) /\ Len(ColumnsOf(n)) = m * w
  BY <1>5, <1>8, <1>10, <1>11
<1>14. ASSUME NEW i \in 1 .. m, NEW k \in Commodities(n)
       PROVE  /\ (i - 1) * w + k \in Columns(n)
              /\ ColumnsOf(n)[(i - 1) * w + k] = Column(n.upper[n.edges[i]][k], n.cost[n.edges[i]][k])
  <2>1. k \in 1 .. w BY <1>11
  <2>2. (i - 1) * w + k \in 1 .. m * w /\ Chained(lists)[(i - 1) * w + k] = lists[i][k]
    BY <1>8, <2>1
  <2>3. lists[i][k] = Column(n.upper[n.edges[i]][k], n.cost[n.edges[i]][k]) BY <1>12, <2>1
  <2> QED BY <1>5, <1>11, <2>2, <2>3
<1>15. ASSUME NEW c \in Columns(n) PROVE \E i \in 1 .. m, k \in Commodities(n) : c = (i - 1) * w + k
  <2>1. c \in 1 .. m * w BY <1>11
  <2>2. \E i \in 1 .. m, j \in 1 .. w : c = (i - 1) * w + j BY <1>8, <2>1
  <2> QED BY <1>11, <2>2
<1> QED BY <1>13, <1>14, <1>15 DEF m, w, A

\* The problem has these columns and, numbered, the rows (createProblemCPLEX).
LEMMA ProblemIs ==
  ASSUME NEW n, NetworkOK(n), NEW cs, NEW time, RowsTyped(n, cs)
  PROVE  CreateProblem(n, cs, time) =
           [name |-> <<"multicommodity", time>>, columns |-> ColumnsOf(n),
            rows |-> Named(AllRows(n, cs)), refused |-> FALSE]
<1> DEFINE x == <<"multicommodity", time>>
           c == ColumnsOf(n)
           p == [name |-> x, columns |-> c, rows |-> <<>>, refused |-> FALSE]
           all == AllRows(n, cs)
           rows == Named(all)
           A == [name : Nat, bounds : BoundsSet, entries : EntriesSet(n)]
<1>1. c \in Seq([upper : Nat, cost : Int]) BY ColumnsAre
<1>2. WithColumns(n, NewProblem(x)) = p
  <2>1. WithColumns(n, NewProblem(x)) = AddColumns(NewProblem(x), c) BY DEF WithColumns, ColumnsOf
  <2> HIDE DEF c, x
  <2>2. <<>> \o c = c BY <1>1
  <2> QED BY <2>1, <2>2 DEF AddColumns, NewProblem
<1>3. all \in Seq(RowSet(n)) BY AllRowsAre
<1>4. CreateProblem(n, cs, time) = AddRows(WithColumns(n, NewProblem(x)), rows)
  BY DEF CreateProblem, AllRows
<1> HIDE DEF all, x, c
<1>5. rows \in Seq(A) /\ \A i \in 1 .. Len(rows) : rows[i].name = i
  <2> DEFINE m == Len(all)
  <2>1. m \in Nat /\ DOMAIN all = 1 .. m /\ \A i \in 1 .. m : all[i] \in RowSet(n) BY <1>3
  <2>2. rows = [i \in 1 .. m |-> NewRow(i, all[i].bounds, all[i].entries)] BY <2>1 DEF Named
  <2>3. \A i \in 1 .. m : /\ NewRow(i, all[i].bounds, all[i].entries) \in A
                          /\ NewRow(i, all[i].bounds, all[i].entries).name = i
    BY <2>1 DEF NewRow, RowSet
  <2> HIDE DEF rows, A, m
  <2>4. \A i \in 1 .. m : rows[i] \in A /\ rows[i].name = i BY <2>2, <2>3
  <2>5. rows = [i \in 1 .. m |-> rows[i]] BY <2>2
  <2>6. rows \in Seq(A) /\ Len(rows) = m BY <2>1, <2>4, <2>5, ListMade
  <2> QED BY <2>4, <2>6
<1> HIDE DEF rows, A
<1>6. \A i, j \in 1 .. Len(rows) : rows[i].name = rows[j].name => i = j BY <1>5
<1>7. AddRows(p, rows) = [p EXCEPT !.rows = rows] BY <1>5, <1>6, AddRowsAdds
<1>8. [p EXCEPT !.rows = rows] = [name |-> x, columns |-> c, rows |-> rows, refused |-> FALSE]
  <2> DEFINE q == [name |-> x, columns |-> c, rows |-> rows, refused |-> FALSE]
             l == [p EXCEPT !.rows = rows]
  <2>1. DOMAIN l = DOMAIN p /\ DOMAIN p = {"name", "columns", "rows", "refused"} OBVIOUS
  <2>2. DOMAIN q = {"name", "columns", "rows", "refused"} OBVIOUS
  <2>3. l = [i \in DOMAIN p |-> l[i]] /\ q = [i \in DOMAIN q |-> q[i]] OBVIOUS
  <2>4. l["name"] = q["name"] /\ l["columns"] = q["columns"] OBVIOUS
  <2>5. l["rows"] = q["rows"] OBVIOUS
  <2>6. l["refused"] = q["refused"] OBVIOUS
  <2> HIDE DEF l, q, p
  <2>7. \A i \in DOMAIN p : l[i] = q[i] BY <2>1, <2>4, <2>5, <2>6
  <2>8. [i \in DOMAIN p |-> l[i]] = [i \in DOMAIN q |-> q[i]] BY <2>1, <2>2, <2>7
  <2>9. l = q BY <2>3, <2>8
  <2> QED BY <2>9 DEF l, q
<1> QED BY <1>2, <1>4, <1>7, <1>8 DEF rows, x, c, all

-----------------------------------------------------------------------------
(* The answers to the problem, and the flows they stand for.               *)

\* The problem of a network.
ProblemOf(n, cs, p) ==
  p = [name |-> p.name, columns |-> ColumnsOf(n), rows |-> Named(AllRows(n, cs)), refused |-> FALSE]

\* Its assignments are the flows within the limits of single commodities.
LEMMA AssignmentsAre ==
  ASSUME NEW n, NEW cs, Lined(n, cs), NEW p, ProblemOf(n, cs, p), NEW a
  PROVE  a \in Assignments(p) <=>
           /\ Assigned(n, cs, a)
           /\ \A e \in ToSet(n.edges), k \in Commodities(n) : FlowOf(n, cs, a)[e][k] <= n.upper[e][k]
<1> DEFINE cols == ColumnsOf(n)
           all == UNION {0 .. cols[c].upper : c \in DOMAIN cols}
           w == n.commodities
           at(i, k) == (i - 1) * w + k
<1>0. NetworkOK(n) BY DEF Lined
<1>1. cols = p.columns BY DEF ProblemOf
<1>2. /\ cols \in Seq([upper : Nat, cost : Int]) /\ DOMAIN cols = Columns(n)
      /\ \A i \in 1 .. Len(n.edges), k \in Commodities(n) :
            /\ at(i, k) \in Columns(n)
            /\ cols[at(i, k)] = Column(n.upper[n.edges[i]][k], n.cost[n.edges[i]][k])
      /\ \A c \in Columns(n) : \E i \in 1 .. Len(n.edges), k \in Commodities(n) : c = at(i, k)
  BY <1>0, ColumnsAre
<1> HIDE DEF cols
<1>3. a \in Assignments(p) <=> a \in [DOMAIN cols -> all] /\ \A c \in DOMAIN a : a[c] <= cols[c].upper
  BY <1>1 DEF Assignments
<1>4. \A c \in Columns(n) : cols[c].upper \in Nat
  <2> DEFINE A == [upper : Nat, cost : Int]
  <2>1. cols \in Seq(A) /\ DOMAIN cols = Columns(n) BY <1>2
  <2>2. \A x \in A : x.upper \in Nat OBVIOUS
  <2> HIDE DEF A
  <2>3. \A c \in Columns(n) : cols[c] \in A BY <2>1
  <2> QED BY <2>2, <2>3
<1>5. all \subseteq Nat /\ \A c \in Columns(n) : 0 .. cols[c].upper \subseteq all
  BY <1>2, <1>4
<1> HIDE DEF all
<1>6. a \in Assignments(p) <=> a \in [Columns(n) -> Nat] /\ \A c \in Columns(n) : a[c] <= cols[c].upper
  <2>1. ASSUME a \in Assignments(p)
        PROVE  a \in [Columns(n) -> Nat] /\ \A c \in Columns(n) : a[c] <= cols[c].upper
    BY <1>2, <1>3, <1>5, <2>1
  <2>2. ASSUME a \in [Columns(n) -> Nat], \A c \in Columns(n) : a[c] <= cols[c].upper
        PROVE  a \in Assignments(p)
    <3>1. \A c \in Columns(n) : a[c] \in all
      <4>1. \A c \in Columns(n) : a[c] \in 0 .. cols[c].upper BY <1>4, <2>2
      <4> QED BY <1>5, <4>1
    <3>2. DOMAIN a = Columns(n) /\ a = [c \in Columns(n) |-> a[c]] BY <2>2
    <3>3. a \in [Columns(n) -> all] BY <3>1, <3>2
    <3> QED BY <1>2, <1>3, <2>2, <3>2, <3>3
  <2> QED BY <2>1, <2>2
<1>7. Assigned(n, cs, a) <=> a \in [Columns(n) -> Nat] BY DEF Assigned
<1>8. ASSUME Assigned(n, cs, a)
      PROVE  (\A c \in Columns(n) : a[c] <= cols[c].upper) <=>
             \A e \in ToSet(n.edges), k \in Commodities(n) : FlowOf(n, cs, a)[e][k] <= n.upper[e][k]
  <2> DEFINE f == FlowOf(n, cs, a)
  <2>1. \A e : e \in ToSet(n.edges) <=> \E i \in 1 .. Len(n.edges) : e = n.edges[i]
    <3>1. ToSet(n.edges) = Held(n.edges) /\ n.edges \in Seq(n.pool) BY <1>0, EdgesAre
    <3>2. DOMAIN n.edges = 1 .. Len(n.edges) BY <3>1
    <3> QED BY <3>1, <3>2 DEF Held
  <2>2. ASSUME NEW i \in 1 .. Len(n.edges), NEW k \in Commodities(n)
        PROVE  f[n.edges[i]][k] = a[at(i, k)] /\ cols[at(i, k)].upper = n.upper[n.edges[i]][k]
               /\ at(i, k) \in Columns(n)
    <3>1. n.edges[i] \in ToSet(n.edges) BY <2>1
    <3>2. f[n.edges[i]][k] = a[GetColumnIndex(n, cs, n.edges[i], k)] BY <1>8, <3>1, FlowOfIs
    <3>3. GetColumnIndex(n, cs, n.edges[i], k) = at(i, k) BY ColumnFound
    <3>4. cols[at(i, k)].upper = n.upper[n.edges[i]][k]
      <4>1. Column(n.upper[n.edges[i]][k], n.cost[n.edges[i]][k]).upper = n.upper[n.edges[i]][k] BY DEF Column
      <4> HIDE DEF at
      <4> QED BY <1>2, <4>1
    <3> HIDE DEF at
    <3> QED BY <1>2, <3>2, <3>3, <3>4
  <2> HIDE DEF f, at
  <2>3. ASSUME \A c \in Columns(n) : a[c] <= cols[c].upper,
               NEW e \in ToSet(n.edges), NEW k \in Commodities(n)
        PROVE  f[e][k] <= n.upper[e][k]
    <3>1. PICK i \in 1 .. Len(n.edges) : e = n.edges[i] BY <2>1
    <3>2. a[at(i, k)] <= cols[at(i, k)].upper BY <2>2, <2>3
    <3> QED BY <2>2, <3>1, <3>2
  <2>4. ASSUME \A e \in ToSet(n.edges), k \in Commodities(n) : f[e][k] <= n.upper[e][k],
               NEW c \in Columns(n)
        PROVE  a[c] <= cols[c].upper
    <3>1. PICK i \in 1 .. Len(n.edges), k \in Commodities(n) : c = at(i, k) BY <1>2
    <3>2. n.edges[i] \in ToSet(n.edges) BY <2>1
    <3>3. f[n.edges[i]][k] <= n.upper[n.edges[i]][k] BY <2>4, <3>2
    <3> QED BY <2>2, <3>1, <3>3
  <2> QED BY <2>3, <2>4 DEF f
<1> QED BY <1>6, <1>7, <1>8

\* Its feasible assignments are the admissible flows.
LEMMA FeasibleAre ==
  ASSUME NEW n, NEW cs, Lined(n, cs), Expressible(n), NEW p, ProblemOf(n, cs, p), NEW a
  PROVE  a \in Feasible(p) <=> Assigned(n, cs, a) /\ Admissible(n, FlowOf(n, cs, a))
<1> DEFINE all == AllRows(n, cs)
           rows == Named(all)
           single == \A e \in ToSet(n.edges), k \in Commodities(n) : FlowOf(n, cs, a)[e][k] <= n.upper[e][k]
<1>0. NetworkOK(n) BY DEF Lined
<1>1. a \in Assignments(p) <=> Assigned(n, cs, a) /\ single BY AssignmentsAre
<1>2. a \in Feasible(p) <=> a \in Assignments(p) /\ \A i \in DOMAIN p.rows : Meets(p.rows[i], a)
  BY DEF Feasible
<1>3. p.rows = rows BY DEF ProblemOf
<1>4. DOMAIN rows = DOMAIN all /\ \A i \in DOMAIN all : Meets(rows[i], a) <=> Meets(all[i], a)
  <2>1. DOMAIN rows = DOMAIN all /\ \A i \in DOMAIN all : rows[i] = NewRow(i, all[i].bounds, all[i].entries)
    BY DEF Named
  <2> HIDE DEF rows, all
  <2>2. \A i \in DOMAIN all : rows[i].bounds = all[i].bounds /\ rows[i].entries = all[i].entries
    BY <2>1 DEF NewRow
  <2> QED BY <2>1, <2>2 DEF Meets
<1> HIDE DEF rows
<1>5. (\A i \in DOMAIN rows : Meets(rows[i], a)) <=> \A r \in Held(all) : Meets(r, a)
  BY <1>4 DEF Held
<1>6. Assigned(n, cs, a) =>
        ((\A r \in Held(all) : Meets(r, a)) /\ single <=> Admissible(n, FlowOf(n, cs, a)))
  BY RowsMet
<1> HIDE DEF all, single
<1> QED BY <1>1, <1>2, <1>3, <1>5, <1>6

\* A flow within the limits is that of an assignment, and the other way round.
LEMMA FlowsAreAssigned ==
  ASSUME NEW n, NEW cs, Lined(n, cs), Expressible(n)
  PROVE  /\ \A a : Assigned(n, cs, a) /\ Admissible(n, FlowOf(n, cs, a)) => FlowOf(n, cs, a) \in AllFlows(n)
         /\ \A f \in AllFlows(n) : \E a : Assigned(n, cs, a) /\ FlowOf(n, cs, a) = f
<1> DEFINE E == ToSet(n.edges)
           K == Commodities(n)
           limited(e) == {f \in [K -> 0 .. IntMax] : \A k \in K : f[k] <= n.upper[e][k]}
<1>0. NetworkOK(n) /\ IntMax \in Nat BY IntMaxAssumption DEF Lined
<1>1. \A f : f \in AllFlows(n) <=>
        /\ f \in [E -> UNION {limited(e) : e \in E}] /\ \A e \in E : f[e] \in limited(e)
  BY DEF AllFlows
<1>2. \A e \in E, k \in K : n.upper[e][k] \in Nat /\ n.upper[e][k] <= IntMax
  <2>1. E \subseteq n.pool BY <1>0, EdgesAre
  <2>2. \A e \in n.pool : n.upper[e] \in [K -> Nat] BY <1>0 DEF NetworkOK, Numbers
  <2>3. \A e \in E, k \in K : n.upper[e][k] <= IntMax BY DEF Expressible
  <2> QED BY <2>1, <2>2, <2>3
<1>3. ASSUME NEW a, Assigned(n, cs, a), Admissible(n, FlowOf(n, cs, a))
      PROVE  FlowOf(n, cs, a) \in AllFlows(n)
  <2> DEFINE f == FlowOf(n, cs, a)
  <2>1. f \in [E -> [K -> Nat]] BY <1>3, FlowOfIs
  <2>2. \A e \in E, k \in K : f[e][k] <= n.upper[e][k] BY <1>3 DEF Admissible, Carries
  <2> HIDE DEF f, K
  <2>3. \A e \in E : f[e] \in [K -> Nat] BY <2>1
  <2>4. \A e \in E : f[e] \in [K -> 0 .. IntMax]
    <3> SUFFICES ASSUME NEW e \in E PROVE f[e] \in [K -> 0 .. IntMax] OBVIOUS
    <3>1. f[e] \in [K -> Nat] BY <2>3
    <3>2. \A k \in K : f[e][k] \in 0 .. IntMax
      <4> SUFFICES ASSUME NEW k \in K PROVE f[e][k] \in 0 .. IntMax OBVIOUS
      <4>1. f[e][k] \in Nat /\ f[e][k] <= n.upper[e][k] BY <2>2, <3>1
      <4>2. n.upper[e][k] \in Nat /\ n.upper[e][k] <= IntMax BY <1>2
      <4> QED BY <1>0, <4>1, <4>2
    <3> QED BY <3>1, <3>2
  <2>5. \A e \in E : f[e] \in limited(e) BY <2>2, <2>4
  <2>6. f \in [E -> UNION {limited(e) : e \in E}]
    <3> HIDE DEF limited
    <3>1. \A e \in E : f[e] \in UNION {limited(x) : x \in E} BY <2>5
    <3>2. f = [e \in E |-> f[e]] BY <2>1
    <3> QED BY <3>1, <3>2
  <2> HIDE DEF limited
  <2>7. f \in AllFlows(n) BY <1>1, <2>5, <2>6
  <2> QED BY <2>7 DEF f
<1>4. ASSUME NEW f \in AllFlows(n) PROVE \E a : Assigned(n, cs, a) /\ FlowOf(n, cs, a) = f
  <2> DEFINE m == Len(n.edges)
             w == n.commodities
             lists == [i \in 1 .. m |-> f[n.edges[i]]]
             a == Chained(lists)
  <2>1. /\ w \in Nat /\ m \in Nat /\ K = 1 .. w
        /\ \A e : e \in E <=> \E i \in 1 .. m : e = n.edges[i]
    <3>1. ToSet(n.edges) = Held(n.edges) /\ n.edges \in Seq(n.pool) /\ w \in Nat BY <1>0, EdgesAre
    <3>2. DOMAIN n.edges = 1 .. Len(n.edges) /\ m \in Nat BY <3>1
    <3> QED BY <3>1, <3>2 DEF Held, Commodities
  <2>2. DOMAIN f = E /\ f = [e \in E |-> f[e]] /\ \A e \in E : f[e] \in [K -> 0 .. IntMax]
    <3>1. f \in [E -> UNION {limited(e) : e \in E}] /\ \A e \in E : f[e] \in limited(e) BY <1>1
    <3> QED BY <3>1
  <2> HIDE DEF K, limited
  <2>3. \A i \in 1 .. m : lists[i] = f[n.edges[i]] /\ lists[i] \in Seq(Nat) /\ Len(lists[i]) = w
    <3> SUFFICES ASSUME NEW i \in 1 .. m
                 PROVE  lists[i] = f[n.edges[i]] /\ lists[i] \in Seq(Nat) /\ Len(lists[i]) = w
      OBVIOUS
    <3>1. lists[i] = f[n.edges[i]] OBVIOUS
    <3>2. f[n.edges[i]] \in [1 .. w -> 0 .. IntMax] BY <2>1, <2>2
    <3>3. f[n.edges[i]] \in Seq(Nat) /\ Len(f[n.edges[i]]) = w BY <1>0, <2>1, <3>2
    <3> QED BY <3>1, <3>3
  <2>4. lists = [i \in 1 .. m |-> lists[i]] OBVIOUS
  <2> HIDE DEF lists, m, w
  <2>5. lists \in Seq(Seq(Nat)) /\ Len(lists) = m BY <2>1, <2>3, <2>4, ListMade
  <2>6. \A i \in 1 .. Len(lists) : Len(lists[i]) = w BY <2>3, <2>5
  <2>7. a \in Seq(Nat) /\ Len(a) = Len(lists) * w BY <2>1, <2>5, <2>6, ChainedEven DEF InLines
  <2>8. a \in [Columns(n) -> Nat]
    <3> DEFINE z == m * w
    <3> HIDE DEF a
    <3>1. a \in Seq(Nat) /\ Len(a) = z BY <2>5, <2>7
    <3>2. Columns(n) = 1 .. z BY DEF Columns, m, w
    <3> HIDE DEF z
    <3> QED BY <3>1, <3>2
  <2>9. ASSUME NEW i \in 1 .. m, NEW k \in 1 .. w PROVE a[(i - 1) * w + k] = f[n.edges[i]][k]
    <3>1. i \in 1 .. Len(lists) BY <2>5
    <3>2. Chained(lists)[(i - 1) * w + k] = lists[i][k]
      <4>1. lists \in Seq(Seq(Nat)) /\ w \in Nat BY <2>1, <2>5
      <4> QED BY <2>6, <3>1, <4>1, ChainedEven DEF InLines
    <3> QED BY <2>3, <3>2
  <2> HIDE DEF a
  <2>10. Assigned(n, cs, a) BY <2>8 DEF Assigned
  <2>11. FlowOf(n, cs, a) \in [E -> [K -> Nat]] BY <2>10, FlowOfIs DEF K
  <2>12. ASSUME NEW e \in E PROVE FlowOf(n, cs, a)[e] = f[e]
    <3>1. PICK i \in 1 .. m : e = n.edges[i] BY <2>1
    <3>2. \A k \in K : FlowOf(n, cs, a)[e][k] = f[e][k]
      <4> SUFFICES ASSUME NEW k \in K PROVE FlowOf(n, cs, a)[e][k] = f[e][k] OBVIOUS
      <4>1. FlowOf(n, cs, a)[e][k] = a[GetColumnIndex(n, cs, e, k)] BY <2>10, FlowOfIs DEF K
      <4>2. GetColumnIndex(n, cs, e, k) = (i - 1) * w + k BY <3>1, ColumnFound DEF m, w, K
      <4>3. k \in 1 .. w BY <2>1
      <4> QED BY <2>9, <3>1, <4>1, <4>2, <4>3
    <3>3. FlowOf(n, cs, a)[e] \in [K -> Nat] /\ f[e] \in [K -> 0 .. IntMax] BY <2>2, <2>11
    <3> QED BY <3>2, <3>3
  <2>13. FlowOf(n, cs, a) = f BY <2>2, <2>11, <2>12
  <2> QED BY <2>10, <2>13
<1> QED BY <1>3, <1>4

\* Twice the objective is the cost, as costs are whole and kept in halves.
LEMMA CostIsObjective ==
  ASSUME NEW n, NEW cs, NEW a, Assigned(n, cs, a), Expressible(n), NEW p, ProblemOf(n, cs, p)
  PROVE  Objective(p, a) \in Int /\ Cost(n, FlowOf(n, cs, a)) = 2 * Objective(p, a)
<1> DEFINE f == FlowOf(n, cs, a)
           m == Len(n.edges)
           w == n.commodities
           at(i, k) == (i - 1) * w + k
           cols == ColumnsOf(n)
           term(i, k) == WrittenCost(n.cost[n.edges[i]][k]) * f[n.edges[i]][k]
           lists == [i \in 1 .. m |-> [k \in 1 .. w |-> term(i, k)]]
           terms == [c \in DOMAIN cols |-> WrittenCost(cols[c].cost) * a[c]]
           edges == [i \in 1 .. m |-> EdgeCost(n, f, n.edges[i])]
           sums == [i \in 1 .. m |-> SumOf(lists[i])]
<1>0. NetworkOK(n) /\ Lined(n, cs) /\ Commodities(n) = 1 .. w BY DEF Assigned, Lined, Commodities
<1>1. w \in Nat /\ m \in Nat /\ DOMAIN n.edges = 1 .. m
      /\ \A i \in 1 .. m : n.edges[i] \in ToSet(n.edges) /\ n.edges[i] \in n.pool
  <2>1. ToSet(n.edges) = Held(n.edges) /\ n.edges \in Seq(n.pool) /\ w \in Nat BY <1>0, EdgesAre
  <2>2. DOMAIN n.edges = 1 .. m /\ m \in Nat BY <2>1
  <2> QED BY <2>1, <2>2 DEF Held
<1>2. ASSUME NEW i \in 1 .. m, NEW k \in 1 .. w
      PROVE  /\ n.cost[n.edges[i]][k] \in Int
             /\ n.cost[n.edges[i]][k] = 2 * WrittenCost(n.cost[n.edges[i]][k])
             /\ WrittenCost(n.cost[n.edges[i]][k]) \in Int
             /\ f[n.edges[i]][k] \in Nat /\ f[n.edges[i]][k] = a[at(i, k)]
             /\ term(i, k) \in Int
             /\ n.cost[n.edges[i]][k] * f[n.edges[i]][k] = 2 * term(i, k)
  <2>1. n.cost[n.edges[i]][k] \in Int
    <3>1. n.cost[n.edges[i]] \in [1 .. w -> Int] BY <1>0, <1>1 DEF NetworkOK, Numbers
    <3> QED BY <3>1
  <2>2. n.cost[n.edges[i]][k] % 2 = 0 BY <1>0, <1>1 DEF Expressible
  <2> DEFINE c == n.cost[n.edges[i]][k]
             x == f[n.edges[i]][k]
             h == WrittenCost(c)
  <2>3. c = 2 * h /\ h \in Int
    <3> HIDE DEF c
    <3> QED BY <2>1, <2>2 DEF c, WrittenCost
  <2>4. x \in Nat /\ x = a[GetColumnIndex(n, cs, n.edges[i], k)] BY <1>0, <1>1, FlowOfIs
  <2>5. GetColumnIndex(n, cs, n.edges[i], k) = at(i, k) BY <1>0, ColumnFound
  <2> HIDE DEF c, x, h
  <2>6. h * x \in Int /\ c * x = 2 * (h * x)
    <3>1. h \in Int /\ x \in Int BY <2>3, <2>4
    <3>2. (2 * h) * x = 2 * (h * x) BY <3>1
    <3> QED BY <2>3, <3>1, <3>2
  <2> QED BY <2>1, <2>3, <2>4, <2>5, <2>6 DEF c, x, h
<1>3. /\ DOMAIN cols = Columns(n) /\ Columns(n) = 1 .. m * w
      /\ \A i \in 1 .. m, k \in 1 .. w :
            at(i, k) \in Columns(n) /\ cols[at(i, k)].cost = n.cost[n.edges[i]][k]
      /\ \A c \in Columns(n) : \E i \in 1 .. m, k \in 1 .. w : c = at(i, k)
  <2>1. DOMAIN cols = Columns(n) BY <1>0, ColumnsAre
  <2>2. \A i \in 1 .. m, k \in Commodities(n) :
          /\ at(i, k) \in Columns(n)
          /\ cols[at(i, k)] = Column(n.upper[n.edges[i]][k], n.cost[n.edges[i]][k])
    BY <1>0, ColumnsAre
  <2>3. \A c \in Columns(n) : \E i \in 1 .. m, k \in Commodities(n) : c = at(i, k) BY <1>0, ColumnsAre
  <2>4. \A y, z : Column(y, z).cost = z BY DEF Column
  <2>5. Columns(n) = 1 .. m * w BY DEF Columns
  <2> HIDE DEF at, cols, m, w
  <2>6. \A i \in 1 .. m, k \in 1 .. w :
          at(i, k) \in Columns(n) /\ cols[at(i, k)].cost = n.cost[n.edges[i]][k]
    BY <1>0, <2>2, <2>4
  <2> QED BY <1>0, <2>1, <2>3, <2>5, <2>6
<1>4. ASSUME NEW i \in 1 .. m
      PROVE  /\ lists[i] \in Seq(Int) /\ Len(lists[i]) = w
             /\ \A k \in 1 .. w : lists[i][k] = term(i, k)
             /\ EdgeCost(n, f, n.edges[i]) = 2 * SumOf(lists[i])
             /\ SumOf(lists[i]) \in Int
  <2> DEFINE l == lists[i]
             e == n.edges[i]
             q == [k \in 1 .. w |-> n.cost[e][k] * f[e][k]]
  <2>1. l = [k \in 1 .. w |-> term(i, k)] OBVIOUS
  <2>2. \A k \in 1 .. w : l[k] = term(i, k) /\ l[k] \in Int BY <1>2, <2>1
  <2>3. \A k \in 1 .. w : q[k] = 2 * l[k]
    <3>1. \A k \in 1 .. w : n.cost[e][k] * f[e][k] = 2 * term(i, k) BY <1>2
    <3> HIDE DEF l, term
    <3> QED BY <2>2, <3>1
  <2>4. l = [k \in 1 .. w |-> l[k]] /\ q = [k \in 1 .. w |-> q[k]] BY <2>1
  <2>5. EdgeCost(n, f, e) = SumOf(q) BY <1>0 DEF EdgeCost
  <2> HIDE DEF l, q, e, term, w
  <2>6. \A k \in 1 .. w : q[k] \in Int BY <2>2, <2>3
  <2>7. l \in Seq(Int) /\ Len(l) = w /\ q \in Seq(Int) /\ Len(q) = w
    <3>1. l \in Seq(Int) /\ Len(l) = w BY <1>1, <2>2, <2>4, ListMade
    <3>2. q \in Seq(Int) /\ Len(q) = w BY <1>1, <2>4, <2>6, ListMade
    <3> QED BY <3>1, <3>2
  <2>8. SumOf(q) = 2 * SumOf(l)
    <3>1. \A k \in 1 .. Len(q) : q[k] = 2 * l[k] BY <2>3, <2>7
    <3>2. Len(l) = Len(q) /\ 2 \in Int BY <2>7
    <3> QED BY <2>7, <3>1, <3>2, SumScaled
  <2>9. SumOf(l) \in Int BY <2>7, SumOfFew
  <2> QED BY <2>2, <2>5, <2>7, <2>8, <2>9 DEF l, e
<1>5. Objective(p, a) = SumOf(terms)
  <2>1. p.columns = cols BY DEF ProblemOf
  <2> HIDE DEF cols
  <2> QED BY <2>1 DEF Objective
<1>6. Cost(n, f) = SumOf(edges) BY <1>1 DEF Cost
<1>7. lists = [i \in 1 .. m |-> lists[i]] OBVIOUS
<1>8. \A i \in 1 .. m, k \in 1 .. w : terms[at(i, k)] = lists[i][k]
  <2> SUFFICES ASSUME NEW i \in 1 .. m, NEW k \in 1 .. w PROVE terms[at(i, k)] = lists[i][k] OBVIOUS
  <2>1. at(i, k) \in DOMAIN cols /\ cols[at(i, k)].cost = n.cost[n.edges[i]][k] BY <1>3
  <2>2. terms[at(i, k)] = WrittenCost(cols[at(i, k)].cost) * a[at(i, k)]
    <3> HIDE DEF at, cols
    <3> QED BY <2>1
  <2>3. f[n.edges[i]][k] = a[at(i, k)] BY <1>2
  <2>4. lists[i][k] = term(i, k) BY <1>4
  <2> HIDE DEF at, cols, terms, lists, f
  <2> QED BY <2>1, <2>2, <2>3, <2>4
<1>9. terms = [c \in Columns(n) |-> terms[c]] BY <1>3
<1>10. sums = [i \in 1 .. m |-> sums[i]] /\ \A i \in 1 .. m : sums[i] = SumOf(lists[i]) OBVIOUS
<1>11. edges = [i \in 1 .. m |-> edges[i]] /\ \A i \in 1 .. m : edges[i] = EdgeCost(n, f, n.edges[i]) OBVIOUS
<1> HIDE DEF lists, terms, cols, edges, sums, term, f
<1>12. sums \in Seq(Int) /\ Len(sums) = m /\ edges \in Seq(Int) /\ Len(edges) = m
       /\ \A i \in 1 .. m : edges[i] = 2 * sums[i]
  <2> HIDE DEF m
  <2>1. \A i \in 1 .. m : sums[i] \in Int /\ edges[i] = 2 * sums[i] BY <1>4, <1>10, <1>11
  <2>2. \A i \in 1 .. m : edges[i] \in Int BY <2>1
  <2>3. sums \in Seq(Int) /\ Len(sums) = m BY <1>1, <1>10, <2>1, ListMade
  <2>4. edges \in Seq(Int) /\ Len(edges) = m BY <1>1, <1>11, <2>2, ListMade
  <2> QED BY <2>1, <2>3, <2>4
<1>13. lists \in Seq(Seq(Int)) /\ Len(lists) = m
  <2> HIDE DEF m
  <2>1. \A i \in 1 .. m : lists[i] \in Seq(Int) BY <1>4
  <2> QED BY <1>1, <1>7, <2>1, ListMade
<1> HIDE DEF m, w
<1>14. \A i \in 1 .. Len(lists) : Len(lists[i]) = w BY <1>4, <1>13
<1>15. Chained(lists) \in Seq(Int) /\ Len(Chained(lists)) = m * w
  <2>1. w \in Nat BY <1>1
  <2>2. Chained(lists) \in Seq(Int) /\ Len(Chained(lists)) = Len(lists) * w
    BY <1>13, <1>14, <2>1, ChainedEven DEF InLines
  <2> QED BY <1>13, <2>2
<1>16. ASSUME NEW i \in 1 .. m, NEW k \in 1 .. w PROVE Chained(lists)[at(i, k)] = lists[i][k]
  <2>1. i \in 1 .. Len(lists) BY <1>13
  <2>2. lists \in Seq(Seq(Int)) /\ w \in Nat BY <1>1, <1>13
  <2>3. InLines(Chained(lists), lists, w) BY <1>14, <2>2, ChainedEven
  <2>4. Chained(lists)[(i - 1) * w + k] = lists[i][k] BY <2>1, <2>3 DEF InLines
  <2> QED BY <2>4
<1> HIDE DEF at
<1>17. Chained(lists) = terms
  <2> DEFINE q == Chained(lists)
             z == m * w
  <2>1. q \in Seq(Int) /\ Len(q) = z BY <1>15
  <2>2. Columns(n) = 1 .. z BY <1>3
  <2>3. \A c \in Columns(n) : q[c] = terms[c]
    <3> SUFFICES ASSUME NEW c \in Columns(n) PROVE q[c] = terms[c] OBVIOUS
    <3>1. PICK i \in 1 .. m, k \in 1 .. w : c = at(i, k) BY <1>3
    <3> QED BY <1>8, <1>16, <3>1
  <2> HIDE DEF q, z
  <2>4. q = [c \in Columns(n) |-> q[c]] BY <2>1, <2>2
  <2>5. [c \in Columns(n) |-> q[c]] = [c \in Columns(n) |-> terms[c]] BY <2>3
  <2>6. q = terms BY <1>9, <2>4, <2>5
  <2> QED BY <2>6 DEF q
<1>18. SumOf(Chained(lists)) = SumOf(sums)
  <2> DEFINE g == [s \in Seq(Int) |-> SumOf(s)]
  <2>1. \A s \in Seq(Int) : SumOf(s) \in Int BY SumOfFew
  <2>2. \A s, t \in Seq(Int) : SumOf(s \o t) = SumOf(s) + SumOf(t) /\ s \o t \in Seq(Int)
    BY SumJoins, JoinedAt
  <2>3. <<>> \in Seq(Int) /\ SumOf(<<>>) = 0 BY SumOfFew
  <2>4. \A s \in Seq(Int) : g[s] = SumOf(s) OBVIOUS
  <2>5. g \in [Seq(Int) -> Int] BY <2>1
  <2> HIDE DEF g
  <2>6. g[<<>>] = 0 /\ \A s, t \in Seq(Int) : g[s \o t] = g[s] + g[t] BY <2>2, <2>3, <2>4
  <2>7. g[Chained(lists)] = SumOf([i \in 1 .. Len(lists) |-> g[lists[i]]])
    BY <1>13, <2>5, <2>6, SumOverChained
  <2>8. [i \in 1 .. Len(lists) |-> g[lists[i]]] = sums
    <3>1. \A i \in 1 .. m : g[lists[i]] = sums[i] BY <1>4, <1>10, <2>4
    <3>2. [i \in 1 .. m |-> g[lists[i]]] = [i \in 1 .. m |-> sums[i]] BY <3>1
    <3> QED BY <1>10, <1>13, <3>2
  <2> QED BY <1>15, <2>4, <2>7, <2>8
<1>19. SumOf(edges) = 2 * SumOf(sums) /\ SumOf(sums) \in Int
  <2>1. \A i \in 1 .. Len(edges) : edges[i] = 2 * sums[i] BY <1>12
  <2>2. Len(sums) = Len(edges) /\ 2 \in Int /\ sums \in Seq(Int) /\ edges \in Seq(Int) BY <1>12
  <2>3. SumOf(edges) = 2 * SumOf(sums) BY <2>1, <2>2, SumScaled
  <2> QED BY <2>2, <2>3, SumOfFew
<1> QED BY <1>5, <1>6, <1>17, <1>18, <1>19 DEF f

\* What is stored of an answer.
LEMMA AnswerStored ==
  ASSUME NEW n, NEW cs, Lined(n, cs), Expressible(n), NEW p, ProblemOf(n, cs, p),
         NEW status, NEW x, x.of # Missing, Fits(status, x, p)
  PROVE  LET f == StoredResult(n, cs, x)
             admissible == {g \in AllFlows(n) : Admissible(n, g)} IN
         /\ status = "OPTIMAL" => /\ f \in admissible
                                  /\ \A g \in admissible : Cost(n, f) <= Cost(n, g)
                                  /\ \E a : Assigned(n, cs, a) /\ f = FlowOf(n, cs, a)
         /\ status = "INFEASIBLE" => admissible = {}
<1> DEFINE f == StoredResult(n, cs, x)
           admissible == {g \in AllFlows(n) : Admissible(n, g)}
<1>1. \A g \in admissible : \E b \in Feasible(p) : Assigned(n, cs, b) /\ g = FlowOf(n, cs, b)
  <2> SUFFICES ASSUME NEW g \in admissible
               PROVE  \E b \in Feasible(p) : Assigned(n, cs, b) /\ g = FlowOf(n, cs, b)
    OBVIOUS
  <2>1. g \in AllFlows(n) /\ Admissible(n, g) OBVIOUS
  <2>2. PICK b : Assigned(n, cs, b) /\ FlowOf(n, cs, b) = g BY <2>1, FlowsAreAssigned
  <2>3. b \in Feasible(p) BY <2>1, <2>2, FeasibleAre
  <2> QED BY <2>2, <2>3
<1>2. \A b \in Feasible(p) : Assigned(n, cs, b) /\ FlowOf(n, cs, b) \in admissible
  <2> SUFFICES ASSUME NEW b \in Feasible(p)
               PROVE  Assigned(n, cs, b) /\ FlowOf(n, cs, b) \in admissible
    OBVIOUS
  <2>1. Assigned(n, cs, b) /\ Admissible(n, FlowOf(n, cs, b)) BY FeasibleAre
  <2>2. FlowOf(n, cs, b) \in AllFlows(n) BY <2>1, FlowsAreAssigned
  <2> QED BY <2>1, <2>2
<1> HIDE DEF admissible
<1>3. CASE status = "INFEASIBLE"
  <2>1. Feasible(p) = {} BY <1>3 DEF Fits
  <2> QED BY <1>1, <1>3, <2>1 DEF admissible
<1>4. CASE status = "OPTIMAL"
  <2>1. PICK a \in Optimal(p) : \A i \in DOMAIN p.columns : ColumnValue(x, i) = a[i] BY <1>4 DEF Fits
  <2>2. a \in Feasible(p) /\ \A b \in Feasible(p) : Objective(p, a) <= Objective(p, b)
    BY DEF Optimal
  <2>3. Assigned(n, cs, a) /\ FlowOf(n, cs, a) \in admissible BY <1>2, <2>2
  <2>4. f = FlowOf(n, cs, a)
    <3>1. DOMAIN p.columns = Columns(n)
      <4>1. NetworkOK(n) /\ p.columns = ColumnsOf(n) BY DEF Lined, ProblemOf
      <4> QED BY <4>1, ColumnsAre
    <3>2. \A e \in ToSet(n.edges), k \in Commodities(n) :
            ColumnValue(x, GetColumnIndex(n, cs, e, k)) = a[GetColumnIndex(n, cs, e, k)]
      BY <2>1, <3>1, ColumnFound
    <3> QED BY <3>2 DEF StoredResult, FlowOf
  <2>5. ASSUME NEW g \in admissible PROVE Cost(n, f) <= Cost(n, g)
    <3>1. PICK b \in Feasible(p) : Assigned(n, cs, b) /\ g = FlowOf(n, cs, b) BY <1>1
    <3>2. Objective(p, a) <= Objective(p, b) BY <2>2
    <3>3. Objective(p, a) \in Int /\ Cost(n, f) = 2 * Objective(p, a) BY <2>3, <2>4, CostIsObjective
    <3>4. Objective(p, b) \in Int /\ Cost(n, g) = 2 * Objective(p, b) BY <3>1, CostIsObjective
    <3> QED BY <3>2, <3>3, <3>4
  <2> QED BY <1>4, <2>3, <2>4, <2>5 DEF admissible
<1>5. CASE status \notin {"INFEASIBLE", "OPTIMAL"} BY <1>5
<1> QED BY <1>3, <1>4, <1>5

-----------------------------------------------------------------------------
(* The state between two calls.                                                *)

\* The network, and what is noted of its columns and rows.
NetworkInv ==
  /\ NetworkOK(network) /\ mColumnToEdge \in Seq(network.pool)
  /\ mColumnToEdge = <<>> => mRowToVertexCommodity = <<>>

NoInflowBounds(n) == \A v \in ToSet(n.vertices) : n.inflow[v] = <<>>

\* After a solve: the problem in the file is that of the network, the answer fits
\* it and is what is stored.
SolveInv ==
  last.call = "solve" =>
    /\ Len(network.edges) <= Len(mColumnToEdge)
    /\ mColumnToEdge = network.edges /\ NoInflowBounds(network) =>
          mRowToVertexCommodity = RowOwners(network, mColumnToEdge)
    /\ \E t : LET p == CreateProblem(network, mColumnToEdge, t) IN
          /\ last.file \in DOMAIN files => files[last.file].problem = p
          /\ last.status # "throws" =>
                /\ Fits(last.status, solvers[Flow].solution, p)
                /\ flow = StoredResult(network, mColumnToEdge, solvers[Flow].solution)

\* Rows without entries are left out.
LEMMA NoneFilled ==
  ASSUME NEW A, NEW list \in Seq(A), \A r \in A : r.row.entries = <<>>
  PROVE  Filled(list) = <<>>
<1> DEFINE S == {r \in ToSet(list) : r.row.entries # <<>>}
<1>1. ToSet(list) = Held(list) BY DEF ToSet, Held
<1>2. \A r \in Held(list) : r \in A BY DEF Held
<1>3. Filled(list) = Among(list, S) BY DEF Filled
<1>4. S = {} BY <1>1, <1>2
<1> HIDE DEF S
<1>5. Among(list, S) \in Seq(A) /\ Held(Among(list, S)) = {} BY <1>4, AmongHolds
<1> DEFINE l == Among(list, S)
<1> HIDE DEF l
<1>6. l \in Seq(A) /\ Held(l) = {} BY <1>5 DEF l
<1>7. l = <<>>
  <2>1. Len(l) # 0 => 1 \in DOMAIN l BY <1>6
  <2>2. Len(l) = 0 BY <1>6, <2>1 DEF Held
  <2> QED BY <1>6, <2>2
<1> QED BY <1>3, <1>7 DEF l

\* Without edges there are no rows of vertices.
LEMMA NoEdgesNoRows ==
  ASSUME NEW n, NetworkOK(n), n.edges = <<>>, NEW cs
  PROVE  AllVertexRows(n, cs) = <<>> /\ RowOwners(n, cs) = <<>>
<1> DEFINE A == [row : [bounds : BoundsSet, entries : {<<>>}],
                 owner : {<<>>} \cup (ToSet(n.vertices) \X Commodities(n))]
<1>0. n.commodities \in Nat /\ Commodities(n) = 1 .. n.commodities /\ IntMax \in Nat
  BY IntMaxAssumption DEF NetworkOK, Commodities
<1>1. \A v : InEdges(n, v) = <<>> /\ OutEdges(n, v) = <<>>
  <2>1. ToSet(n.edges) = {} BY DEF ToSet
  <2>2. \A l \in Seq({}) : l = <<>> OBVIOUS
  <2>3. \A v : InEdges(n, v) \in Seq({}) /\ OutEdges(n, v) \in Seq({}) BY <2>1, EdgesAre
  <2> QED BY <2>2, <2>3
<1>2. Chained(<<>>) = <<>>
  <2>1. <<>> \in Seq(Seq({})) OBVIOUS
  <2>2. Chained(<<>>) \in Seq({}) BY <2>1, ChainedHolds
  <2>3. \A l \in Seq({}) : l = <<>> OBVIOUS
  <2> QED BY <2>2, <2>3
<1>3. \A k, c : Entries(n, cs, <<>>, k, c) = <<>> BY DEF Entries
<1>4. ASSUME NEW v \in ToSet(n.vertices), NEW k \in Commodities(n)
      PROVE  CommodityRows(n, cs, v, k) \in Seq(A)
  <2> DEFINE x == Owned(BalanceRow(n, cs, v, k), <<v, k>>)
             y == Owned(TransFlowRow(n, cs, v, k), <<v, k>>)
             list == IF TransFlowBounded(n, v, k) THEN <<y>> ELSE <<>>
  <2>1. n.supply[v][k] \in Int /\ n.minTrans[v][k] \in Nat /\ n.maxTrans[v][k] \in Nat
    BY DEF NetworkOK, Numbers
  <2>2. BalanceRow(n, cs, v, k) = [bounds |-> Bounds(n.supply[v][k], n.supply[v][k], "Exact"), entries |-> <<>>]
    <3>1. <<>> \o <<>> = <<>> OBVIOUS
    <3> QED BY <1>1, <1>3, <3>1 DEF BalanceRow
  <2>3. TransFlowRow(n, cs, v, k) = [bounds |-> LowerLimit(n.minTrans[v][k], n.maxTrans[v][k]), entries |-> <<>>]
    BY <1>1, <1>3 DEF TransFlowRow
  <2>4. x \in A BY <2>1, <2>2 DEF Owned, Bounds, BoundsSet
  <2>5. y \in A BY <1>0, <2>1, <2>3 DEF Owned, LowerLimit, Bounds, BoundsSet
  <2>6. CommodityRows(n, cs, v, k) = <<x>> \o list BY DEF CommodityRows
  <2> HIDE DEF x, y, A
  <2>7. list \in Seq(A) BY <2>5
  <2> HIDE DEF list
  <2>8. <<x>> \o list \in Seq(A) BY <2>4, <2>7, HeldBehind
  <2> QED BY <2>6, <2>8
<1>5. ASSUME NEW v \in ToSet(n.vertices) PROVE InFlowRows(n, cs, v) \in Seq(A)
  <2> DEFINE B == [commodities : SUBSET Nat, min : Nat, max : Nat]
             S == {b \in ToSet(n.inflow[v]) : InFlowBounded(b)}
             bounds == Among(n.inflow[v], S)
             list == [i \in DOMAIN bounds |-> Owned(InFlowRow(n, cs, v, bounds[i]), <<>>)]
  <2>1. n.inflow[v] \in Seq(B) BY DEF NetworkOK
  <2>2. \A b \in B : Owned(InFlowRow(n, cs, v, b), <<>>) \in A
    <3> SUFFICES ASSUME NEW b \in B PROVE Owned(InFlowRow(n, cs, v, b), <<>>) \in A OBVIOUS
    <3>1. InFlowRow(n, cs, v, b).entries = Chained([i \in DOMAIN <<>> |-> EntriesOf(n, cs, <<>>[i], b.commodities)])
      BY <1>1 DEF InFlowRow
    <3>2. [i \in DOMAIN <<>> |-> EntriesOf(n, cs, <<>>[i], b.commodities)] = <<>> OBVIOUS
    <3>3. InFlowRow(n, cs, v, b) = [bounds |-> LowerLimit(b.min, b.max), entries |-> <<>>]
      BY <1>2, <3>1, <3>2 DEF InFlowRow
    <3> QED BY <1>0, <3>3 DEF Owned, LowerLimit, Bounds, BoundsSet
  <2> HIDE DEF B, S, A
  <2>3. bounds \in Seq(B) BY <2>1, AmongHolds
  <2>4. InFlowRows(n, cs, v) = list BY DEF InFlowRows, bounds, S
  <2> HIDE DEF bounds
  <2> DEFINE m == Len(bounds)
  <2>5. m \in Nat /\ DOMAIN bounds = 1 .. m /\ \A i \in 1 .. m : bounds[i] \in B BY <2>3
  <2> HIDE DEF m
  <2>6. list = [i \in 1 .. m |-> list[i]] BY <2>5
  <2>7. \A i \in 1 .. m : list[i] \in A BY <2>2, <2>5
  <2> HIDE DEF list
  <2>8. list \in Seq(A) BY <2>5, <2>6, <2>7, ListMade
  <2> QED BY <2>4, <2>8
<1>6. \A r \in A : r.row.entries = <<>> OBVIOUS
<1> HIDE DEF A
<1>7. ASSUME NEW v \in ToSet(n.vertices) PROVE VertexRows(n, cs, v) = <<>>
  <2> DEFINE lists == [k \in Commodities(n) |-> CommodityRows(n, cs, v, k)]
             w == n.commodities
             rows == Chained(lists) \o InFlowRows(n, cs, v)
  <2>1. \A k \in 1 .. w : lists[k] \in Seq(A) BY <1>0, <1>4
  <2>2. lists = [k \in 1 .. w |-> lists[k]] BY <1>0
  <2>3. w \in Nat BY <1>0
  <2>4. VertexRows(n, cs, v) = Filled(rows) BY DEF VertexRows
  <2> HIDE DEF lists, w
  <2>5. lists \in Seq(Seq(A)) BY <2>1, <2>2, <2>3, ListMade
  <2>6. Chained(lists) \in Seq(A) /\ InFlowRows(n, cs, v) \in Seq(A) BY <1>5, <2>5, ChainedHolds
  <2>7. rows \in Seq(A) BY <2>6, HeldTogether
  <2> HIDE DEF rows
  <2>8. Filled(rows) = <<>> BY <1>6, <2>7, NoneFilled
  <2> QED BY <2>4, <2>8
<1>8. AllVertexRows(n, cs) = <<>>
  <2> DEFINE lists == [i \in DOMAIN n.vertices |-> VertexRows(n, cs, n.vertices[i])]
             m == Len(n.vertices)
  <2>1. n.vertices \in Seq(ToSet(n.vertices)) BY DEF NetworkOK
  <2>2. m \in Nat /\ DOMAIN n.vertices = 1 .. m /\ \A i \in 1 .. m : n.vertices[i] \in ToSet(n.vertices)
    BY <2>1
  <2>3. \A i \in 1 .. m : lists[i] = <<>> BY <1>7, <2>2
  <2>4. lists = [i \in 1 .. m |-> lists[i]] BY <2>2
  <2>5. AllVertexRows(n, cs) = Chained(lists) BY DEF AllVertexRows
  <2> HIDE DEF lists, m
  <2>6. \A i \in 1 .. m : lists[i] \in Seq({})
    <3>1. <<>> \in Seq({}) OBVIOUS
    <3> QED BY <2>3, <3>1
  <2>7. lists \in Seq(Seq({})) BY <2>2, <2>4, <2>6, ListMade
  <2>8. Chained(lists) \in Seq({}) BY <2>7, ChainedHolds
  <2>9. \A l \in Seq({}) : l = <<>> OBVIOUS
  <2> QED BY <2>5, <2>8, <2>9
<1>9. RowOwners(n, cs) = <<>>
  <2>1. ToSet(<<>>) = {} BY DEF ToSet
  <2>2. Among(<<>>, {}) = <<>>
    <3>1. <<>> \in Seq({}) OBVIOUS
    <3>2. Among(<<>>, {}) \in Seq({}) BY <3>1, AmongHolds
    <3>3. \A l \in Seq({}) : l = <<>> OBVIOUS
    <3> QED BY <3>2, <3>3
  <2>3. {r \in ToSet(AllVertexRows(n, cs)) : r.owner # <<>>} = {} BY <1>8, <2>1
  <2> DEFINE rows == AllVertexRows(n, cs)
             owned == Among(rows, {r \in ToSet(rows) : r.owner # <<>>})
  <2>4. owned = <<>>
    <3>1. rows = <<>> BY <1>8
    <3> HIDE DEF rows
    <3> QED BY <2>2, <2>3, <3>1 DEF rows
  <2>5. RowOwners(n, cs) = [i \in DOMAIN owned |-> owned[i].owner] BY DEF RowOwners
  <2> HIDE DEF owned
  <2>6. [i \in DOMAIN <<>> |-> <<>>[i].owner] = <<>> OBVIOUS
  <2> QED BY <2>4, <2>5, <2>6
<1> QED BY <1>8, <1>9

\* The rows of a network without bounds of sets of commodities: of each edge one,
\* and those of vertices are whose they say.
LEMMA OwnersAre ==
  ASSUME NEW n, NEW cs, Lined(n, cs), NoInflowBounds(n)
  PROVE  /\ \A v \in ToSet(n.vertices) : VertexRows(n, cs, v) \in Seq(OwnedSet(n))
         /\ AllVertexRows(n, cs) \in Seq(OwnedSet(n))
         /\ RowOwners(n, cs) = [i \in 1 .. Len(AllVertexRows(n, cs)) |-> AllVertexRows(n, cs)[i].owner]
         /\ \A i \in 1 .. Len(AllVertexRows(n, cs)) :
               \E v \in ToSet(n.vertices), k \in Commodities(n) :
                  /\ AllVertexRows(n, cs)[i].owner = <<v, k>>
                  /\ AllVertexRows(n, cs)[i].row \in {BalanceRow(n, cs, v, k), TransFlowRow(n, cs, v, k)}
<1> DEFINE a == [c \in Columns(n) |-> 0]
           all == AllVertexRows(n, cs)
           A == OwnedSet(n)
<1>1. Assigned(n, cs, a) BY DEF Assigned
<1> HIDE DEF a
<1>2. NetworkOK(n) BY DEF Lined
<1>3. ASSUME NEW v \in ToSet(n.vertices)
      PROVE  /\ VertexRows(n, cs, v) \in Seq(A)
             /\ \A r \in Held(VertexRows(n, cs, v)) :
                   \E k \in Commodities(n) : /\ r.owner = <<v, k>>
                                             /\ r.row \in {BalanceRow(n, cs, v, k), TransFlowRow(n, cs, v, k)}
  <2>1. ToSet(n.inflow[v]) = {} BY DEF NoInflowBounds, ToSet
  <2>2. BoundsOfCommodities(n, v) BY <2>1 DEF BoundsOfCommodities
  <2>3. VertexRows(n, cs, v) \in Seq(A) BY <1>1, <2>2, VertexRowsAre
  <2>4. \A r : r \notin Held(InFlowRows(n, cs, v)) BY <1>1, <2>1, <2>2, InFlowRowsAre
  <2>5. \A r \in Held(VertexRows(n, cs, v)) : \E k \in Commodities(n) : r \in Held(CommodityRows(n, cs, v, k))
    BY <1>1, <2>2, <2>4, VertexRowsAre
  <2>6. \A k \in Commodities(n) : \A r \in Held(CommodityRows(n, cs, v, k)) :
          \/ r = Owned(BalanceRow(n, cs, v, k), <<v, k>>)
          \/ r = Owned(TransFlowRow(n, cs, v, k), <<v, k>>)
    BY <1>1, CommodityRowsAre
  <2>7. \A row, owner : Owned(row, owner).row = row /\ Owned(row, owner).owner = owner BY DEF Owned
  <2>8. \A k \in Commodities(n) : \A r \in Held(CommodityRows(n, cs, v, k)) :
          /\ r.owner = <<v, k>>
          /\ r.row \in {BalanceRow(n, cs, v, k), TransFlowRow(n, cs, v, k)}
    BY <2>6, <2>7
  <2> QED BY <2>3, <2>5, <2>8
<1>4. all \in Seq(A) /\ \A o \in Held(all) : \E v \in ToSet(n.vertices) : o \in Held(VertexRows(n, cs, v))
  <2> DEFINE lists == [i \in DOMAIN n.vertices |-> VertexRows(n, cs, n.vertices[i])]
             m == Len(n.vertices)
  <2>1. n.vertices \in Seq(ToSet(n.vertices)) BY <1>2 DEF NetworkOK
  <2>2. m \in Nat /\ DOMAIN n.vertices = 1 .. m /\ \A i \in 1 .. m : n.vertices[i] \in ToSet(n.vertices)
    BY <2>1
  <2>3. \A i \in 1 .. m : lists[i] = VertexRows(n, cs, n.vertices[i]) BY <2>2
  <2>4. lists = [i \in 1 .. m |-> lists[i]] BY <2>2
  <2>5. all = Chained(lists) BY DEF AllVertexRows
  <2> HIDE DEF lists, m, A
  <2>6. \A i \in 1 .. m : lists[i] \in Seq(A) BY <1>3, <2>2, <2>3
  <2>7. lists \in Seq(Seq(A)) /\ Len(lists) = m BY <2>2, <2>4, <2>6, ListMade
  <2>8. /\ Chained(lists) \in Seq(A)
        /\ \A x : x \in Held(Chained(lists)) <=> \E i \in 1 .. Len(lists) : x \in Held(lists[i])
    BY <2>7, ChainedHolds
  <2> HIDE DEF all
  <2> QED BY <2>2, <2>3, <2>5, <2>7, <2>8
<1>5. \A o \in Held(all) : \E v \in ToSet(n.vertices), k \in Commodities(n) :
        /\ o.owner = <<v, k>>
        /\ o.row \in {BalanceRow(n, cs, v, k), TransFlowRow(n, cs, v, k)}
  BY <1>3, <1>4
<1>6. RowOwners(n, cs) = LET owned == Among(all, {r \in ToSet(all) : r.owner # <<>>})
                         IN [i \in DOMAIN owned |-> owned[i].owner]
  BY DEF RowOwners
<1> HIDE DEF all, A
<1>7. DOMAIN all = 1 .. Len(all) /\ \A i \in 1 .. Len(all) : all[i] \in Held(all) /\ all[i] \in ToSet(all)
  BY <1>4 DEF Held, ToSet
<1>8. Among(all, {r \in ToSet(all) : r.owner # <<>>}) = all
  <2>1. \A v, k : <<v, k>> # <<>> OBVIOUS
  <2>2. \A o \in Held(all) : o.owner # <<>> BY <1>5, <2>1
  <2>3. \A i \in 1 .. Len(all) : all[i] \in {r \in ToSet(all) : r.owner # <<>>} BY <1>7, <2>2
  <2> QED BY <1>4, <2>3, AmongAll
<1>9. RowOwners(n, cs) = [i \in 1 .. Len(all) |-> all[i].owner] BY <1>6, <1>7, <1>8
<1>10. \A i \in 1 .. Len(all) : \E v \in ToSet(n.vertices), k \in Commodities(n) :
         /\ all[i].owner = <<v, k>>
         /\ all[i].row \in {BalanceRow(n, cs, v, k), TransFlowRow(n, cs, v, k)}
  BY <1>5, <1>7
<1> QED BY <1>3, <1>4, <1>9, <1>10 DEF all, A

\* Solving: the problem is written down and answered, and the answer stored.
LEMMA SolveStores ==
  ASSUME CacheInv, NetworkInv, NEW prefix \in SavePrefixes, NEW useCaching \in BOOLEAN, Solve(prefix, useCaching)
  PROVE  NetworkInv' /\ SolveInv'
<1> DEFINE f == Temp(temps + 1)
           n == network
           cs == mColumnToEdge \o n.edges
           p == CreateProblem(n, cs, temps)
           start == [Now(solvers[Flow]) EXCEPT !.temps = @ + 1,
                       !.files = Over(Entry(f, [kind |-> "problem", problem |-> p]), @)]
           stored(r) == IF r.status = "throws" THEN r ELSE SavedAs(r, prefix, f)
<1>1. PICK r \in RunResults(start, f, "CPLEX", useCaching) :
         /\ Takes("solve", Flow, stored(r), f)
         /\ flow' = IF stored(r).status = "throws" THEN flow
                    ELSE StoredResult(n, cs, stored(r).solver.solution)
  BY Zenon DEF Solve
<1>2. /\ network' = n /\ mColumnToEdge' = cs
      /\ mRowToVertexCommodity' = mRowToVertexCommodity \o RowOwners(n, cs)
      /\ temps + 3 <= MaxTemps
  BY Zenon DEF Solve
<1>3. NetworkOK(n) /\ n.edges \in Seq(n.pool) /\ mColumnToEdge \in Seq(n.pool)
  BY DEF NetworkInv, NetworkOK
<1>4. /\ cs \in Seq(n.pool) /\ Len(cs) = Len(mColumnToEdge) + Len(n.edges)
      /\ Len(mColumnToEdge) \in Nat /\ Len(n.edges) \in Nat /\ Len(n.edges) <= Len(cs)
      /\ \A i \in 1 .. Len(n.edges) : cs[Len(mColumnToEdge) + i] = n.edges[i]
  <2> DEFINE o == mColumnToEdge
             es == n.edges
             pool == n.pool
  <2>1. o \in Seq(pool) /\ es \in Seq(pool) BY <1>3
  <2> HIDE DEF o, es, pool
  <2>2. /\ o \o es \in Seq(pool) /\ Len(o \o es) = Len(o) + Len(es)
        /\ \A i \in 1 .. Len(es) : (o \o es)[Len(o) + i] = es[i]
    BY <2>1, JoinedAt
  <2>3. Len(o) \in Nat /\ Len(es) \in Nat BY <2>1
  <2>4. Len(es) <= Len(o \o es) BY <2>2, <2>3
  <2> QED BY <2>2, <2>3, <2>4 DEF o, es, pool
<1>5. PICK q : q = stored(r) /\ Takes("solve", Flow, q, f)
               /\ flow' = IF q.status = "throws" THEN flow ELSE StoredResult(n, cs, q.solver.solution)
  BY <1>1
<1>6. /\ temps \in 0 .. MaxTemps /\ MaxTemps \in Nat /\ Flow \in Solvers /\ DOMAIN solvers = Solvers
      /\ temps + 1 \in 1 .. MaxTemps /\ f # Temp(temps + 2)
  <2>1. MaxTemps \in Nat /\ temps \in 0 .. MaxTemps BY SolverAssumption DEF CacheInv
  <2>2. Flow \in Solvers /\ DOMAIN solvers = Solvers BY FlowAssumption DEF CacheInv
  <2>3. temps + 1 \in 1 .. MaxTemps /\ temps + 1 # temps + 2 /\ temps + 1 \in Nat /\ temps + 2 \in Nat BY <1>2, <2>1
  <2> QED BY <2>1, <2>2, <2>3, TempsDiffer
<1>7. /\ Ready(start, f) /\ start.temps = temps + 1 /\ f \in DOMAIN start.files
  <2> DEFINE c == [kind |-> "problem", problem |-> p]
  <2> HIDE DEF c
  <2>1. start = [Now(solvers[Flow]) EXCEPT !.temps = @ + 1, !.files = Over(Entry(Temp(temps + 1), c), @)]
    BY DEF c
  <2> HIDE DEF start
  <2> QED BY <1>2, <2>1, StartReady
<1>8. start.files[f].problem = p
  <2>1. start.files = Over(Entry(f, [kind |-> "problem", problem |-> p]), files) BY DEF Now, Result
  <2> DEFINE c == [kind |-> "problem", problem |-> p]
  <2>2. start.files = Over(Entry(f, c), files) BY <2>1
  <2>3. c.problem = p OBVIOUS
  <2> HIDE DEF p, f, start, c
  <2>4. Over(Entry(f, c), files)[f] = c BY DEF Over, Entry
  <2> QED BY <2>2, <2>3, <2>4
<1>9. f \in Temps BY <1>6 DEF Temps
<1> HIDE DEF start, p, f
<1>10. Returned(start, f, r) BY <1>1, <1>7, RunReturns
<1>11. /\ q.solver.solution = r.solver.solution
       /\ q.status = r.status \/ q.status = "throws"
       /\ f \in DOMAIN q.files => f \in DOMAIN r.files /\ q.files[f] = r.files[f]
  <2>1. CASE r.status = "throws" BY <1>5, <2>1
  <2>2. CASE r.status # "throws"
    <3>1. q = SavedAs(r, prefix, f) BY <1>5, <2>2
    <3>2. IsResult(r) BY <1>10 DEF Returned
    <3> QED BY <1>9, <3>1, <3>2, SavedAsKeeps
  <2> QED BY <2>1, <2>2
<1>12. q.status # "throws" => Fits(q.status, q.solver.solution, p)
  BY <1>7, <1>8, <1>10, <1>11 DEF Returned
<1>13. f \in DOMAIN q.files => q.files[f].problem = p
  <2>1. f # Temp(start.temps + 1)
    <3>1. start.temps + 1 = temps + 2 BY <1>6, <1>7
    <3> QED BY <1>6, <3>1
  <2>2. f \in DOMAIN r.files => r.files[f] = start.files[f] BY <1>10, <2>1 DEF Returned, SameBut
  <2> QED BY <1>8, <1>11, <2>2
<1>14. /\ last' = [call |-> "solve", solver |-> Flow, status |-> q.status, file |-> f]
       /\ files' = q.files /\ solvers'[Flow] = q.solver
  BY <1>5, <1>6 DEF Takes, Ends
<1>15. mColumnToEdge' = <<>> => mRowToVertexCommodity' = <<>>
  <2> SUFFICES ASSUME mColumnToEdge' = <<>> PROVE mRowToVertexCommodity' = <<>> OBVIOUS
  <2> DEFINE x == Len(mColumnToEdge)
             y == Len(n.edges)
             z == Len(cs)
  <2>1. z = 0 BY <1>2
  <2>2. z = x + y /\ x \in Nat /\ y \in Nat BY <1>4
  <2> HIDE DEF x, y, z
  <2>6. x = 0 /\ y = 0 BY <2>1, <2>2
  <2>7. Len(mColumnToEdge) = 0 /\ Len(n.edges) = 0 BY <2>6 DEF x, y
  <2>3. mColumnToEdge = <<>> /\ n.edges = <<>> BY <1>3, <2>7
  <2>4. mRowToVertexCommodity = <<>> BY <2>3 DEF NetworkInv
  <2>5. RowOwners(n, cs) = <<>> BY <1>3, <2>3, NoEdgesNoRows
  <2>8. <<>> \o <<>> = <<>> OBVIOUS
  <2> QED BY <1>2, <2>4, <2>5, <2>8
<1>16. NetworkInv' BY <1>2, <1>3, <1>4, <1>15 DEF NetworkInv
<1>17. mColumnToEdge' = n.edges /\ NoInflowBounds(n) => mRowToVertexCommodity' = RowOwners(n, cs)
  <2> SUFFICES ASSUME cs = n.edges, NoInflowBounds(n)
               PROVE  mRowToVertexCommodity \o RowOwners(n, cs) = RowOwners(n, cs)
    BY <1>2
  <2>1. Len(mColumnToEdge) = 0
    <3>1. Len(cs) = Len(n.edges) OBVIOUS
    <3> HIDE DEF cs
    <3> QED BY <1>4, <3>1
  <2>2. mRowToVertexCommodity = <<>> BY <1>3, <2>1 DEF NetworkInv
  <2> DEFINE A == {<<>>} \cup (ToSet(n.vertices) \X Commodities(n))
             all == AllVertexRows(n, cs)
             owners == RowOwners(n, cs)
  <2>3. Lined(n, cs) BY <1>3, <1>4 DEF Lined
  <2>4. all \in Seq(OwnedSet(n)) /\ owners = [i \in 1 .. Len(all) |-> all[i].owner]
    <3> HIDE DEF cs
    <3> QED BY <2>3, OwnersAre
  <2>5. \A x \in OwnedSet(n) : x.owner \in A BY DEF OwnedSet
  <2> HIDE DEF A, all, owners
  <2>6. Len(all) \in Nat /\ \A i \in 1 .. Len(all) : all[i].owner \in A BY <2>4, <2>5
  <2>7. owners \in Seq(A) BY <2>4, <2>6
  <2>8. <<>> \o owners = owners BY <2>7
  <2> QED BY <2>2, <2>8 DEF owners
<1>18. SolveInv'
  <2>1. Len(network'.edges) <= Len(mColumnToEdge') BY <1>2, <1>4
  <2>2. mColumnToEdge' = network'.edges /\ NoInflowBounds(network') =>
          mRowToVertexCommodity' = RowOwners(network', mColumnToEdge')
    BY <1>2, <1>17
  <2>3. CreateProblem(network', mColumnToEdge', temps) = p BY <1>2 DEF p
  <2>4. last'.file \in DOMAIN files' => files'[last'.file].problem = p BY <1>13, <1>14
  <2>5. last'.status # "throws" =>
          /\ Fits(last'.status, solvers'[Flow].solution, p)
          /\ flow' = StoredResult(network', mColumnToEdge', solvers'[Flow].solution)
    BY <1>2, <1>5, <1>12, <1>14
  <2> QED BY <2>1, <2>2, <2>3, <2>4, <2>5 DEF SolveInv
<1> QED BY <1>16, <1>18

\* The network stays one when the program changes it.
LEMMA EdgeAdded ==
  ASSUME NetworkInv, NEW e, AddEdge(e)
  PROVE  NetworkInv'
<1>1. /\ e \in network.pool \ ToSet(network.edges)
      /\ network' = [network EXCEPT !.edges = <<e>> \o @]
      /\ UNCHANGED <<mColumnToEdge, mRowToVertexCommodity>>
  BY DEF AddEdge
<1> DEFINE n == network
           m == network'
           es == n.edges
           pool == n.pool
<1>2. NetworkOK(n) BY DEF NetworkInv
<1>3. es \in Seq(pool) /\ NoneTwice(es) /\ ToSet(es) = Held(es) BY <1>2, EdgesAre
<1>4. /\ DOMAIN m = DOMAIN n /\ m.edges = <<e>> \o es
      /\ m.commodities = n.commodities /\ m.vertices = n.vertices /\ m.pool = n.pool /\ m.ends = n.ends
      /\ m.capacity = n.capacity /\ m.upper = n.upper /\ m.cost = n.cost /\ m.sub = n.sub
      /\ m.supply = n.supply /\ m.minTrans = n.minTrans /\ m.maxTrans = n.maxTrans /\ m.inflow = n.inflow
  BY <1>1, <1>2 DEF NetworkOK
<1>5. <<e>> \o es \in Seq(pool) /\ NoneTwice(<<e>> \o es)
  <2>1. e \in pool /\ e \notin Held(es) BY <1>1, <1>3
  <2> HIDE DEF es, pool
  <2> QED BY <1>3, <2>1, HeldBehind
<1>6. m.edges \in Seq(m.pool) /\ NoneTwice(m.edges) BY <1>4, <1>5
<1> HIDE DEF m
<1>7. NetworkOK(m) BY <1>2, <1>4, <1>6 DEF NetworkOK, Numbers, Commodities, NoneTwice
<1> QED BY <1>1, <1>4, <1>7 DEF NetworkInv, m

\* Setting a bound of a vertex.
LEMMA BoundSet ==
  ASSUME NetworkInv, NEW v \in ToSet(network.vertices), NEW commodities, NEW b,
         b \in [commodities : SUBSET Nat, min : Nat, max : Nat],
         network' = WithBound(v, commodities, b),
         UNCHANGED <<mColumnToEdge, mRowToVertexCommodity>>
  PROVE  NetworkInv'
<1> DEFINE n == network
           m == network'
           B == [commodities : SUBSET Nat, min : Nat, max : Nat]
           i == BoundOf(v, commodities)
           old == n.inflow[v]
           new == IF i > Len(old) THEN Append(old, b) ELSE [old EXCEPT ![i] = b]
<1>1. NetworkOK(n) BY DEF NetworkInv
<1>2. m = [n EXCEPT !.inflow[v] = new] BY DEF WithBound
<1>3. DOMAIN n.inflow = ToSet(n.vertices) /\ "inflow" \in DOMAIN n /\ \A x \in ToSet(n.vertices) : n.inflow[x] \in Seq(B)
  BY <1>1 DEF NetworkOK
<1>4. new \in Seq(B)
  <2>1. old \in Seq(B) /\ b \in B BY <1>3
  <2> HIDE DEF B, old, i
  <2>2. Append(old, b) \in Seq(B) BY <2>1
  <2>3. [old EXCEPT ![i] = b] \in Seq(B)
    <3> DEFINE l == [old EXCEPT ![i] = b]
               k == Len(old)
    <3>1. k \in Nat /\ DOMAIN old = 1 .. k /\ \A j \in 1 .. k : old[j] \in B BY <2>1
    <3>2. l = [j \in DOMAIN old |-> IF j = i THEN b ELSE old[j]] OBVIOUS
    <3> HIDE DEF l, k
    <3>3. l = [j \in 1 .. k |-> l[j]] BY <3>1, <3>2
    <3>4. \A j \in 1 .. k : l[j] \in B BY <2>1, <3>1, <3>2
    <3>5. l \in Seq(B) BY <3>1, <3>3, <3>4, ListMade
    <3> QED BY <3>5 DEF l
  <2> QED BY <2>2, <2>3
<1> HIDE DEF new, B
<1>5. /\ DOMAIN m = DOMAIN n /\ m.edges = n.edges
      /\ m.commodities = n.commodities /\ m.vertices = n.vertices /\ m.pool = n.pool /\ m.ends = n.ends
      /\ m.capacity = n.capacity /\ m.upper = n.upper /\ m.cost = n.cost /\ m.sub = n.sub
      /\ m.supply = n.supply /\ m.minTrans = n.minTrans /\ m.maxTrans = n.maxTrans
      /\ m.inflow = [n.inflow EXCEPT ![v] = new]
  BY <1>1, <1>2 DEF NetworkOK
<1>6. DOMAIN m.inflow = ToSet(n.vertices) /\ \A x \in ToSet(n.vertices) : m.inflow[x] \in Seq(B)
  BY <1>3, <1>4, <1>5
<1> HIDE DEF m
<1>7. NetworkOK(m) BY <1>1, <1>5, <1>6 DEF NetworkOK, Numbers, Commodities, B
<1> QED BY <1>5, <1>7 DEF NetworkInv, m

\* Other calls than solve.
LEMMA CallsAreNoSolve ==
  ASSUME LPNext
  PROVE  last'.call # "solve"
<1>1. ASSUME NEW call, NEW s, NEW status, NEW file, Ends(call, s, status, file), call # "solve"
      PROVE  last'.call # "solve"
  BY <1>1 DEF Ends
<1>2. ASSUME NEW call, NEW s, NEW status, NEW file, Call(call, s, status, file), call # "solve"
      PROVE  last'.call # "solve"
  BY <1>1, <1>2 DEF Call
<1>3. ASSUME NEW s, Calls(s) PROVE last'.call # "solve"
  <2>1. ASSUME NEW f, NEW format, LoadProblem(s, f, format) \/ SaveProblem(s, f, format)
        PROVE  last'.call # "solve"
    BY <1>2, <2>1 DEF LoadProblem, SaveProblem
  <2>2. ASSUME SaveProblemToTempfile(s, "CPLEX") \/ SaveSolutionToTempfile(s) PROVE last'.call # "solve"
    BY <1>2, <2>2 DEF SaveProblemToTempfile, SaveSolutionToTempfile
  <2>3. ASSUME NEW f, SaveSolution(s, f) PROVE last'.call # "solve"
    BY <1>2, <2>3 DEF SaveSolution
  <2>4. ASSUME NEW f, LoadSolution(s, f) PROVE last'.call # "solve"
    BY <1>2, <2>4 DEF LoadSolution
  <2>5. ASSUME Run(s) PROVE last'.call # "solve"
    BY <1>1, <2>5 DEF Run, Takes
  <2>6. ASSUME NEW f, NEW format, NEW useCaching, RunProblem(s, f, format, useCaching) PROVE last'.call # "solve"
    BY <1>1, <2>6 DEF RunProblem, Takes
  <2>7. ASSUME NEW n, SetSolutionCacheSize(s, n) PROVE last'.call # "solve"
    BY <1>2, <2>7 DEF SetSolutionCacheSize
  <2>8. ASSUME ResetSolutionCache(s) PROVE last'.call # "solve"
    BY <1>2, <2>8 DEF ResetSolutionCache
  <2> QED BY <1>3, <2>1, <2>2, <2>3, <2>4, <2>5, <2>6, <2>7, <2>8 DEF Calls
<1>4. ASSUME Environment PROVE last'.call # "solve"
  <2>1. ASSUME NEW f, NEW p, WriteProblemFile(f, p) PROVE last'.call # "solve"
    BY <1>2, <2>1 DEF WriteProblemFile
  <2>2. ASSUME NEW f, RemoveFile(f) PROVE last'.call # "solve"
    BY <1>2, <2>2 DEF RemoveFile
  <2> QED BY <1>4, <2>1, <2>2 DEF Environment
<1> QED BY <1>3, <1>4 DEF LPNext

\* Every step keeps it.
LEMMA FlowInvStep ==
  ASSUME CacheInv, NetworkInv, SolveInv, [FlowNext]_vars
  PROVE  NetworkInv' /\ SolveInv'
<1>1. CASE UNCHANGED vars
  <2>1. UNCHANGED <<files, temps, installed, msKnownSolutions, solvers, runs, calls, last>>
    BY <1>1 DEF vars, lpVars
  <2>2. UNCHANGED <<network, flow, mColumnToEdge, mRowToVertexCommodity>> BY <1>1 DEF vars, flowVars
  <2>3. NetworkInv' BY <2>2 DEF NetworkInv
  <2>4. SolveInv' BY <2>1, <2>2 DEF SolveInv, Fits
  <2> QED BY <2>3, <2>4
<1>2. CASE LPNext /\ UNCHANGED flowVars
  <2>1. NetworkInv' BY <1>2 DEF flowVars, NetworkInv
  <2>2. last'.call # "solve" BY <1>2, CallsAreNoSolve
  <2> QED BY <2>1, <2>2 DEF SolveInv
<1>3. ASSUME NEW prefix \in SavePrefixes, NEW useCaching \in BOOLEAN, Solve(prefix, useCaching)
      PROVE  NetworkInv' /\ SolveInv'
  BY <1>3, SolveStores
<1>4. ASSUME NEW e, AddEdge(e) PROVE NetworkInv' /\ SolveInv'
  <2>1. NetworkInv' BY <1>4, EdgeAdded
  <2>2. last'.call # "solve" BY <1>4 DEF AddEdge, Call, Ends
  <2> QED BY <2>1, <2>2 DEF SolveInv
<1>5. ASSUME NEW x \in Bounded, x[1] \in ToSet(network.vertices),
             SetCommoditiesMaxInFlow(x[1], x[2], x[3]) \/ SetCommoditiesMinInFlow(x[1], x[2], x[3])
      PROVE  NetworkInv' /\ SolveInv'
  <2> DEFINE v == x[1]
             i == BoundOf(v, x[2])
             old == network.inflow[v]
             B == [commodities : SUBSET Nat, min : Nat, max : Nat]
             min == IF i > Len(old) THEN 0 ELSE old[i].min
             max == IF i > Len(old) THEN UIntMax ELSE old[i].max
  <2>1. x[2] \in SUBSET Nat /\ x[3] \in Nat BY NetworksAssumption
  <2>2. v \in ToSet(network.vertices) BY <1>5
  <2>3. old \in Seq(B) BY <2>2 DEF NetworkInv, NetworkOK
  <2>4. i \in DOMAIN old \/ i = Len(old) + 1
    <3>1. CASE \E j \in DOMAIN old : old[j].commodities = x[2]
      <4>1. i = CHOOSE j \in DOMAIN old : old[j].commodities = x[2] BY <3>1 DEF BoundOf
      <4> HIDE DEF old, i
      <4> QED BY <3>1, <4>1
    <3>2. CASE ~\E j \in DOMAIN old : old[j].commodities = x[2] BY <3>2 DEF BoundOf
    <3> QED BY <3>1, <3>2
  <2>5. UIntMax \in Nat BY IntMaxAssumption DEF UIntMax
  <2>6. min \in Nat /\ max \in Nat
    <3>1. \A y \in B : y.min \in Nat /\ y.max \in Nat OBVIOUS
    <3> HIDE DEF old, i, B
    <3>2. i > Len(old) \/ old[i] \in B BY <2>3, <2>4
    <3> QED BY <2>5, <3>1, <3>2
  <2>7. \/ network' = WithBound(v, x[2], [commodities |-> x[2], min |-> min, max |-> x[3]])
        \/ network' = WithBound(v, x[2], [commodities |-> x[2], min |-> x[3], max |-> max])
    BY <1>5 DEF SetCommoditiesMaxInFlow, SetCommoditiesMinInFlow
  <2>8. UNCHANGED <<mColumnToEdge, mRowToVertexCommodity>> /\ last'.call # "solve"
    BY <1>5 DEF SetCommoditiesMaxInFlow, SetCommoditiesMinInFlow, Call, Ends
  <2> HIDE DEF min, max, v
  <2>9. /\ [commodities |-> x[2], min |-> min, max |-> x[3]] \in B
        /\ [commodities |-> x[2], min |-> x[3], max |-> max] \in B
    BY <2>1, <2>6
  <2>10. NetworkInv' BY <2>2, <2>7, <2>8, <2>9, BoundSet
  <2> QED BY <2>8, <2>10 DEF SolveInv
<1> QED BY <1>1, <1>2, <1>3, <1>4, <1>5 DEF FlowNext

\* It holds throughout.
LEMMA FlowInvHolds == FlowSpec => [](CacheInv /\ NetworkInv /\ SolveInv)
<1>1. FlowInit => NetworkInv /\ SolveInv
  <2> SUFFICES ASSUME FlowInit PROVE NetworkInv /\ SolveInv OBVIOUS
  <2>1. NetworkOK(network) BY NetworksAssumption DEF FlowInit
  <2>2. NetworkInv BY <2>1 DEF FlowInit, NetworkInv
  <2>3. last.call # "solve" BY DEF FlowInit, LPInit
  <2> QED BY <2>2, <2>3 DEF SolveInv
<1>2. CacheInv /\ NetworkInv /\ SolveInv /\ [FlowNext]_vars => (NetworkInv /\ SolveInv)'
  BY FlowInvStep
<1> QED BY <1>1, <1>2, CacheInvHolds, PTL DEF FlowSpec

\* What a solve has done, of a network that can be expressed.
LEMMA SolvedMeans ==
  ASSUME CacheInv, NetworkInv, SolveInv, Solved
  PROVE  LET n == network
             cs == mColumnToEdge IN
         /\ Lined(n, cs)
         /\ last.status # "throws" =>
              \E p : /\ ProblemOf(n, cs, p) /\ Fits(last.status, solvers[Flow].solution, p)
                     /\ flow = StoredResult(n, cs, solvers[Flow].solution)
<1> DEFINE n == network
           cs == mColumnToEdge
           m == Len(n.edges)
<1>1. /\ last.call = "solve" /\ Expressible(n) /\ SubSeq(cs, 1, m) = n.edges
      /\ NetworkOK(n) /\ cs \in Seq(n.pool) /\ m <= Len(cs) /\ n.edges \in Seq(n.pool)
  BY DEF Solved, Aligned, NetworkInv, SolveInv, NetworkOK
<1>2. \A i \in 1 .. m : cs[i] = n.edges[i]
  <2> DEFINE es == n.edges
             pool == n.pool
  <2>1. cs \in Seq(pool) /\ es \in Seq(pool) /\ Len(es) <= Len(cs) /\ SubSeq(cs, 1, Len(es)) = es BY <1>1
  <2> HIDE DEF es, cs, pool
  <2>2. \A i \in 1 .. Len(es) : SubSeq(cs, 1, Len(es))[i] = cs[i] BY <2>1
  <2>3. \A i \in 1 .. Len(es) : es[i] = cs[i] BY <2>1, <2>2
  <2> QED BY <2>3 DEF es
<1>3. Lined(n, cs) BY <1>1, <1>2 DEF Lined
<1>4. RowsTyped(n, cs)
  <2> DEFINE a == [c \in Columns(n) |-> 0]
  <2>1. Assigned(n, cs, a) BY <1>3 DEF Assigned
  <2> HIDE DEF a
  <2> QED BY <1>1, <2>1, RowsMet
<1>5. PICK t : LET p == CreateProblem(n, cs, t) IN
         last.status # "throws" =>
            /\ Fits(last.status, solvers[Flow].solution, p)
            /\ flow = StoredResult(n, cs, solvers[Flow].solution)
  BY <1>1 DEF SolveInv
<1> DEFINE p == CreateProblem(n, cs, t)
<1>6. ProblemOf(n, cs, p)
  <2>1. p = [name |-> <<"multicommodity", t>>, columns |-> ColumnsOf(n),
             rows |-> Named(AllRows(n, cs)), refused |-> FALSE]
    BY <1>1, <1>4, ProblemIs
  <2> HIDE DEF p
  <2>2. p.name = <<"multicommodity", t>> BY <2>1
  <2> QED BY <2>1, <2>2 DEF ProblemOf
<1>7. last.status # "throws" =>
         /\ Fits(last.status, solvers[Flow].solution, p)
         /\ flow = StoredResult(n, cs, solvers[Flow].solution)
  BY <1>5
<1> HIDE DEF p
<1> QED BY <1>3, <1>6, <1>7

\* The flows that solve stores on the edges are admissible and of least cost, and
\* there are none where it says so (createProblemCPLEX, storeResult).
THEOREM FlowsAreOptimal == FlowSpec => []StoredFlowIsOptimal
<1>1. CacheInv /\ NetworkInv /\ SolveInv => StoredFlowIsOptimal
  <2> SUFFICES ASSUME CacheInv, NetworkInv, SolveInv, Solved
               PROVE  LET admissible == {f \in AllFlows(network) : Admissible(network, f)} IN
                      /\ last.status = "OPTIMAL" =>
                            /\ flow \in admissible
                            /\ \A f \in admissible : Cost(network, flow) <= Cost(network, f)
                      /\ last.status = "INFEASIBLE" => admissible = {}
    BY DEF StoredFlowIsOptimal
  <2>1. Lined(network, mColumnToEdge) BY SolvedMeans
  <2>2. CASE last.status \in {"OPTIMAL", "INFEASIBLE"}
    <3> DEFINE x == solvers[Flow].solution
    <3>1. last.status # "throws" BY <2>2
    <3>2. PICK p : /\ ProblemOf(network, mColumnToEdge, p) /\ Fits(last.status, x, p)
                   /\ flow = StoredResult(network, mColumnToEdge, x)
      BY <3>1, SolvedMeans
    <3>3. Expressible(network) /\ x.of # Missing BY DEF Solved
    <3> HIDE DEF x
    <3> QED BY <2>1, <3>2, <3>3, AnswerStored
  <2>3. CASE last.status \notin {"OPTIMAL", "INFEASIBLE"} BY <2>3
  <2> QED BY <2>2, <2>3
<1> QED BY <1>1, FlowInvHolds, PTL

\* What validateInflow finds in such flows is a lack of outflow of a vertex that
\* has a demand (validateInflow).
THEOREM FindingsAreOfDemands == FlowSpec => []ValidatorAgrees
<1>1. CacheInv /\ NetworkInv /\ SolveInv => ValidatorAgrees
  <2> SUFFICES ASSUME CacheInv, NetworkInv, SolveInv, Solved, last.status = "OPTIMAL",
                      NEW x \in ValidateInflow
               PROVE  /\ x[3] \in {"TransFlow", "TotalTransFlow"}
                      /\ \E k \in x[2] : network.supply[x[1]][k] < 0
    BY DEF ValidatorAgrees
  <2> DEFINE n == network
             cs == mColumnToEdge
             in(v, k) == FlowSum(flow, InEdges(n, v), k)
             out(v, k) == FlowSum(flow, OutEdges(n, v), k)
  <2>1. Lined(n, cs) /\ NetworkOK(n) BY SolvedMeans DEF NetworkInv
  <2>2. PICK p : /\ ProblemOf(n, cs, p) /\ Fits(last.status, solvers[Flow].solution, p)
                 /\ flow = StoredResult(n, cs, solvers[Flow].solution)
    BY SolvedMeans
  <2>3. Expressible(n) /\ solvers[Flow].solution.of # Missing BY DEF Solved
  <2>4. Admissible(n, flow) /\ \E a : Assigned(n, cs, a) /\ flow = FlowOf(n, cs, a)
    <3> DEFINE y == solvers[Flow].solution
    <3>1. y.of # Missing /\ Fits(last.status, y, p) /\ flow = StoredResult(n, cs, y) BY <2>2, <2>3
    <3> HIDE DEF y
    <3> QED BY <2>1, <2>2, <2>3, <3>1, AnswerStored
  <2>5. PICK a : Assigned(n, cs, a) /\ flow = FlowOf(n, cs, a) BY <2>4
  <2>6. ASSUME NEW v \in ToSet(n.vertices), NEW k \in Commodities(n)
        PROVE  /\ in(v, k) \in Nat /\ out(v, k) \in Nat /\ n.supply[v][k] \in Int /\ n.minTrans[v][k] \in Nat
               /\ out(v, k) - in(v, k) = n.supply[v][k]
               /\ n.minTrans[v][k] <= in(v, k)
    <3>1. InEdges(n, v) \in Seq(ToSet(n.edges)) /\ OutEdges(n, v) \in Seq(ToSet(n.edges)) BY <2>1, EdgesAre
    <3>2. in(v, k) \in Nat /\ out(v, k) \in Nat BY <2>5, <3>1, TotalOfEntries
    <3>3. n.supply[v][k] \in Int /\ n.minTrans[v][k] \in Nat BY <2>1 DEF NetworkOK, Numbers
    <3>4. /\ out(v, k) - in(v, k) = n.supply[v][k]
          /\ n.minTrans[v][k] <= in(v, k)
      BY <2>4 DEF Admissible, Passes, Within
    <3> QED BY <3>2, <3>3, <3>4
  <2>7. \A v, k : InFlow(v, k) = in(v, k) /\ OutFlow(v, k) = out(v, k)
    BY DEF InFlow, OutFlow, Sum, FlowSum
  <2> HIDE DEF in, out, n
  <2>8. \A v \in ToSet(n.vertices) : TooLittle(v) = {}
    <3> SUFFICES ASSUME NEW v \in ToSet(n.vertices), NEW k \in TooLittle(v) PROVE FALSE OBVIOUS
    <3>1. k \in Commodities(n) /\ n.supply[v][k] + in(v, k) < 0 BY <2>7 DEF TooLittle, n
    <3> QED BY <2>6, <3>1
  <2>9. \A v \in ToSet(n.vertices) : Unbalanced(v) = {}
    <3> SUFFICES ASSUME NEW v \in ToSet(n.vertices), NEW k \in Unbalanced(v) PROVE FALSE OBVIOUS
    <3>1. k \in Commodities(n) /\ out(v, k) - in(v, k) - n.supply[v][k] # 0 BY <2>7 DEF Unbalanced, n
    <3> QED BY <2>6, <3>1
  <2>10. \A v \in ToSet(n.vertices) : \A k \in TransMissing(v) : n.supply[v][k] < 0
    <3> SUFFICES ASSUME NEW v \in ToSet(n.vertices), NEW k \in TransMissing(v) PROVE n.supply[v][k] < 0 OBVIOUS
    <3>1. k \in Commodities(n) /\ (in(v, k) < n.minTrans[v][k] \/ out(v, k) < n.minTrans[v][k])
      BY <2>7 DEF TransMissing, n
    <3> QED BY <2>6, <3>1
  <2>11. PICK v \in ToSet(n.vertices) :
           x \in Violations(v, TooLittle(v), "MinFlow", "TotalMinFlow") \cup
                 Violations(v, Unbalanced(v), "FlowBalance", "none") \cup
                 Violations(v, TransMissing(v), "TransFlow", "TotalTransFlow")
    BY DEF ValidateInflow, n
  <2>12. \A kind, totalKind : Violations(v, {}, kind, totalKind) = {} BY DEF Violations
  <2>13. x \in Violations(v, TransMissing(v), "TransFlow", "TotalTransFlow")
    BY <2>8, <2>9, <2>11, <2>12
  <2>14. \/ \E k \in TransMissing(v) : x = <<v, {k}, "TransFlow">>
         \/ TransMissing(v) # {} /\ x = <<v, TransMissing(v), "TotalTransFlow">>
    BY <2>13 DEF Violations
  <2>15. x[1] = v /\ x[3] \in {"TransFlow", "TotalTransFlow"}
         /\ \E k \in TransMissing(v) : k \in x[2]
    BY <2>14
  <2> QED BY <2>10, <2>15 DEF n
<1> QED BY <1>1, FlowInvHolds, PTL

\* The rows of a problem whose columns are still the edges, from the first to the
\* last: the row of an edge holds its columns, that of a vertex and commodity those
\* of the edges at the vertex.
RowsAreOwned(n, cs) ==
  LET m == Len(n.edges)
      rows == AllRows(n, cs)
      all == AllVertexRows(n, cs) IN
  /\ RowsTyped(n, cs) /\ Len(rows) = m + Len(all) /\ Len(all) \in Nat /\ m \in Nat
  /\ \A i \in 1 .. m : \A x \in ToSet(rows[i].entries) :
        \E k \in Commodities(n) : x[1] = (i - 1) * n.commodities + k
  /\ \A j \in 1 .. Len(all) : \A x \in ToSet(rows[m + j].entries) :
        \E i \in 1 .. m, k \in Commodities(n) :
           /\ x[1] = (i - 1) * n.commodities + k
           /\ RowOwners(n, cs)[j][1] \in ToSet(n.ends[n.edges[i]])
           /\ RowOwners(n, cs)[j][2] = k

\* So are those of the first problem of a network without bounds on subsets or inflows.
LEMMA RowsFindTheirOwner ==
  ASSUME NEW n, NEW cs, NetworkOK(n), cs = n.edges, NoInflowBounds(n),
         \A e \in ToSet(n.edges) : n.sub[e] = <<>>
  PROVE  RowsAreOwned(n, cs)
<1> DEFINE m == Len(n.edges)
           rows == AllRows(n, cs)
           all == AllVertexRows(n, cs)
           a == [c \in Columns(n) |-> 0]
           lists == [i \in DOMAIN n.edges |-> EdgeRows(n, i)]
           A == RowSet(n)
<1>1. /\ n.edges \in Seq(n.pool) /\ m \in Nat /\ DOMAIN n.edges = 1 .. m /\ n.commodities \in Nat
      /\ \A e : e \in ToSet(n.edges) <=> \E i \in 1 .. m : e = n.edges[i]
  <2>1. n.edges \in Seq(n.pool) /\ n.commodities \in Nat BY DEF NetworkOK
  <2>2. m \in Nat /\ DOMAIN n.edges = 1 .. m BY <2>1
  <2> QED BY <2>1, <2>2 DEF ToSet
<1>2. Lined(n, cs) BY <1>1 DEF Lined
<1>3. Assigned(n, cs, a) BY <1>2 DEF Assigned
<1> HIDE DEF a
<1>4. ASSUME NEW i \in 1 .. m
      PROVE  EdgeRows(n, i) = <<CapacityRow(n, i)>> /\ CapacityRow(n, i) \in A
  <2>1. n.sub[n.edges[i]] = <<>> BY <1>1
  <2>2. EdgeRows(n, i) = <<CapacityRow(n, i)>> \o [s \in DOMAIN <<>> |-> SubCapacityRow(n, <<>>[s])]
    BY <2>1 DEF EdgeRows
  <2>3. [s \in DOMAIN <<>> |-> SubCapacityRow(n, <<>>[s])] = <<>> OBVIOUS
  <2>4. \A x : <<x>> \o <<>> = <<x>> OBVIOUS
  <2>5. CapacityRow(n, i) \in A BY <1>3, CapacityMet
  <2> QED BY <2>2, <2>3, <2>4, <2>5
<1>5. /\ \A v \in ToSet(n.vertices) : VertexRows(n, cs, v) \in Seq(OwnedSet(n))
      /\ all \in Seq(OwnedSet(n))
      /\ RowOwners(n, cs) = [i \in 1 .. Len(all) |-> all[i].owner]
      /\ \A i \in 1 .. Len(all) : \E v \in ToSet(n.vertices), k \in Commodities(n) :
            all[i].owner = <<v, k>> /\ all[i].row \in {BalanceRow(n, cs, v, k), TransFlowRow(n, cs, v, k)}
  BY <1>2, OwnersAre
<1>6. RowsTyped(n, cs)
  <2>1. \A i \in 1 .. m : EdgeRows(n, i) \in Seq(A)
    <3> HIDE DEF A
    <3>1. \A y \in A : <<y>> \in Seq(A) OBVIOUS
    <3> QED BY <1>4, <3>1
  <2> QED BY <1>5, <2>1 DEF RowsTyped
<1>7. /\ Len(rows) = Len(AllEdgeRows(n)) + Len(all)
      /\ \A i \in 1 .. Len(AllEdgeRows(n)) : rows[i] = AllEdgeRows(n)[i]
      /\ \A i \in 1 .. Len(all) : rows[Len(AllEdgeRows(n)) + i] = all[i].row
  BY <1>6, AllRowsAre
<1>8. Len(AllEdgeRows(n)) = m /\ \A i \in 1 .. m : AllEdgeRows(n)[i] = CapacityRow(n, i)
  <2>1. \A i \in 1 .. m : lists[i] = <<CapacityRow(n, i)>> BY <1>1, <1>4
  <2>2. lists = [i \in 1 .. m |-> lists[i]] BY <1>1
  <2>3. AllEdgeRows(n) = Chained(lists) BY DEF AllEdgeRows
  <2> HIDE DEF lists, A, m
  <2>4. \A i \in 1 .. m : lists[i] \in Seq(A) /\ Len(lists[i]) = 1 /\ lists[i][1] = CapacityRow(n, i)
    <3>1. \A y \in A : <<y>> \in Seq(A) /\ Len(<<y>>) = 1 /\ <<y>>[1] = y OBVIOUS
    <3> QED BY <1>4, <2>1, <3>1
  <2>5. lists \in Seq(Seq(A)) /\ Len(lists) = m BY <1>1, <2>2, <2>4, ListMade
  <2>6. \A i \in 1 .. Len(lists) : Len(lists[i]) = 1 BY <2>4, <2>5
  <2>7. Len(Chained(lists)) = Len(lists) /\ \A i \in 1 .. Len(lists) : Chained(lists)[i] = lists[i][1]
    BY <2>5, <2>6, ChainedSingles
  <2> QED BY <2>3, <2>4, <2>5, <2>7
<1>9. Len(all) \in Nat BY <1>5
<1>10. ASSUME NEW i \in 1 .. m, NEW x \in ToSet(rows[i].entries)
       PROVE  \E k \in Commodities(n) : x[1] = (i - 1) * n.commodities + k
  <2>1. rows[i] = CapacityRow(n, i) BY <1>7, <1>8
  <2>2. CapacityRow(n, i).entries = [k \in Commodities(n) |-> <<(i - 1) * n.commodities + k, 1>>]
    BY DEF CapacityRow
  <2>3. PICK k \in Commodities(n) : x = <<(i - 1) * n.commodities + k, 1>> BY <2>1, <2>2 DEF ToSet
  <2> QED BY <2>3
<1>11. ASSUME NEW v \in ToSet(n.vertices), NEW k \in Commodities(n), NEW es \in Seq(ToSet(n.edges)),
              \A e \in ToSet(es) : v \in ToSet(n.ends[e]),
              NEW c \in Int, NEW x \in Held(Entries(n, cs, es, k, c))
       PROVE  \E i \in 1 .. m : x[1] = (i - 1) * n.commodities + k /\ v \in ToSet(n.ends[n.edges[i]])
  <2>1. PICK j \in DOMAIN es : x = <<GetColumnIndex(n, cs, es[j], k), c>> BY DEF Held, Entries
  <2>2. es[j] \in ToSet(es) /\ es[j] \in ToSet(n.edges) BY DEF ToSet
  <2>3. PICK i \in 1 .. m : es[j] = n.edges[i] BY <1>1, <2>2
  <2>4. GetColumnIndex(n, cs, n.edges[i], k) = (i - 1) * n.commodities + k BY <1>2, ColumnFound
  <2>5. x[1] = GetColumnIndex(n, cs, es[j], k) BY <2>1
  <2> QED BY <1>11, <2>2, <2>3, <2>4, <2>5
<1>12. ASSUME NEW v \in ToSet(n.vertices)
       PROVE  /\ InEdges(n, v) \in Seq(ToSet(n.edges)) /\ OutEdges(n, v) \in Seq(ToSet(n.edges))
              /\ \A e \in ToSet(InEdges(n, v)) : v \in ToSet(n.ends[e])
              /\ \A e \in ToSet(OutEdges(n, v)) : v \in ToSet(n.ends[e])
  <2>1. \A e \in n.pool : DOMAIN n.ends[e] = {1, 2} BY DEF NetworkOK
  <2>2. /\ ToSet(n.edges) \subseteq n.pool
        /\ InEdges(n, v) \in Seq(ToSet(n.edges)) /\ OutEdges(n, v) \in Seq(ToSet(n.edges))
        /\ ToSet(InEdges(n, v)) = {e \in ToSet(n.edges) : n.ends[e][2] = v}
        /\ ToSet(OutEdges(n, v)) = {e \in ToSet(n.edges) : n.ends[e][1] = v}
    BY EdgesAre
  <2>3. \A e \in n.pool : n.ends[e][1] \in ToSet(n.ends[e]) /\ n.ends[e][2] \in ToSet(n.ends[e])
    BY <2>1 DEF ToSet
  <2> QED BY <2>2, <2>3
<1>13. ASSUME NEW j \in 1 .. Len(all), NEW x \in ToSet(rows[m + j].entries)
       PROVE  \E i \in 1 .. m, k \in Commodities(n) :
                 /\ x[1] = (i - 1) * n.commodities + k
                 /\ RowOwners(n, cs)[j][1] \in ToSet(n.ends[n.edges[i]])
                 /\ RowOwners(n, cs)[j][2] = k
  <2>1. rows[m + j] = all[j].row BY <1>7, <1>8
  <2>2. PICK v \in ToSet(n.vertices), k \in Commodities(n) :
           all[j].owner = <<v, k>> /\ all[j].row \in {BalanceRow(n, cs, v, k), TransFlowRow(n, cs, v, k)}
    BY <1>5
  <2>3. RowOwners(n, cs)[j] = <<v, k>>
    <3> HIDE DEF all
    <3> QED BY <1>5, <2>2
  <2> DEFINE ie == InEdges(n, v)
             oe == OutEdges(n, v)
             ins(c) == Entries(n, cs, ie, k, c)
             outs == Entries(n, cs, oe, k, 1)
  <2>4. x \in Held(ins(-1)) \/ x \in Held(outs) \/ x \in Held(ins(1))
    <3>1. x \in Held(all[j].row.entries) BY <2>1 DEF ToSet, Held
    <3>2. BalanceRow(n, cs, v, k).entries = ins(-1) \o outs /\ TransFlowRow(n, cs, v, k).entries = ins(1)
      BY DEF BalanceRow, TransFlowRow
    <3>3. ins(-1) \in EntriesSet(n) /\ outs \in EntriesSet(n) BY <1>3, <1>12, TotalOfEntries
    <3>4. Held(ins(-1) \o outs) = Held(ins(-1)) \cup Held(outs)
      <4> DEFINE s == ins(-1)
                 t == outs
      <4>1. s \in Seq(Columns(n) \X Int) /\ t \in Seq(Columns(n) \X Int) BY <3>3 DEF EntriesSet
      <4> HIDE DEF s, t
      <4>2. Held(s \o t) = Held(s) \cup Held(t) BY <4>1, HeldTogether
      <4> QED BY <4>2 DEF s, t
    <3> HIDE DEF ins, outs, rows, all
    <3> QED BY <2>2, <3>1, <3>2, <3>4
  <2>5. \E i \in 1 .. m : x[1] = (i - 1) * n.commodities + k /\ v \in ToSet(n.ends[n.edges[i]])
    <3>1. CASE x \in Held(ins(-1))
      <4> DEFINE c == -1
      <4>1. c \in Int /\ x \in Held(Entries(n, cs, ie, k, c)) BY <3>1
      <4>2. ie \in Seq(ToSet(n.edges)) /\ \A e \in ToSet(ie) : v \in ToSet(n.ends[e]) BY <1>12
      <4> HIDE DEF c, ie
      <4> QED BY <1>11, <4>1, <4>2
    <3>2. CASE x \in Held(outs) BY <1>11, <1>12, <3>2
    <3>3. CASE x \in Held(ins(1)) BY <1>11, <1>12, <3>3
    <3> QED BY <2>4, <3>1, <3>2, <3>3
  <2>6. <<v, k>>[1] = v /\ <<v, k>>[2] = k OBVIOUS
  <2> QED BY <2>3, <2>5, <2>6
<1>14. Len(rows) = m + Len(all) BY <1>7, <1>8
<1> HIDE DEF m, rows, all
<1> QED BY <1>1, <1>6, <1>9, <1>10, <1>13, <1>14 DEF m, rows, all, RowsAreOwned

\* A constraint of the first problem belongs to the edge, or the vertex and
\* commodity, whose row it is (vertexConstraints, edgeConstraints).
THEOREM ConstraintsAreOwned == FlowSpec => []ConstraintsFindTheirOwner
<1>1. CacheInv /\ NetworkInv /\ SolveInv => ConstraintsFindTheirOwner
  <2> DEFINE n == network
             cs == mColumnToEdge
             m == Len(n.edges)
             all == AllVertexRows(n, cs)
             allRows == AllRows(n, cs)
             rows == files[last.file].problem.rows
             owners == RowOwners(n, cs)
  <2> SUFFICES ASSUME CacheInv, NetworkInv, SolveInv, cs = n.edges, last.call = "solve", last.file \in DOMAIN files,
                      \A e \in ToSet(n.edges) : n.sub[e] = <<>>, \A v \in ToSet(n.vertices) : n.inflow[v] = <<>>,
                      NEW idx \in 0 .. Len(rows) - 1, NEW x \in ToSet(rows[idx + 1].entries)
               PROVE  \E i \in DOMAIN n.edges, k \in Commodities(n) :
                         /\ x[1] = (i - 1) * n.commodities + k
                         /\ IF idx < Len(cs) THEN n.edges[i] = EdgeConstraint(idx)
                            ELSE /\ idx - Len(cs) + 1 \in DOMAIN mRowToVertexCommodity
                                 /\ VertexConstraint(idx)[1] \in ToSet(n.ends[n.edges[i]])
                                 /\ VertexConstraint(idx)[2] = k
    BY DEF ConstraintsFindTheirOwner
  <2>1. NetworkOK(n) /\ NoInflowBounds(n) /\ Len(cs) = m BY DEF NetworkInv, NoInflowBounds
  <2>2. /\ RowsTyped(n, cs) /\ Len(allRows) = m + Len(all) /\ Len(all) \in Nat /\ m \in Nat
        /\ \A i \in 1 .. m : \A y \in ToSet(allRows[i].entries) :
              \E k \in Commodities(n) : y[1] = (i - 1) * n.commodities + k
        /\ \A j \in 1 .. Len(all) : \A y \in ToSet(allRows[m + j].entries) :
              \E i \in 1 .. m, k \in Commodities(n) :
                 /\ y[1] = (i - 1) * n.commodities + k
                 /\ owners[j][1] \in ToSet(n.ends[n.edges[i]])
                 /\ owners[j][2] = k
    <3>1. NetworkOK(n) /\ cs = n.edges /\ NoInflowBounds(n) /\ \A e \in ToSet(n.edges) : n.sub[e] = <<>>
      BY <2>1
    <3>2. RowsAreOwned(n, cs) BY <3>1, RowsFindTheirOwner
    <3> QED BY <3>2 DEF RowsAreOwned
  <2>3. mRowToVertexCommodity = owners BY <2>1 DEF SolveInv
  <2>4. DOMAIN owners = 1 .. Len(all)
    <3>1. Lined(n, cs)
      <4>1. n.edges \in Seq(n.pool) /\ Len(n.edges) \in Nat BY <2>1 DEF NetworkOK
      <4> QED BY <2>1, <4>1 DEF Lined
    <3>2. owners = [i \in 1 .. Len(all) |-> all[i].owner] BY <2>1, <3>1, OwnersAre
    <3> HIDE DEF owners, all
    <3> QED BY <3>2
  <2>5. PICK t : files[last.file].problem = CreateProblem(n, cs, t) BY DEF SolveInv
  <2>6. rows = Named(allRows)
    <3>1. CreateProblem(n, cs, t).rows = Named(allRows) BY <2>1, <2>2, ProblemIs
    <3> QED BY <2>5, <3>1
  <2>7. DOMAIN n.edges = 1 .. m
    <3>1. n.edges \in Seq(n.pool) BY <2>1 DEF NetworkOK
    <3> QED BY <3>1
  <2>8. Len(rows) = m + Len(all) /\ \A i \in 1 .. m + Len(all) : rows[i].entries = allRows[i].entries
    <3> DEFINE z == m + Len(all)
    <3>1. allRows \in Seq(RowSet(n)) BY <2>1, <2>2, AllRowsAre
    <3>2. z \in Nat /\ Len(allRows) = z
      <4> DEFINE q == Len(all)
      <4>1. q \in Nat /\ m \in Nat /\ Len(allRows) = m + q BY <2>2
      <4> HIDE DEF q, m, allRows
      <4>2. m + q \in Nat BY <4>1
      <4> QED BY <4>1, <4>2 DEF q
    <3>3. rows = [i \in DOMAIN allRows |-> NewRow(i, allRows[i].bounds, allRows[i].entries)]
      BY <2>6 DEF Named
    <3> HIDE DEF rows, allRows, z
    <3>4. DOMAIN allRows = 1 .. z BY <3>1, <3>2
    <3>5. rows = [i \in 1 .. z |-> NewRow(i, allRows[i].bounds, allRows[i].entries)] BY <3>3, <3>4
    <3>6. Len(rows) = z BY <3>2, <3>5
    <3>7. \A i \in 1 .. z : rows[i].entries = allRows[i].entries BY <3>5 DEF NewRow
    <3> QED BY <3>6, <3>7 DEF z
  <2> DEFINE w == n.commodities
             q == Len(all)
  <2>9. EdgeConstraint(idx) = cs[idx + 1] /\ VertexConstraint(idx) = owners[idx - m + 1]
    BY <2>1, <2>3 DEF EdgeConstraint, VertexConstraint
  <2>10. q \in Nat /\ m \in Nat /\ idx \in 0 .. m + q - 1 /\ x \in ToSet(allRows[idx + 1].entries)
    <3>1. idx \in 0 .. (m + q) - 1 BY <2>8
    <3>2. q \in Nat /\ m \in Nat BY <2>2
    <3> HIDE DEF m, q, allRows, rows
    <3>3. idx + 1 \in 1 .. m + q BY <3>1, <3>2
    <3>4. rows[idx + 1].entries = allRows[idx + 1].entries BY <2>8, <3>3 DEF q
    <3> QED BY <3>1, <3>2, <3>4
  <2> HIDE DEF owners, allRows, rows, all, m, q
  <2>11. CASE idx < m
    <3>1. idx + 1 \in 1 .. m /\ (idx + 1) - 1 = idx BY <2>10, <2>11
    <3>2. PICK k \in Commodities(n) : x[1] = ((idx + 1) - 1) * n.commodities + k BY <2>2, <2>10, <3>1
    <3>3. n.edges[idx + 1] = EdgeConstraint(idx) BY <2>9
    <3>4. idx < Len(cs) BY <2>1, <2>11
    <3> QED BY <2>7, <3>1, <3>2, <3>3, <3>4
  <2>12. CASE ~(idx < m)
    <3> DEFINE j == idx - m + 1
    <3>1. j \in 1 .. q /\ m + j = idx + 1 BY <2>10, <2>12
    <3> HIDE DEF j
    <3>2. x \in ToSet(allRows[m + j].entries) BY <2>10, <3>1
    <3>3. j \in 1 .. Len(all) BY <3>1 DEF q
    <3>4. PICK i \in 1 .. m, k \in Commodities(n) :
             /\ x[1] = (i - 1) * n.commodities + k
             /\ owners[j][1] \in ToSet(n.ends[n.edges[i]])
             /\ owners[j][2] = k
      BY <2>2, <3>2, <3>3
    <3>5. VertexConstraint(idx) = owners[j] BY <2>9 DEF j
    <3>6. idx - Len(cs) + 1 \in DOMAIN mRowToVertexCommodity BY <2>1, <2>3, <2>4, <3>3 DEF j
    <3>7. ~(idx < Len(cs)) BY <2>1, <2>12
    <3> QED BY <2>7, <3>4, <3>5, <3>6, <3>7
  <2> QED BY <2>11, <2>12
<1> QED BY <1>1, FlowInvHolds, PTL
==============================================================================
