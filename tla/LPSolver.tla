------------------------------ MODULE LPSolver ------------------------------
(* LPSolver and the solvers behind it that are programs run by a command line  *)
(* (GLPK, CBC, CLP, SCIP).  A problem is a file, its solution another file the *)
(* program leaves behind; all solver objects, of every type, share one cache   *)
(* of solutions by the checksum of the problem's file.                         *)
EXTENDS LPProblem, Maps

CONSTANTS Solvers,          \* the solver objects
          Direct,           \* those the program uses directly
          ProblemFiles,     \* names the program gives to problems
          SolutionFiles,    \* names it saves solutions to
          Problems,         \* the problems it writes
          InitialFiles,     \* the files there may be to begin with
          DefaultCacheSize, \* 100 in the code
          CacheSizes,       \* values for setSolutionCacheSize
          SolverTypes,      \* which types the objects may have: a set of functions
          Installations,    \* which programs may be installed: a set of sets
          MaxTemps,         \* bound: temporary files
          MaxRuns,          \* bound: runs, by any solver object
          Formats,          \* formats callers name
          MaxCalls,         \* bound: calls and changes of files between them
          Missing           \* no file, no name

VARIABLES
    files,                  \* name -> contents
    temps,                  \* number of temporary names handed out
    installed,              \* the solver programs that can be found
    msKnownSolutions,       \* checksum -> name, status and type of a solution
    solvers,                \* the solver objects
    runs, calls,            \* number of runs and of other calls so far
    last                    \* the last call and how it ended

lpVars == <<files, temps, installed, msKnownSolutions, solvers, runs, calls, last>>

Types == {"CBC_SOLVER", "CLP_SOLVER", "GLPK_SOLVER", "SCIP_SOLVER"}
Statuses == {"UNKNOWN", "OPTIMAL", "INFEASIBLE"}
Temp(n) == <<"tmp", n>>
Temps == {Temp(n) : n \in 1 .. MaxTemps}

\* Nobody else gives files the names of temporary ones.
ASSUME SolverAssumption ==
  /\ IsFiniteSet(Solvers) /\ Solvers # {} /\ Direct \subseteq Solvers
  /\ SolverTypes \subseteq [Solvers -> Types]
  /\ {DefaultCacheSize, MaxTemps} \cup CacheSizes \subseteq Nat
  /\ Temps \cap (ProblemFiles \cup SolutionFiles \cup {Missing}) = {}
  /\ \A fs \in InitialFiles : Temps \cap DOMAIN fs = {}

\* A solution that was read: what its columns are, and of which problem.
Solution(st, p, values) == [status |-> st, of |-> p, values |-> values]

\* A Solution has no status until one is set, and CLP alone always sets one.
\* (of what it may happen to be, the two that callers act differently on).
InitialStatuses(type) == IF type = "CLP_SOLVER" THEN {"UNKNOWN"} ELSE {"UNKNOWN", "OPTIMAL"}
Empty(type) == {Solution(st, Missing, <<>>) : st \in InitialStatuses(type)}

NewSolver(type) ==
    [type |-> type, problemFile |-> Missing, problemFormat |-> "CPLEX",
     solutionFile |-> Missing, solution |-> Solution("UNKNOWN", Missing, <<>>),
     cacheSize |-> DefaultCacheSize]

---------------------------------------------------------------------------
(* The programs.  One may fail, and then leaves no file; it cannot read a      *)
(* problem that is not there or, as all are told to expect CPLEX, of another   *)
(* format.  CBC and CLP write alike.                                           *)
FormatOf(type) == IF type = "CLP_SOLVER" THEN "CBC_SOLVER" ELSE type

SolutionFile(type, st, p, values) ==
    [kind |-> "solution", format |-> FormatOf(type), status |-> st, of |-> p,
     values |-> values]

ProgramWrites(type, contents) ==
    IF contents = Missing \/ contents.kind # "problem" THEN {Missing}
    ELSE LET p == contents.problem IN
         {Missing} \cup
         IF Feasible(p) = {}
         THEN {SolutionFile(type, "INFEASIBLE", p, [i \in DOMAIN p.columns |-> 0])}
         ELSE {SolutionFile(type, "OPTIMAL", p, a) : a \in Optimal(p)}

ContentsOf(fs, f) == IF f \in DOMAIN fs THEN fs[f] ELSE Missing

---------------------------------------------------------------------------
(* The readers of the four solvers; a file in the format of another solver     *)
(* throws or yields nothing, depending on the lines it happens to have.        *)
Throws == Solution("throws", Missing, <<>>)
Foreign(type) == {Throws} \cup Empty(type)

\* GLPK and CBC take the columns of an infeasible solution too, CLP and SCIP
\* return as soon as they know.
ReadGlpk(c) == {Solution(c.status, c.of, c.values)}
ReadCbc(c) == {Solution(c.status, c.of, c.values)}
Feasibly(c) == IF c.status = "INFEASIBLE" THEN {Solution(c.status, c.of, <<>>)}
               ELSE {Solution(c.status, c.of, c.values)}
ReadClp(c) == Feasibly(c)

\* A column whose value is zero is not listed.
ReadScip(c) ==
    IF c.status = "INFEASIBLE" THEN {Solution(c.status, c.of, <<>>)}
    ELSE {Solution(c.status, c.of,
             [i \in {j \in DOMAIN c.values : c.values[j] # 0} |-> c.values[i]])}

ReadBasicSolution(type, c) ==
    IF c = Missing THEN Empty(type)
    ELSE IF c.kind # "solution" \/ c.format # FormatOf(type) THEN Foreign(type)
    ELSE CASE type = "GLPK_SOLVER" -> ReadGlpk(c)
           [] type = "CBC_SOLVER" -> ReadCbc(c)
           [] type = "CLP_SOLVER" -> ReadClp(c)
           [] type = "SCIP_SOLVER" -> ReadScip(c)

\* A column that was not read is zero.
ColumnValue(solution, i) == IF i \in DOMAIN solution.values THEN solution.values[i] ELSE 0

---------------------------------------------------------------------------
(* What a call starts from and leaves behind: the object, the files, the       *)
(* cache, and its status.                                                      *)
Result(s, fs, n, known, status) ==
    [solver |-> s, files |-> fs, temps |-> n, known |-> known, status |-> status]
Now(s) == Result(s, files, temps, msKnownSolutions, "UNKNOWN")

\* The checksum of a file is its contents; of a missing file it is what the
\* buffer held before.
Md5(w, f) == IF f \in DOMAIN w.files THEN {w.files[f]} ELSE DOMAIN w.known \cup {Missing}

Loaded(s, f, format) == [s EXCEPT !.problemFile = f, !.problemFormat = format]

\* run(): a new name for the solution, the command, which throws when the
\* program is not there, and the reader; a reader that throws leaves the
\* solution of an earlier run.
RunOnNamedFile(w) ==
    IF w.solver.type \notin installed THEN {[w EXCEPT !.status = "throws"]}
    ELSE {[w EXCEPT !.solver.solution = IF x[2].status = "throws" THEN @ ELSE x[2],
                    !.files = IF x[1] = Missing THEN @ ELSE Over(Entry(w.solver.solutionFile, x[1]), @),
                    !.status = x[2].status] :
             x \in UNION {{c} \X ReadBasicSolution(w.solver.type, c) :
                c \in ProgramWrites(w.solver.type, ContentsOf(w.files, w.solver.problemFile))}}
RunProgram(w) ==
    RunOnNamedFile([w EXCEPT !.temps = @ + 1, !.solver.solutionFile = Temp(w.temps + 1)])

\* loadSolution; a solution that cannot be read is left to the caller.
WithSolution(w, f) ==
    {[w EXCEPT !.solver.solution = r] :
        r \in ReadBasicSolution(w.solver.type, ContentsOf(w.files, f))}

\* loadKnownSolution answers with the status in the cache; run() only logs that
\* it threw.
LoadKnownSolution(w, key) ==
    {IF r.solver.solution.status = "throws" THEN w
     ELSE [r EXCEPT !.status = w.known[key].status] :
        r \in WithSolution(w, w.known[key].filename)}

\* registerSolution empties the whole cache first when it holds more than allowed.
\* Mutant of RoomMade: the cache is never emptied.
RoomNeverMade(s, known) == known
RoomMade(s, known) == IF Cardinality(DOMAIN known) > s.cacheSize THEN <<>> ELSE known
RegisterSolution(w, key) ==
    Over(Entry(key, [filename |-> w.solver.solutionFile, status |-> w.status]),
         RoomMade(w.solver, w.known))

\* The solution in the cache, if there is one and callers ask for it.
\* Mutant of Known: any solution in the cache will do.
KnownOfAny(w, keys, useCaching) ==
    IF useCaching THEN UNION {LoadKnownSolution(w, k) : k \in DOMAIN w.known} ELSE {}
Known(w, keys, useCaching) ==
    IF useCaching THEN UNION {LoadKnownSolution(w, k) : k \in keys \cap DOMAIN w.known} ELSE {}

\* run(problem, format, useCaching): the program runs unless the cache gives
\* the problem a status.
RunResults(w, f, format, useCaching) ==
    LET loaded == [w EXCEPT !.solver = Loaded(@, f, format)]
        keys == Md5(w, f)
        found == Known(loaded, keys, useCaching)
        toRun == {r \in found : r.status = "UNKNOWN"} \cup
                 IF useCaching /\ keys \subseteq DOMAIN w.known THEN {} ELSE {loaded}
        computed == UNION {RunProgram(r) : r \in toRun}
    IN {r \in found : r.status # "UNKNOWN"} \cup
       UNION {IF r.status = "throws" \/ ~useCaching THEN {r}
              ELSE {[r EXCEPT !.known = RegisterSolution(r, key)] : key \in Md5(r, f)} :
                 r \in computed}

---------------------------------------------------------------------------
(* Calls on a solver object the program holds, and what happens to the files.  *)
Ends(call, s, status, file) ==
    last' = [call |-> call, solver |-> s, status |-> status, file |-> file]

Call(call, s, status, file) ==
    /\ calls < MaxCalls /\ calls' = calls + 1
    /\ Ends(call, s, status, file)

CacheUnchanged == UNCHANGED <<installed, msKnownSolutions, runs>>

Takes(call, s, r, file) ==
    /\ solvers' = [solvers EXCEPT ![s] = r.solver]
    /\ files' = r.files /\ temps' = r.temps /\ msKnownSolutions' = r.known
    /\ runs' = runs + 1
    /\ Ends(call, s, r.status, file)
    /\ UNCHANGED <<installed, calls>>

LoadProblem(s, f, format) ==
    /\ solvers' = [solvers EXCEPT ![s] = Loaded(@, f, format)]
    /\ Call("loadProblem", s, "ok", f)
    /\ UNCHANGED <<files, temps>> /\ CacheUnchanged

\* Filesystem::copy: onto itself it does nothing, a file that is not there throws.
Copied(from, to) == IF from = to THEN files ELSE Over(Entry(to, files[from]), files)
CopyThrows(from, to) == from # to /\ from \notin DOMAIN files

SaveProblem(s, to, format) ==
    LET from == solvers[s].problemFile IN
    /\ IF format # solvers[s].problemFormat \/ CopyThrows(from, to)
       THEN Call("saveProblem", s, "throws", to) /\ UNCHANGED files
       ELSE Call("saveProblem", s, "ok", to) /\ files' = Copied(from, to)
    /\ UNCHANGED <<temps, solvers>> /\ CacheUnchanged

\* The new name becomes that of the problem before the problem is saved to it.
SaveProblemToTempfile(s, format) ==
    /\ temps < MaxTemps /\ temps' = temps + 1
    /\ solvers' = [solvers EXCEPT ![s] = Loaded(@, Temp(temps + 1), format)]
    /\ Call("saveProblemToTempfile", s, "ok", Temp(temps + 1))
    /\ UNCHANGED files /\ CacheUnchanged

SaveSolution(s, to) ==
    LET from == solvers[s].solutionFile IN
    /\ IF CopyThrows(from, to)
       THEN Call("saveSolution", s, "throws", to) /\ UNCHANGED files
       ELSE Call("saveSolution", s, "ok", to) /\ files' = Copied(from, to)
    /\ UNCHANGED <<temps, solvers>> /\ CacheUnchanged

SavedToTempfile(s, n) == [s EXCEPT !.solutionFile = Temp(n + 1)]
SaveSolutionToTempfile(s) ==
    /\ temps < MaxTemps /\ temps' = temps + 1
    /\ solvers' = [solvers EXCEPT ![s] = SavedToTempfile(@, temps)]
    /\ Call("saveSolutionToTempfile", s, "ok", Temp(temps + 1))
    /\ UNCHANGED files /\ CacheUnchanged

LoadSolution(s, f) ==
    /\ \E r \in WithSolution(Now(solvers[s]), f) :
          IF r.solver.solution.status = "throws"
          THEN Call("loadSolution", s, "throws", f) /\ UNCHANGED solvers
          ELSE /\ solvers' = [solvers EXCEPT ![s] = r.solver]
               /\ Call("loadSolution", s, "ok", f)
    /\ UNCHANGED <<files, temps>> /\ CacheUnchanged

Run(s) ==
    /\ runs < MaxRuns /\ temps < MaxTemps
    /\ \E r \in RunProgram(Now(solvers[s])) : Takes("run", s, r, solvers[s].problemFile)

RunProblem(s, f, format, useCaching) ==
    /\ runs < MaxRuns /\ temps < MaxTemps
    /\ \E r \in RunResults(Now(solvers[s]), f, format, useCaching) : Takes("run", s, r, f)

SetSolutionCacheSize(s, n) ==
    /\ runs = 0 /\ calls = 0
    /\ solvers' = [solvers EXCEPT ![s].cacheSize = n]
    /\ Call("setSolutionCacheSize", s, "ok", Missing)
    /\ UNCHANGED <<files, temps>> /\ CacheUnchanged

ResetSolutionCache(s) ==
    /\ msKnownSolutions' = <<>>
    /\ Call("resetSolutionCache", s, "ok", Missing)
    /\ UNCHANGED <<files, temps, installed, solvers, runs>>

\* The program writes a problem; somebody clears the directory of temporary files.
WriteProblemFile(f, p) ==
    /\ files' = Over(Entry(f, [kind |-> "problem", problem |-> p]), files)
    /\ Call("write", Missing, "ok", f)
    /\ UNCHANGED <<temps, solvers>> /\ CacheUnchanged

RemoveFile(f) ==
    /\ f \in DOMAIN files /\ f \notin ProblemFiles
    /\ files' = [g \in DOMAIN files \ {f} |-> files[g]]
    /\ Call("remove", Missing, "ok", f)
    /\ UNCHANGED <<temps, solvers>> /\ CacheUnchanged

\* getInstance: any type that is built in; the programs need not be there.
LPInit ==
    /\ files \in InitialFiles
    /\ temps = 0 /\ runs = 0 /\ calls = 0 /\ msKnownSolutions = <<>>
    /\ installed \in Installations
    /\ \E types \in SolverTypes : solvers = [s \in Solvers |-> NewSolver(types[s])]
    /\ last = [call |-> "none", solver |-> Missing, status |-> "UNKNOWN", file |-> Missing]

Calls(s) ==
    \/ \E f \in ProblemFiles, format \in Formats :
          LoadProblem(s, f, format) \/ SaveProblem(s, f, format)
    \/ SaveProblemToTempfile(s, "CPLEX") \/ SaveSolutionToTempfile(s)
    \/ \E f \in SolutionFiles : SaveSolution(s, f)
    \/ \E f \in DOMAIN files \ ProblemFiles : LoadSolution(s, f)
    \/ Run(s)
    \/ \E f \in ProblemFiles, format \in Formats, useCaching \in BOOLEAN :
          RunProblem(s, f, format, useCaching)
    \/ \E n \in CacheSizes : SetSolutionCacheSize(s, n)
    \/ ResetSolutionCache(s)

Environment ==
    \/ \E f \in ProblemFiles, p \in Problems : WriteProblemFile(f, p)
    \/ \E f \in DOMAIN files : RemoveFile(f)

LPNext == (\E s \in Direct : Calls(s)) \/ Environment

LPSpec == LPInit /\ [][LPNext]_lpVars

---------------------------------------------------------------------------

\* When a run comes to an end, with or without the cache, the values the
\* solver then answers with are those of the problem in the file it was given,
\* or there are none (CommandlineSolver::run).
AnswersAreOfTheProblem ==
    [][runs' > runs /\ last'.status # "throws" /\ last'.file \in DOMAIN files' =>
         LET solution == solvers'[last'.solver].solution IN
         solution.of \in {Missing, files'[last'.file].problem}]_lpVars

\* The cache never holds more than one solution beyond the largest size any
\* solver allows it (LPSolver::setSolutionCacheSize).
CacheWithinLimit ==
    Cardinality(DOMAIN msKnownSolutions) <= 1 + Max({solvers[s].cacheSize : s \in Solvers})

\* The name saveSolutionToTempfile returns is that of a file
\* (LPSolver.hpp: "return the temporary file where the solution has been saved to").
SavedInTempfile == last.call = "saveSolutionToTempfile" => last.file \in DOMAIN files
=============================================================================
