---------------------------- MODULE EmulatorProofs ----------------------------
(***************************************************************************)
(* Proofs about Emulator, for every command line, set of files and guest:  *)
(* what was asked for on the command line is what the program does, what   *)
(* the guest prints is shown, the statistics count each miss once, the     *)
(* loader puts every byte where the file wants it, memory is an array of   *)
(* bytes, a cache in front of it hides nothing but what it has not written *)
(* back, and the checkpoint shows the rest.                                *)
(***************************************************************************)
EXTENDS Emulator, PageTableProofs, SequenceTheorems

\* How far handle_args has read the command line.
Done == Len(given) - Len(argv)

\* argv is what is left of the command line.
Suffix ==
    /\ Len(given) \in Nat /\ given = [i \in 1 .. Len(given) |-> given[i]]
    /\ Len(argv) \in 0 .. Len(given)
    /\ argv = [i \in 1 .. Len(argv) |-> given[Done + i]]

LEMMA InitSuffix == Init => Suffix
<1> SUFFICES ASSUME Init PROVE Suffix
  OBVIOUS
<1>1. argv = given /\ Len(given) \in Nat /\ given = [i \in 1 .. Len(given) |-> given[i]]
  BY CommandLineAssumption DEF Init
<1>2. Done = 0
  BY <1>1 DEF Done
<1>3. \A i \in 1 .. Len(given) : Done + i = i
  BY <1>1, <1>2
<1>4. argv = [i \in 1 .. Len(argv) |-> given[Done + i]]
  BY <1>1, <1>3, Zenon
<1> QED
  BY <1>1, <1>4 DEF Suffix

\* What Head and Tail take from the rest of a command line.
LEMMA ArgvShape ==
    ASSUME Suffix, argv # <<>>
    PROVE  /\ Len(argv) \in Nat \ {0} /\ Len(Tail(argv)) = Len(argv) - 1
           /\ Head(argv) = argv[1]
           /\ Tail(argv) = [i \in 1 .. Len(argv) - 1 |-> argv[i + 1]]
<1> DEFINE n == Len(argv)
           S == {given[i] : i \in 1 .. Len(given)}
<1>1. n \in Nat /\ Len(given) \in Nat /\ n <= Len(given)
  BY DEF Suffix
<1>2. argv \in Seq(S)
  <2>1. \A i \in 1 .. n : given[Done + i] \in S
    BY <1>1 DEF Done
  <2>2. argv \in [1 .. n -> S]
    BY <2>1 DEF Suffix
  <2> QED
    BY <1>1, <2>2, SeqDef
<1>3. n # 0
  BY <1>2, EmptySeq
<1>4. /\ Tail(argv) \in Seq(S) /\ Len(Tail(argv)) = n - 1
      /\ \A i \in 1 .. n - 1 : Tail(argv)[i] = argv[i + 1]
  BY <1>2, HeadTailProperties
<1>5. Tail(argv) \in [1 .. n - 1 -> S]
  BY <1>4, LenProperties
<1>6. Head(argv) = argv[1]
  BY <1>2
<1> QED
  BY <1>1, <1>3, <1>4, <1>5, <1>6

\* Reading an option.
LEMMA ReadOne ==
    ASSUME Suffix, argv # <<>>, argv' = Tail(argv), given' = given
    PROVE  /\ Suffix' /\ Done \in Nat /\ Done' = Done + 1 /\ Done' \in DOMAIN given
           /\ Head(argv) = given[Done']
<1> DEFINE n == Len(argv)
<1>1. n \in Nat /\ Len(given) \in Nat /\ n <= Len(given)
  BY DEF Suffix
<1>2. n # 0
  BY ArgvShape
<1>3. Len(Tail(argv)) = n - 1 /\ Head(argv) = argv[1]
      /\ Tail(argv) = [i \in 1 .. n - 1 |-> argv[i + 1]]
  BY ArgvShape
<1>4. Done' = Done + 1 /\ Done \in Nat /\ Done' \in 1 .. Len(given)
  BY <1>1, <1>2, <1>3 DEF Done
<1>5. Head(argv) = given[Done']
  BY <1>1, <1>2, <1>3, <1>4 DEF Suffix
<1>6. argv' = [i \in 1 .. n - 1 |-> given[Done' + i]]
  <2>1. \A i \in 1 .. n - 1 : argv[i + 1] = given[Done + (i + 1)]
    BY <1>1 DEF Suffix
  <2>2. \A i \in 1 .. n - 1 : Done + (i + 1) = Done' + i
    BY <1>1, <1>4
  <2> QED
    BY <1>3, <2>1, <2>2
<1>7. Suffix'
  BY <1>1, <1>2, <1>3, <1>6 DEF Suffix
<1> QED
  BY <1>4, <1>5, <1>7 DEF Suffix

\* Giving up on the rest of the command line.
LEMMA ReadNoMore ==
    ASSUME Suffix, argv' = <<>>, given' = given
    PROVE  Suffix' /\ Done' = Len(given)
<1>1. Len(given) \in Nat /\ Len(argv') = 0
  BY DEF Suffix
<1>2. Done' = Len(given)
  BY <1>1 DEF Done
<1>3. argv' = [i \in 1 .. 0 |-> given'[Done' + i]]
  OBVIOUS
<1> QED
  BY <1>1, <1>2, <1>3 DEF Suffix

-----------------------------------------------------------------------------
(* The steps behind the command line *)

\* What the program does after init leaves the options and the cache alone.
Later == \/ OpenElf \/ LoadElf \/ RunElf \/ AccessPage \/ HandleMiss \/ Trap \/ EndCycle
         \/ Finalize \/ PrintPage \/ NextList \/ EndLog
         \/ \E request \in Accesses : Access(request) \/ AccessCache(request)

\* Where it is then.
Running == {"open", "load", "run", "done", "last"}

LEMMA LaterFrame ==
    ASSUME Later
    PROVE  /\ UNCHANGED <<given, argv, opts, cache, checkpoint>>
           /\ pc \in Running /\ pc' \in Running \cup {"exit"}
           /\ terminate => terminate'
           /\ pc' # "exit" => terminate' = terminate
<1>1. CASE OpenElf \/ LoadElf \/ RunElf
  BY <1>1 DEF OpenElf, LoadElf, RunElf, Exit, machine, files, Running
<1>2. CASE AccessPage \/ HandleMiss
           \/ \E request \in Accesses : Access(request) \/ AccessCache(request)
  BY <1>2 DEF AccessPage, AccessCache, HandleMiss, Access, InCycle, machine, files, Running
<1>3. CASE Trap
  BY <1>3 DEF Trap, InCycle, Exit, Logged, Running
<1>4. CASE EndCycle \/ Finalize
  BY <1>4 DEF EndCycle, Finalize, Exit, machine, files, Running
<1>5. CASE PrintPage \/ NextList \/ EndLog
  BY <1>5 DEF PrintPage, NextList, EndLog, Logging, Exit, machine, files, Running
<1> QED
  BY <1>1, <1>2, <1>3, <1>4, <1>5 DEF Later

-----------------------------------------------------------------------------
(* Options *)

OptionNames == {"i", "l", "A", "B", "C", "d"}

\* The option has the value it was last given among the first m.
Taken(n, m) ==
    \/ /\ \A k \in 1 .. m : given[k].name # n
       /\ opts[n] = Defaults[n]
    \/ \E i \in 1 .. m :
          /\ given[i].name = n /\ opts[n] = given[i].val
          /\ \A k \in 1 .. m : given[k].name = n => k <= i

\* The first m options have been taken up.  They are all that are read so far, or
\* the next one is for a file that could not be opened.
TakenUp(m) ==
    /\ m \in 0 .. Len(given)
    /\ \A k \in 1 .. m : ~Failed(k)
    /\ \A n \in OptionNames : Taken(n, m)
    /\ IF terminate THEN m < Len(given) /\ Failed(m + 1) ELSE m = Done

OptionsInv ==
    /\ Suffix
    /\ opts = [n \in DOMAIN Defaults |-> opts[n]]
    /\ pc # "exit" =>
          /\ \E m \in Nat : TakenUp(m)
          /\ pc = "args" => ~terminate
          /\ pc # "args" /\ ~terminate => Done = Len(given)
          /\ pc \in Running => cache = IF AllGiven THEN opts.d ELSE NULL

LEMMA InitOptions == Init => OptionsInv
<1> SUFFICES ASSUME Init PROVE OptionsInv
  OBVIOUS
<1>1. Suffix /\ Done = 0 /\ Len(given) \in Nat
  <2>1. Suffix /\ argv = given
    BY InitSuffix DEF Init
  <2> QED
    BY <2>1 DEF Suffix, Done
<1>2. opts = Defaults /\ terminate = FALSE /\ pc = "args"
  BY DEF Init
<1>3. TakenUp(0)
  BY <1>1, <1>2 DEF TakenUp, Taken
<1>4. opts = [n \in DOMAIN Defaults |-> opts[n]]
  <2>1. Defaults = [n \in DOMAIN Defaults |-> Defaults[n]]
    BY DEF Defaults
  <2> QED
    BY <1>2, <2>1
<1> QED
  BY <1>1, <1>2, <1>3, <1>4 DEF OptionsInv, Running

\* One more option is taken up.
LEMMA TakesOne ==
    ASSUME OptionsInv, pc = "args", argv # <<>>, argv' = Tail(argv), given' = given,
           terminate' = terminate, pc' = pc,
           LET o == Head(argv)
           IN /\ ~(o.name \in {"o", "c"} /\ ~o.val)
              /\ opts' = [n \in DOMAIN Defaults |-> opts'[n]]
              /\ \A n \in OptionNames : opts'[n] = IF n = o.name THEN o.val ELSE opts[n]
    PROVE  OptionsInv'
<1> DEFINE o == Head(argv)
<1>1. PICK m \in Nat : TakenUp(m)
  BY DEF OptionsInv
<1>2. /\ Suffix' /\ m = Done /\ Done' = m + 1 /\ m + 1 \in 1 .. Len(given) /\ o = given[m + 1]
      /\ ~terminate
  BY <1>1, ReadOne DEF OptionsInv, TakenUp, Suffix
<1>3. \A k \in 1 .. m + 1 : k \in 1 .. m \/ k = m + 1
  BY <1>1
<1>4. \A k \in 1 .. m + 1 : ~Failed(k)'
  BY <1>1, <1>2, <1>3 DEF TakenUp, Failed
<1>5. ASSUME NEW n \in OptionNames, n = o.name PROVE Taken(n, m + 1)'
  <2>1. m + 1 \in 1 .. m + 1 /\ given'[m + 1] = o /\ \A k \in 1 .. m + 1 : k <= m + 1
    BY <1>1, <1>2
  <2>2. opts'[n] = o.val
    BY <1>5
  <2> QED
    BY <1>5, <2>1, <2>2 DEF Taken
<1>6. ASSUME NEW n \in OptionNames, n # o.name PROVE Taken(n, m + 1)'
  <2>1. Taken(n, m) /\ given[m + 1].name # n /\ 1 .. m \subseteq 1 .. m + 1
    BY <1>1, <1>2, <1>6 DEF TakenUp
  <2>2. opts'[n] = opts[n]
    BY <1>6
  <2> QED
    BY <1>3, <2>1, <2>2 DEF Taken
<1>7. TakenUp(m + 1)'
  BY <1>1, <1>2, <1>4, <1>5, <1>6 DEF TakenUp
<1> QED
  BY <1>1, <1>2, <1>7 DEF OptionsInv, Running

LEMMA OptionRead == ASSUME OptionsInv, Option PROVE OptionsInv'
<1> DEFINE o == Head(argv)
<1>1. argv # <<>> /\ pc = "args" /\ given' = given /\ cache' = cache /\ Suffix
      /\ opts = [n \in DOMAIN Defaults |-> opts[n]]
  BY DEF Option, OptionsInv, machine
<1>2. CASE OpenFor(o) /\ ~o.val
  <2>1. argv' = <<>> /\ terminate' = TRUE /\ opts' = opts /\ pc' = "init"
        /\ o.name \in {"o", "c"}
    BY <1>2 DEF OpenFor
  <2>2. PICK m \in Nat : TakenUp(m)
    BY <1>1 DEF OptionsInv
  <2>3. Len(argv) \in Nat \ {0} /\ o = argv[1]
    BY <1>1, ArgvShape
  <2>4. m < Len(given) /\ o = given[m + 1]
    <3>1. ~terminate /\ m = Done /\ Len(given) \in Nat
      BY <1>1, <2>2 DEF OptionsInv, TakenUp, Suffix
    <3> QED
      BY <1>1, <2>3, <3>1 DEF Suffix, Done
  <2>5. Failed(m + 1)
    BY <1>2, <2>1, <2>4 DEF Failed
  <2>6. TakenUp(m)'
    BY <1>1, <2>1, <2>2, <2>4, <2>5 DEF TakenUp, Taken, Failed
  <2> QED
    BY <1>1, <2>1, <2>6, ReadNoMore DEF OptionsInv, Running
<1>3. CASE OpenFor(o) /\ o.val
  <2>1. argv' = Tail(argv) /\ opts' = opts /\ UNCHANGED <<pc, terminate>> /\ o.name \notin OptionNames
    BY <1>3 DEF OpenFor, OptionNames
  <2> QED
    BY <1>1, <1>3, <2>1, TakesOne
<1>4. CASE argv' = Tail(argv) /\ o.name \in OptionNames /\ Set(o.name, o.val)
  <2>1. /\ opts' = [n \in DOMAIN Defaults |-> opts'[n]]
        /\ \A n \in OptionNames : opts'[n] = IF n = o.name THEN o.val ELSE opts[n]
    BY <1>1, <1>4 DEF Set, OptionNames, Defaults
  <2>2. pc' = pc /\ terminate' = terminate /\ o.name \notin {"o", "c"}
    BY <1>4 DEF Set, files, OptionNames
  <2> QED
    BY <1>1, <1>4, <2>1, <2>2, TakesOne
<1>5. CASE argv' = Tail(argv) /\ Set("v", IF o.val \in 0 .. 3 THEN o.val ELSE 1) /\ o.name = "v"
  <2>1. /\ opts' = [n \in DOMAIN Defaults |-> opts'[n]]
        /\ \A n \in OptionNames : n # o.name /\ opts'[n] = opts[n]
    BY <1>1, <1>5 DEF Set, OptionNames, Defaults
  <2>2. pc' = pc /\ terminate' = terminate
    BY <1>5 DEF Set, files
  <2> QED
    BY <1>1, <1>5, <2>1, <2>2, TakesOne
<1>6. CASE argv' = Tail(argv) /\ o.name = "?" /\ UNCHANGED <<pc, opts, code, files>>
  <2>1. \A n \in OptionNames : n # o.name
    BY <1>6 DEF OptionNames
  <2> QED
    BY <1>1, <1>6, <2>1, TakesOne DEF files
<1>7. CASE argv' = Tail(argv) /\ pc' = "exit" /\ opts' = opts
  BY <1>1, <1>7, ReadOne DEF OptionsInv
<1> QED
  BY <1>2, <1>3, <1>4, <1>5, <1>6, <1>7 DEF Option, Ignored, Exit, OptionNames

LEMMA StepOptions == ASSUME OptionsInv, [Step]_vars PROVE OptionsInv'
<1>1. ASSUME UNCHANGED <<given, argv, opts>>,
             pc' # "exit" =>
                /\ pc # "exit" /\ terminate' = terminate
                /\ pc' = "args" => pc = "args"
                /\ pc = "args" /\ pc' # "args" => argv = <<>>
                /\ pc' \in Running => cache' = IF AllGiven THEN opts.d ELSE NULL
      PROVE  OptionsInv'
  <2>1. Suffix' /\ Done' = Done /\ AllGiven' = AllGiven
    BY <1>1 DEF OptionsInv, Suffix, Done, AllGiven
  <2>2. pc' # "exit" => \A m : TakenUp(m) => TakenUp(m)'
    BY <1>1, <2>1 DEF TakenUp, Taken, Failed
  <2>3. argv = <<>> => Done = Len(given)
    BY ReadNoMore DEF OptionsInv, Suffix, Done
  <2> QED
    BY <1>1, <2>1, <2>2, <2>3 DEF OptionsInv
<1>2. CASE Option
  BY <1>2, OptionRead
<1>3. CASE CheckArgs
  BY <1>1, <1>3 DEF CheckArgs, Exit, files, machine, Running
<1>4. CASE InitMachine
  BY <1>1, <1>4 DEF InitMachine, Exit, files
<1>5. CASE Later
  <2>1. pc \in Running /\ pc # "args" /\ pc # "exit" /\ (pc' # "exit" => pc' \in Running)
    BY <1>5, LaterFrame DEF Running
  <2> QED
    BY <1>1, <1>5, <2>1, LaterFrame DEF OptionsInv, Running
<1>6. CASE UNCHANGED vars
  BY <1>1, <1>6 DEF vars, machine, files, OptionsInv
<1> QED
  BY <1>2, <1>3, <1>4, <1>5, <1>6 DEF Step, Later

\* The options that count are the first m.
LEMMA HeededAre ==
    ASSUME OptionsInv, pc \in Running
    PROVE  \E m \in Nat : Heeded = 1 .. m /\ \A n \in OptionNames : Taken(n, m)
<1>1. PICK m \in Nat : TakenUp(m)
  BY DEF OptionsInv, Running
<1>2. Len(given) \in Nat /\ DOMAIN given = 1 .. Len(given) /\ m <= Len(given)
  BY <1>1 DEF OptionsInv, Suffix, TakenUp
<1>3. ~terminate => m = Len(given)
  BY <1>1 DEF OptionsInv, TakenUp, Running
<1>4. ASSUME NEW i \in Heeded PROVE i \in 1 .. m
  <2>1. i \in 1 .. Len(given) /\ \A k \in 1 .. i : ~Failed(k)
    BY <1>2 DEF Heeded
  <2>2. ASSUME m < i PROVE FALSE
    <3>1. m + 1 \in 1 .. i
      BY <2>1, <2>2
    <3>2. ~Failed(m + 1)
      BY <2>1, <3>1
    <3>3. m = Len(given)
      BY <1>1, <1>3, <3>2 DEF TakenUp
    <3> QED
      BY <2>1, <2>2, <3>3
  <2> QED
    BY <2>1, <2>2
<1>5. ASSUME NEW i \in 1 .. m PROVE i \in Heeded
  <2>1. \A k \in 1 .. i : k \in 1 .. m
    OBVIOUS
  <2> QED
    BY <1>1, <1>2, <2>1 DEF Heeded, TakenUp
<1> QED
  BY <1>1, <1>4, <1>5 DEF TakenUp

LEMMA OptionsFound == OptionsInv => OptionsTakeEffect
<1> SUFFICES ASSUME OptionsInv, pc \in {"open", "load", "run"}
             PROVE  /\ \A n \in OptionNames : opts[n] = LastGiven(n)
                    /\ cache = IF \E n \in {"A", "B", "C", "d"} : LastGiven(n) = -1 THEN NULL
                               ELSE LastGiven("d")
  BY DEF OptionsTakeEffect, OptionNames
<1>0. PICK m \in Nat : Heeded = 1 .. m /\ \A n \in OptionNames : Taken(n, m)
  BY HeededAre DEF Running
<1>1. ASSUME NEW n \in OptionNames PROVE opts[n] = LastGiven(n)
  <2> DEFINE I == {i \in Heeded : given[i].name = n}
  <2>1. Heeded = 1 .. m /\ Taken(n, m)
    BY <1>0, <1>1
  <2>2. CASE I = {}
    BY <2>1, <2>2 DEF Taken, LastGiven
  <2>3. CASE I # {}
    <3>1. PICK i \in I : opts[n] = given[i].val /\ \A k \in I : k <= i
      BY <2>1, <2>3 DEF Taken
    <3>2. \A x \in I : (\A k \in I : k <= x) => x = i
      BY <2>1, <3>1
    <3>3. (CHOOSE x \in I : \A k \in I : k <= x) = i
      BY <3>1, <3>2
    <3> QED
      BY <2>3, <3>1, <3>3 DEF LastGiven
  <2> QED
    BY <2>2, <2>3
<1>2. cache = IF AllGiven THEN opts.d ELSE NULL
  BY DEF OptionsInv, Running
<1> QED
  BY <1>1, <1>2 DEF AllGiven, OptionNames

\* handle_args and init_machine: in whatever order options come and however
\* often, each has the effect it was last given for before a file that could not
\* be opened, and the cache is made of them (handle_args.c:64-180, machine.c:54-66).
THEOREM OptionsAreTaken == Lifecycle => []OptionsTakeEffect
<1>1. OptionsInv /\ [Step]_vars => OptionsInv'
  BY StepOptions
<1> QED
  BY <1>1, InitOptions, OptionsFound, PTL DEF Lifecycle

-----------------------------------------------------------------------------
(* What the guest prints *)

\* A file that was asked for could not be opened.
Unopened == \E i \in DOMAIN given : given[i].name \in {"o", "c"} /\ ~given[i].val

\* While the program runs, only a file that could not be opened can have ended
\* the logging, and only the end of the logging loses words.
OutputInv ==
    /\ Suffix
    /\ said \in Nat /\ shown \in Nat /\ shown <= said
    /\ terminate /\ pc # "exit" => Unopened
    /\ shown < said => terminate /\ Unopened

LEMMA InitOutput == Init => OutputInv
<1> SUFFICES ASSUME Init PROVE OutputInv
  OBVIOUS
<1>1. said = 0 /\ shown = 0 /\ terminate = FALSE
  BY DEF Init
<1> QED
  BY <1>1, InitSuffix DEF OutputInv

LEMMA StepOutput == ASSUME OutputInv, [Step]_vars PROVE OutputInv'
<1>1. ASSUME given' = given, Suffix',
             \/ said' = said /\ shown' = shown
             \/ /\ said' = said + 1
                /\ shown' = IF ~terminate THEN shown + 1 ELSE shown
                /\ pc # "exit" /\ terminate' = terminate,
             terminate => terminate',
             terminate' /\ pc' # "exit" => Unopened
      PROVE  OutputInv'
  <2>1. Unopened' <=> Unopened
    BY <1>1 DEF Unopened
  <2>2. CASE said' = said /\ shown' = shown
    BY <1>1, <2>1, <2>2 DEF OutputInv
  <2>3. CASE said' = said + 1 /\ ~terminate /\ shown' = shown + 1
    BY <1>1, <2>1, <2>3 DEF OutputInv
  <2>4. CASE /\ said' = said + 1 /\ shown' = shown /\ pc # "exit"
             /\ terminate /\ terminate' = terminate
    BY <1>1, <2>1, <2>4 DEF OutputInv
  <2> QED
    BY <1>1, <2>2, <2>3, <2>4
<1>2. CASE UNCHANGED <<given, argv, said, shown>> /\ pc # "exit"
           /\ (pc' # "exit" => terminate' = terminate) /\ (terminate => terminate')
  <2>1. Suffix'
    BY <1>2 DEF OutputInv, Suffix, Done
  <2> QED
    BY <1>1, <1>2, <2>1 DEF OutputInv
<1>3. CASE Option
  <2>1. argv # <<>> /\ pc = "args" /\ given' = given /\ said' = said /\ shown' = shown /\ Suffix
    BY <1>3 DEF Option, OutputInv
  <2>2. CASE argv' = Tail(argv) /\ terminate' = terminate
    BY <1>1, <2>1, <2>2, ReadOne DEF OutputInv
  <2>3. CASE argv' = <<>> /\ terminate' /\ Head(argv).name \in {"o", "c"} /\ ~Head(argv).val
    <3>1. Len(argv) \in Nat \ {0} /\ Head(argv) = argv[1]
      BY <2>1, ArgvShape
    <3>2. given[Done + 1] = Head(argv) /\ Done + 1 \in DOMAIN given
      BY <2>1, <3>1 DEF Suffix, Done
    <3>3. Unopened
      BY <2>3, <3>2 DEF Unopened
    <3> QED
      BY <1>1, <2>1, <2>3, <3>3, ReadNoMore
  <2> QED
    BY <1>3, <2>2, <2>3 DEF Option, OpenFor, Set, Ignored, Exit, files
<1>4. CASE CheckArgs \/ InitMachine
  BY <1>2, <1>4 DEF CheckArgs, InitMachine, Exit, files, machine
<1>5. CASE Trap
  <2>1. given' = given /\ argv' = argv /\ pc = "run"
    BY <1>5 DEF Trap, InCycle
  <2>2. Suffix'
    BY <2>1 DEF OutputInv, Suffix, Done
  <2>3. CASE /\ said' = said + 1 /\ shown' = IF Logged THEN shown + 1 ELSE shown
             /\ UNCHANGED <<pc, terminate, log, code>>
    BY <1>1, <2>1, <2>2, <2>3 DEF Logged, OutputInv
  <2>4. CASE UNCHANGED <<said, shown>>
    BY <1>2, <1>5, <2>1, <2>4 DEF Trap, Exit
  <2> QED
    BY <1>5, <2>3, <2>4 DEF Trap
<1>6. CASE Later /\ ~Trap
  <2>1. UNCHANGED <<given, argv, said, shown>> /\ terminate' = terminate
    BY <1>6 DEF Later, OpenElf, LoadElf, RunElf, AccessPage, AccessCache, HandleMiss, Access,
                EndCycle, Finalize, PrintPage, NextList, EndLog, machine, files
  <2> QED
    BY <1>2, <1>6, <2>1, LaterFrame DEF Running
<1>7. CASE UNCHANGED vars
  BY <1>1, <1>7 DEF vars, files, OutputInv, Suffix, Done
<1> QED
  BY <1>3, <1>4, <1>5, <1>6, <1>7 DEF Step, Later

\* err_handler.c:24-44: what the guest prints is lost only in a run that could
\* not open a file it was asked to write, whatever the guest does.
THEOREM OutputIsShown == Lifecycle => []OutputLostOnlyUnopened
<1>1. OutputInv => OutputLostOnlyUnopened
  BY DEF OutputInv, OutputLostOnlyUnopened, Unopened
<1>2. OutputInv /\ [Step]_vars => OutputInv'
  BY StepOutput
<1> QED
  BY <1>1, <1>2, InitOutput, PTL DEF Lifecycle

-----------------------------------------------------------------------------
(* The count of misses *)

\* The cycles the miss in flight has been counted for.
Counted == IF inflight THEN cache - inflight_cycles ELSE 0

\* A miss is counted in each of its cycles, and there are as many as the delay.
CountInv ==
    /\ Suffix /\ given \in CommandLines
    /\ opts = [n \in DOMAIN Defaults |-> opts[n]] /\ opts.d \in Nat \cup {NULL}
    /\ cache \in Nat \cup {NULL} /\ (pc \in {"args", "init"} => cache = NULL)
    /\ cache = NULL => inflight = FALSE /\ miss_count = 0 /\ served = 0
    /\ cache \in Nat \ {0} =>
          /\ inflight \in BOOLEAN /\ served \in Nat
          /\ inflight => inflight_cycles \in 1 .. cache - 1
          /\ miss_count = cache * served + Counted

LEMMA InitCount == Init => CountInv
<1> SUFFICES ASSUME Init PROVE CountInv
  OBVIOUS
<1>1. opts = [n \in DOMAIN Defaults |-> opts[n]] /\ opts.d = NULL
  <2>1. Defaults = [n \in DOMAIN Defaults |-> Defaults[n]] /\ Defaults.d = NULL
    BY DEF Defaults, NULL
  <2>2. opts = Defaults
    BY DEF Init
  <2> QED
    BY <2>1, <2>2
<1>2. cache = NULL /\ inflight = FALSE /\ miss_count = 0 /\ served = 0 /\ given \in CommandLines
  BY DEF Init
<1>3. NULL \notin Nat
  BY DEF NULL
<1> QED
  BY <1>1, <1>2, <1>3, InitSuffix DEF CountInv

\* Once the delay is known and there is one, a cycle of a miss counts it.
LEMMA CycleCounts ==
    ASSUME NEW c \in Nat \ {0}, cache = c, cache' = c, served \in Nat, inflight \in BOOLEAN,
           inflight => inflight_cycles \in 1 .. c - 1,
           miss_count = c * served + Counted,
           NEW r, CacheHit(r) \/ CacheWait(r) \/ CacheFill(r)
    PROVE  /\ inflight' \in BOOLEAN /\ served' \in Nat
           /\ inflight' => inflight_cycles' \in 1 .. c - 1
           /\ miss_count' = c * served' + Counted'
<1>0. c * served \in Int /\ c * (served + 1) = c * served + c
  OBVIOUS
<1>1. CASE CacheHit(r)
  BY <1>0, <1>1 DEF CacheHit, Counted
<1>2. CASE CacheWait(r)
  <2>1. /\ served' = served /\ inflight' = TRUE /\ miss_count' = miss_count + 1
        /\ inflight_cycles' = Left /\ Left # 0
    BY <1>2 DEF CacheWait, Misses
  <2>2. Left \in 1 .. c - 1 /\ Counted + 1 = c - Left
    BY <2>1 DEF Left, Counted
  <2>3. Counted' = c - Left
    BY <2>1 DEF Counted
  <2>4. Counted \in Int /\ Left \in Int
    BY <2>2 DEF Counted
  <2>5. miss_count' = c * served' + Counted'
    BY <1>0, <2>1, <2>2, <2>3, <2>4
  <2> QED
    BY <2>1, <2>2, <2>5
<1>3. CASE CacheFill(r)
  <2>1. served' = served + 1 /\ inflight' = FALSE /\ miss_count' = miss_count + 1
    BY <1>3 DEF CacheFill, Misses
  <2>2. Counted = c - 1
    BY <1>3 DEF CacheFill, Counted, Left
  <2>3. Counted' = 0
    BY <2>1 DEF Counted
  <2>4. c * served' = c * served + c
    BY <1>0, <2>1
  <2>5. miss_count' = c * served' + Counted'
    BY <1>0, <2>1, <2>2, <2>3, <2>4
  <2>6. inflight' \in BOOLEAN /\ ~inflight'
    BY <2>1
  <2>7. served' \in Nat
    BY <2>1
  <2> QED
    BY <2>5, <2>6, <2>7
<1> QED
  BY <1>1, <1>2, <1>3

LEMMA StepCount == ASSUME CountInv, [Step]_vars PROVE CountInv'
<1>1. CASE UNCHANGED <<given, argv, opts, cache, inflight, miss_count, served>>
           /\ inflight_cycles' = inflight_cycles
           /\ (pc' \in {"args", "init"} => pc \in {"args", "init"})
  BY <1>1 DEF CountInv, Suffix, Done, Counted
<1>2. CASE Option
  <2>1. argv # <<>> /\ pc = "args" /\ given' = given /\ Suffix
        /\ UNCHANGED <<cache, inflight, inflight_cycles, miss_count, served>>
    BY <1>2 DEF Option, CountInv, machine, counts
  <2>2. ASSUME opts' = [n \in DOMAIN Defaults |-> opts'[n]], opts'.d \in Nat \cup {NULL}, Suffix'
        PROVE  CountInv'
    BY <2>1, <2>2 DEF CountInv, Counted
  <2>3. Suffix'
    <3>1. argv' = Tail(argv) \/ argv' = <<>>
      BY <1>2 DEF Option, OpenFor, Ignored
    <3> QED
      BY <2>1, <3>1, ReadOne, ReadNoMore
  <2>4. CASE opts' = opts
    BY <2>2, <2>3, <2>4 DEF CountInv
  <2>5. CASE argv' = Tail(argv) /\ \E v : Set(Head(argv).name, v) /\ Head(argv).name # "d"
    BY <2>2, <2>3, <2>5 DEF CountInv, Set, Defaults
  <2>6. CASE argv' = Tail(argv) /\ Set("d", Head(argv).val) /\ Head(argv).name = "d"
    <3>1. Done' \in DOMAIN given /\ Head(argv) = given[Done'] /\ given \in CommandLines
      BY <2>1, <2>6, ReadOne DEF CountInv
    <3>2. Head(argv).val \in Nat \cup {NULL}
      BY <2>6, <3>1, DelayAssumption DEF NULL
    <3> QED
      BY <2>2, <2>3, <2>6, <3>2 DEF CountInv, Set, Defaults
  <2> QED
    BY <1>2, <2>4, <2>5, <2>6 DEF Option, OpenFor, Ignored
<1>3. CASE CheckArgs
  BY <1>1, <1>3 DEF CheckArgs, Exit, files, machine, counts
<1>4. CASE InitMachine
  <2>1. /\ UNCHANGED <<given, argv, opts, inflight, miss_count, served>>
        /\ pc = "init" /\ pc' \notin {"args", "init"}
        /\ cache' = cache \/ cache' = NULL \/ cache' = opts.d
    BY <1>4 DEF InitMachine, Exit, files
  <2>2. cache = NULL /\ inflight = FALSE /\ miss_count = 0 /\ served = 0
    BY <2>1 DEF CountInv
  <2>3. Suffix' /\ Counted' = 0 /\ cache' \in Nat \cup {NULL}
    BY <2>1, <2>2 DEF CountInv, Suffix, Done, Counted
  <2>4. \A c \in Nat : 0 = c * 0 + 0
    OBVIOUS
  <2> QED
    BY <2>1, <2>2, <2>3, <2>4 DEF CountInv
<1>5. ASSUME NEW r \in Accesses, AccessCache(r) PROVE CountInv'
  <2>1. /\ UNCHANGED <<given, argv, opts, cache>> /\ pc' = pc /\ pc = "run" /\ cache # NULL
        /\ CacheHit(r) \/ CacheWait(r) \/ CacheFill(r)
    BY <1>5 DEF AccessCache, InCycle, Behind
  <2>2. Suffix'
    BY <2>1 DEF CountInv, Suffix, Done
  <2>3. CASE cache = 0
    BY <2>1, <2>2, <2>3 DEF CountInv, NULL
  <2>4. CASE cache \in Nat \ {0}
    BY <2>1, <2>2, <2>4, CycleCounts DEF CountInv
  <2> QED
    BY <2>1, <2>3, <2>4 DEF CountInv
<1>6. CASE Later /\ ~\E r \in Accesses : AccessCache(r)
  <2>1. UNCHANGED counts
    BY <1>6 DEF Later, OpenElf, LoadElf, RunElf, AccessPage, Access, HandleMiss, Trap, EndCycle,
                Finalize, PrintPage, NextList, EndLog, machine
  <2> QED
    BY <1>1, <1>6, <2>1, LaterFrame DEF counts, Running
<1>7. CASE UNCHANGED vars
  BY <1>1, <1>7 DEF vars, machine, counts
<1> QED
  BY <1>2, <1>3, <1>4, <1>5, <1>6, <1>7 DEF Step, Later

\* Dividing by the delay leaves the misses that were served.
LEMMA Quotient ==
    ASSUME NEW c \in Nat \ {0}, NEW s \in Nat, NEW e \in 0 .. c - 1
    PROVE  (c * s + e) \div c = s
OBVIOUS

\* machine.c:185-190: dividing by the delay takes the repeated misses out again,
\* also when the run was cut off in the middle of one.
THEOREM MissesAreReported == Lifecycle => MissesReported
<1>1. ASSUME CountInv, [Step]_vars
      PROVE  report' # report /\ cache # NULL => report'.misses = served
  <2> SUFFICES ASSUME report' # report, cache # NULL PROVE report'.misses = served
    OBVIOUS
  <2>1. EndLog /\ cache # 0
    BY <1>1 DEF Step, Option, CheckArgs, InitMachine, OpenElf, LoadElf, RunElf, AccessPage,
                AccessCache, HandleMiss, Trap, EndCycle, Finalize, PrintPage, NextList, EndLog,
                Access, vars
  <2>2. report'.misses = miss_count \div cache
    BY <2>1 DEF EndLog
  <2>3. /\ cache \in Nat \ {0} /\ served \in Nat /\ miss_count = cache * served + Counted
        /\ Counted \in 0 .. cache - 1
    BY <1>1, <2>1 DEF CountInv, Counted
  <2> QED
    BY <2>2, <2>3, Quotient
<1>2. CountInv /\ [Step]_vars => CountInv'
  BY StepCount
<1> QED
  BY <1>1, <1>2, InitCount, PTL DEF Lifecycle, MissesReported

-----------------------------------------------------------------------------
(* The loader *)

\* Addresses and the places of their bytes are the same thing.
LEMMA Places ==
    ASSUME NEW a \in Nat
    PROVE  /\ OffsetOf(a) \in Offsets /\ PageOf(a) \in Nat
           /\ \A b \in Nat : PageOf(a) = PageOf(b) /\ OffsetOf(a) = OffsetOf(b) => a = b
<1>1. \A n \in Nat \ {0}, x \in Nat :
         x % n \in 0 .. n - 1 /\ x \div n \in Nat /\ x = n * (x \div n) + (x % n)
  OBVIOUS
<1>2. OffsetOf(a) \in Offsets /\ PageOf(a) \in Nat
  BY <1>1, PageAssumption DEF OffsetOf, PageOf
<1>3. \A b \in Nat : b = PageSize * PageOf(b) + OffsetOf(b)
  BY <1>1, PageAssumption DEF OffsetOf, PageOf
<1> QED
  BY <1>2, <1>3

LEMMA PageAndOffset ==
    ASSUME NEW q \in Nat, NEW o \in Offsets
    PROVE  PageOf(q * PageSize + o) = q /\ OffsetOf(q * PageSize + o) = o
<1>1. \A n \in Nat \ {0} : \A x \in 0 .. n - 1 : (q * n + x) \div n = q /\ (q * n + x) % n = x
  OBVIOUS
<1> QED
  BY <1>1, PageAssumption DEF PageOf, OffsetOf

LEMMA Rejoined == ASSUME NEW a \in Nat PROVE PageOf(a) * PageSize + OffsetOf(a) = a
<1>1. \A n \in Nat \ {0}, x \in Nat : (x \div n) * n + (x % n) = x
  OBVIOUS
<1> QED
  BY <1>1, PageAssumption DEF OffsetOf, PageOf

\* Where a request is for.
LEMMA RequestPlace ==
    ASSUME NEW r \in Request
    PROVE  /\ AddressOf(r) \in Nat /\ PageOf(AddressOf(r)) = r.num /\ OffsetOf(AddressOf(r)) = r.off
           /\ r.num \in Pages /\ r.off \in Offsets /\ r.val \in Values
<1>1. r.num \in Nat /\ r.num \in Pages /\ r.off \in Offsets /\ r.off \in Nat /\ r.val \in Values
  <2>1. r.num \in Pages /\ r.off \in Offsets /\ r.val \in Values
    BY DEF Request
  <2>2. Offsets \subseteq Nat /\ Pages \subseteq Nat
    BY PageAssumption
  <2> QED
    BY <2>1, <2>2
<1>2. AddressOf(r) \in Nat
  <2>1. \A x, y, z \in Nat : x * y + z \in Nat
    OBVIOUS
  <2> QED
    BY <1>1, <2>1, PageAssumption DEF AddressOf
<1> QED
  BY <1>1, <1>2, PageAndOffset DEF AddressOf

\* What LoadByte asks for the k-th byte of a segment.
FileByte(ph, k) == [op |-> "write", num |-> PageOf(ph.vaddr + k), off |-> OffsetOf(ph.vaddr + k),
                    val |-> image.bytes[ph.offset + k]]

\* What the loader is waiting for.
Asked ==
    at[Loader] # Idle =>
        /\ header <= Len(image.headers) /\ Ph.load
        /\ part = "file" => j > 0 /\ j <= Copied /\ at[Loader].request = FileByte(Ph, j - 1)
        /\ part = "bss" => at[Loader].request.op = "map"

\* The bytes it has asked for.
Requested(i, k) == i < header \/ (i = header /\ (part = "bss" \/ k < j))

\* The pages there are.
Mapped == {p \in Pages : Lookup(p) # Null}

\* They are in memory, or the one that is waited for is on its way.
InPlace ==
    \A i \in DOMAIN image.headers : LET ph == image.headers[i] IN ph.load =>
        \A k \in 0 .. ph.filesz - 1 : Requested(i, k) =>
            \/ /\ Byte(ph.vaddr + k) = image.bytes[ph.offset + k]
               /\ PageOf(ph.vaddr + k) \in Mapped
            \/ at[Loader] # Idle /\ at[Loader].request = FileByte(ph, k)

\* Where the program is, and where the loader.
PartOf ==
    /\ pc \in {"args", "init", "open"} => part = "off"
    /\ pc \in {"run", "done", "last"} => part = "done"
    /\ part = "off" => at[Loader] = Idle /\ header = 1 /\ j = 0
    /\ part \in {"off", "file", "bss", "done"}

LoadInv ==
    /\ PInv(Loader) /\ WellFormed(image) /\ header \in Nat \ {0} /\ j \in Nat /\ PartOf
    /\ part = "bss" => header <= Len(image.headers) /\ Ph.load
    /\ part \in {"file", "bss"} => Asked /\ InPlace

\* What the assumption says of the headers, and of a segment.
LEMMA HeadersAre ==
    WellFormed(image) =>
        Len(image.headers) \in Nat /\ DOMAIN image.headers = 1 .. Len(image.headers)
BY DEF WellFormed

LEMMA SegmentIs ==
    ASSUME WellFormed(image), NEW i \in DOMAIN image.headers, image.headers[i].load
    PROVE  LET ph == image.headers[i]
           IN /\ ph.vaddr \in Nat /\ ph.offset \in Nat /\ ph.filesz \in Nat /\ ph.memsz \in Nat
              /\ ph.filesz <= ph.memsz
              /\ \A k \in 0 .. ph.memsz + PageSize - 1 : PageOf(ph.vaddr + k) \in Pages
              /\ \A k \in 0 .. ph.filesz + (ph.vaddr % PageSize) - 1 :
                    image.bytes[ph.offset + k] \in Values
              /\ \A h \in 1 .. i - 1 : image.headers[h].load =>
                    image.headers[h].vaddr + image.headers[h].filesz <= ph.vaddr
BY DEF WellFormed

LEMMA InitLoad == Init => LoadInv
<1> SUFFICES ASSUME Init PROVE LoadInv
  OBVIOUS
<1>1. PInv(Loader) /\ at[Loader] = Idle
  BY NoPagesInv, SequentialAssumption DEF Init, NoPages
<1>2. image = NoFile /\ part = "off" /\ header = 1 /\ j = 0 /\ pc = "args"
  BY DEF Init, NotLoaded
<1>3. WellFormed(NoFile)
  BY DEF WellFormed, NoFile
<1> QED
  BY <1>1, <1>2, <1>3 DEF LoadInv, PartOf

\* Whatever is done with the pages is one client's access.
PagesStep == UNCHANGED pages \/ AccessStep(Loader) \/ \E r \in Request : Call(Loader, r)

LEMMA PagesKept ==
    ASSUME PInv(Loader), PagesStep
    PROVE  /\ PInv(Loader)' /\ [Flat!Next]_(Flat!vars)
           /\ \A p \in Pages : Lookup(p) # Null => Lookup(p)' = Lookup(p)
           /\ Mapped \subseteq Mapped'
<1>1. (\A p \in Pages : Lookup(p) # Null => Lookup(p)' = Lookup(p)) => Mapped \subseteq Mapped'
  BY DEF Mapped
<1>2. CASE UNCHANGED pages \/ AccessStep(Loader)
  BY <1>1, <1>2, StepInv, SequentialAssumption DEF Next
<1>3. CASE \E r \in Request : Call(Loader, r)
  BY <1>1, <1>3, CallInv DEF Flat!vars
<1> QED
  BY <1>2, <1>3 DEF PagesStep

LEMMA LoadByteAsks ==
    ASSUME LoadInv, LoadByte
    PROVE  /\ FileByte(Ph, j) \in Request /\ Call(Loader, FileByte(Ph, j))
           /\ header \in DOMAIN image.headers /\ Ph.load /\ j < Copied
<1>1. /\ header \in DOMAIN image.headers /\ Ph = image.headers[header] /\ Ph.load
      /\ j < Copied /\ j \in Nat /\ WellFormed(image)
  BY HeadersAre DEF LoadByte, LoadInv, Ph
<1>2. Call(Loader, FileByte(Ph, j))
  BY DEF LoadByte, FileByte
<1>3. /\ Ph.vaddr \in Nat /\ Ph.filesz \in Nat /\ Ph.memsz \in Nat /\ Ph.filesz <= Ph.memsz
      /\ \A k \in 0 .. Ph.memsz + PageSize - 1 : PageOf(Ph.vaddr + k) \in Pages
      /\ \A k \in 0 .. Ph.filesz + (Ph.vaddr % PageSize) - 1 : image.bytes[Ph.offset + k] \in Values
  BY <1>1, SegmentIs
<1>4. Ph.vaddr % PageSize \in 0 .. PageSize - 1 /\ PageSize \in Nat
  BY <1>3, PageAssumption
<1>5. j \in 0 .. Ph.memsz + PageSize - 1 /\ j \in 0 .. Ph.filesz + (Ph.vaddr % PageSize) - 1
  BY <1>1, <1>3, <1>4 DEF Copied, VAlign
<1>6. OffsetOf(Ph.vaddr + j) \in Offsets
  BY <1>1, <1>3, Places
<1> QED
  BY <1>1, <1>2, <1>3, <1>5, <1>6 DEF FileByte, Request

LEMMA MapBssAsks ==
    ASSUME LoadInv, MapBss
    PROVE  \E r \in Request : r.op = "map" /\ Call(Loader, r)
<1> DEFINE a == Ph.vaddr + FAlign + j
           r == [op |-> "map", num |-> PageOf(a), off |-> OffsetOf(a), val |-> Zero]
<1>1. /\ header \in DOMAIN image.headers /\ Ph = image.headers[header] /\ Ph.load
      /\ j < Cleared /\ j \in Nat /\ WellFormed(image)
  BY HeadersAre DEF MapBss, LoadInv, Ph
<1>2. /\ Ph.vaddr \in Nat /\ Ph.filesz \in Nat /\ Ph.memsz \in Nat /\ Ph.filesz <= Ph.memsz
      /\ \A k \in 0 .. Ph.memsz + PageSize - 1 : PageOf(Ph.vaddr + k) \in Pages
  BY <1>1, SegmentIs
<1>3. (Ph.filesz + Ph.vaddr) % PageSize \in 0 .. PageSize - 1 /\ PageSize \in Nat
  BY <1>2, PageAssumption
<1>4. FAlign + j \in 0 .. Ph.memsz + PageSize - 1 /\ FAlign \in Int
  BY <1>1, <1>2, <1>3 DEF FAlign, Cleared
<1>5. a \in Nat /\ PageOf(a) \in Pages
  <2>1. a = Ph.vaddr + (FAlign + j)
    BY <1>1, <1>2, <1>4
  <2> QED
    BY <1>2, <1>4, <2>1
<1>6. OffsetOf(a) \in Offsets
  BY <1>5, Places
<1>7. r \in Request
  BY <1>5, <1>6, ByteAssumption DEF Request
<1> QED
  BY <1>7 DEF MapBss

\* The byte at an address after a step, wherever the address comes from.
Becomes(a) == Contents'[PageOf(a)][OffsetOf(a)]

\* A byte is where it was put, and no other is touched.
LEMMA OneByte ==
    ASSUME PInv(Loader), NEW b \in Nat, PageOf(b) \in Pages, NEW r, r.op = "write",
           r.num = PageOf(b), r.off = OffsetOf(b), Contents' = After(r)
    PROVE  /\ Becomes(b) = r.val
           /\ \A a \in Nat \ {b} : PageOf(a) \in Pages => Becomes(a) = Byte(a)
<1>1. Contents \in [Pages -> [Offsets -> Values]]
  BY ContentsType DEF PInv
<1>2. OffsetOf(b) \in Offsets
  BY Places
<1>3. Contents' = [Contents EXCEPT ![PageOf(b)] = [@ EXCEPT ![OffsetOf(b)] = r.val]]
  BY DEF After
<1>4. \A p \in Pages, o \in Offsets :
         Contents'[p][o] = IF p = PageOf(b) /\ o = OffsetOf(b) THEN r.val ELSE Contents[p][o]
  BY <1>1, <1>2, <1>3
<1>5. \A a \in Nat : /\ OffsetOf(a) \in Offsets
                     /\ PageOf(a) = PageOf(b) /\ OffsetOf(a) = OffsetOf(b) => a = b
  BY Places
<1> QED
  BY <1>2, <1>4, <1>5 DEF Byte, Becomes

\* A byte of a segment has an address of its own: the one that is written is
\* no other byte that has been requested.
LEMMA OwnAddress ==
    ASSUME LoadInv, NEW i \in DOMAIN image.headers, image.headers[i].load,
           NEW k \in 0 .. image.headers[i].filesz - 1, Requested(i, k),
           header \in DOMAIN image.headers, Ph.load, part = "file", j > 0,
           image.headers[i].vaddr + k = Ph.vaddr + (j - 1)
    PROVE  i = header /\ k = j - 1
<1> DEFINE low == image.headers[i]
<1>1. WellFormed(image) /\ j \in Nat /\ header \in Nat /\ i \in Nat
  BY HeadersAre DEF LoadInv
<1>2. low.vaddr \in Nat /\ low.filesz \in Nat /\ Ph.vaddr \in Nat
  BY <1>1, SegmentIs DEF Ph
<1>3. i <= header
  BY <1>1 DEF Requested
<1>4. i < header => low.vaddr + low.filesz <= Ph.vaddr
  <2> SUFFICES ASSUME i < header PROVE low.vaddr + low.filesz <= Ph.vaddr
    OBVIOUS
  <2>1. i \in 1 .. header - 1
    BY HeadersAre, <1>1
  <2> QED
    BY <1>1, <2>1, SegmentIs DEF Ph
<1>5. i = header
  BY <1>1, <1>2, <1>3, <1>4
<1> QED
  BY <1>1, <1>2, <1>5 DEF Ph

\* A step of the access that is waited for.
LEMMA AccessInPlace ==
    ASSUME LoadInv, AccessStep(Loader), UNCHANGED loader, part \in {"file", "bss"}
    PROVE  Asked' /\ InPlace'
<1>1. PInv(Loader) /\ Asked /\ InPlace /\ WellFormed(image)
  BY DEF LoadInv
<1>2. /\ at[Loader] # Idle /\ at[Loader].request \in Request
      /\ \/ at'[Loader] # Idle /\ at'[Loader].request = at[Loader].request /\ Contents' = Contents
         \/ /\ at'[Loader] = Idle /\ Contents' = After(at[Loader].request)
            /\ Lookup(at[Loader].request.num) # Null
      /\ Mapped \subseteq Mapped'
  BY <1>1, AccessDoes, PagesKept DEF PagesStep
<1>3. /\ image' = image /\ part' = part /\ header' = header /\ j' = j
      /\ Ph' = Ph /\ Copied' = Copied
      /\ \A ph, k : FileByte(ph, k)' = FileByte(ph, k)
      /\ \A i, k : Requested(i, k)' <=> Requested(i, k)
  BY DEF loader, Ph, Copied, VAlign, FileByte, Requested
<1>4. Asked'
  BY <1>1, <1>2, <1>3 DEF Asked
<1>5. ASSUME NEW i \in DOMAIN image.headers, image.headers[i].load,
             NEW k \in 0 .. image.headers[i].filesz - 1, Requested(i, k)
      PROVE  \/ /\ Becomes(image.headers[i].vaddr + k) = image.bytes[image.headers[i].offset + k]
                /\ PageOf(image.headers[i].vaddr + k) \in Mapped'
             \/ at'[Loader] # Idle /\ at'[Loader].request = FileByte(image.headers[i], k)
  <2> DEFINE ph == image.headers[i]
             a == ph.vaddr + k
  <2>1. \/ Byte(a) = image.bytes[ph.offset + k] /\ PageOf(a) \in Mapped
        \/ at[Loader].request = FileByte(ph, k)
    BY <1>1, <1>5 DEF InPlace
  <2>2. CASE Contents' = Contents /\ at'[Loader] # Idle /\ at'[Loader].request = at[Loader].request
    BY <1>2, <2>1, <2>2 DEF Byte, Becomes
  <2>3. CASE part = "bss" /\ at'[Loader] = Idle /\ Contents' = After(at[Loader].request)
    <3>1. at[Loader].request.op = "map" /\ FileByte(ph, k).op = "write"
      BY <1>1, <1>2, <2>3 DEF Asked, FileByte
    <3>2. Contents' = Contents
      BY <2>3, <3>1 DEF After
    <3> QED
      BY <1>2, <2>1, <3>1, <3>2 DEF Byte, Becomes
  <2>4. CASE part = "file" /\ at'[Loader] = Idle /\ Contents' = After(at[Loader].request)
    <3> DEFINE b == Ph.vaddr + (j - 1)
    <3>1. /\ header \in DOMAIN image.headers /\ Ph.load /\ j > 0 /\ j <= Copied /\ j \in Nat
          /\ at[Loader].request = FileByte(Ph, j - 1)
      BY HeadersAre, <1>1, <1>2, <2>4 DEF Asked, LoadInv
    <3>2. Ph.vaddr \in Nat /\ b \in Nat /\ FileByte(Ph, j - 1).num = PageOf(b)
          /\ FileByte(Ph, j - 1).off = OffsetOf(b) /\ FileByte(Ph, j - 1).op = "write"
          /\ FileByte(Ph, j - 1).val = image.bytes[Ph.offset + (j - 1)]
      BY <1>1, <3>1, SegmentIs DEF Ph, FileByte
    <3>3. PageOf(b) \in Pages /\ PageOf(b) \in Mapped
      <4>1. PageOf(b) \in Pages
        BY <1>2, <3>1, <3>2 DEF Request
      <4>2. Lookup(PageOf(b)) # Null
        BY <1>2, <2>4, <3>1, <3>2
      <4> QED
        BY <4>1, <4>2 DEF Mapped
    <3>4. a \in Nat /\ PageOf(a) \in Pages
      <4>1. ph.vaddr \in Nat /\ ph.filesz \in Nat /\ ph.memsz \in Nat /\ ph.filesz <= ph.memsz
            /\ \A x \in 0 .. ph.memsz + PageSize - 1 : PageOf(ph.vaddr + x) \in Pages
        BY <1>1, <1>5, SegmentIs
      <4>2. k \in 0 .. ph.memsz + PageSize - 1
        BY <4>1, PageAssumption
      <4> QED
        BY <4>1, <4>2
    <3>5. /\ Becomes(b) = image.bytes[Ph.offset + (j - 1)]
          /\ \A x \in Nat \ {b} : PageOf(x) \in Pages => Becomes(x) = Byte(x)
      BY <1>1, <2>4, <3>1, <3>2, <3>3, OneByte
    <3>6. CASE a = b
      <4>1. i = header /\ k = j - 1
        BY <1>5, <2>4, <3>1, <3>6, OwnAddress
      <4> QED
        BY <1>2, <3>3, <3>5, <4>1 DEF Ph
    <3>7. CASE a # b
      <4>1. at[Loader].request # FileByte(ph, k)
        <5> SUFFICES ASSUME FileByte(Ph, j - 1) = FileByte(ph, k) PROVE FALSE
          BY <3>1
        <5>1. PageOf(a) = PageOf(b) /\ OffsetOf(a) = OffsetOf(b)
          BY <3>2 DEF FileByte
        <5> QED
          BY <3>2, <3>4, <3>7, <5>1, Places
      <4> QED
        BY <1>2, <2>1, <3>4, <3>5, <3>7, <4>1
    <3> QED
      BY <3>6, <3>7
  <2> QED
    BY <1>2, <2>2, <2>3, <2>4
<1>6. InPlace'
  BY <1>3, <1>5 DEF InPlace, Byte, Becomes
<1> QED
  BY <1>4, <1>6

\* Loading ends when nothing is waited for and everything is in place.
LoadingEnds ==
    part' = "done" /\ part # "done" =>
        /\ UNCHANGED <<pages, image>> /\ at[Loader] = Idle
        /\ InPlace /\ header > Len(image.headers)

\* The loader's steps.
LEMMA LoadStepInv ==
    ASSUME LoadInv, LoadElf
    PROVE  LoadInv' /\ PagesStep /\ LoadingEnds
<1>1. /\ PInv(Loader) /\ WellFormed(image) /\ header \in Nat \ {0} /\ j \in Nat /\ PartOf
      /\ Len(image.headers) \in Nat /\ DOMAIN image.headers = 1 .. Len(image.headers)
  BY HeadersAre DEF LoadInv
<1>2. pc = "load" /\ pc' = pc
  BY DEF LoadElf
<1>3. CASE LoadByte
  <2>1. /\ FileByte(Ph, j) \in Request /\ Call(Loader, FileByte(Ph, j))
        /\ header \in DOMAIN image.headers /\ Ph.load /\ j < Copied
    BY <1>3, LoadByteAsks
  <2>2. PInv(Loader)' /\ Contents' = Contents /\ Mapped \subseteq Mapped'
    BY <1>1, <2>1, CallInv, PagesKept DEF PagesStep
  <2>3. /\ part = "file" /\ j' = j + 1 /\ UNCHANGED <<image, part, header, seg_start_addr>>
        /\ Ph' = Ph /\ Copied' = Copied
    BY <1>3 DEF LoadByte, Ph, Copied, VAlign
  <2>4. /\ at[Loader] = Idle /\ at'[Loader] # Idle /\ at'[Loader].request = FileByte(Ph, j)
    BY <1>1, <2>1 DEF Call, PInv, Idle
  <2>5. \A ph, k : FileByte(ph, k)' = FileByte(ph, k)
    BY <2>3 DEF FileByte
  <2>6. (j + 1) - 1 = j /\ j + 1 > 0
    BY <1>1
  <2>7. j + 1 <= Copied
    <3>1. Ph.filesz \in Nat /\ Ph.vaddr \in Nat
      BY <1>1, <2>1, SegmentIs DEF Ph
    <3>2. Copied \in Int
      BY <3>1, PageAssumption DEF Copied, VAlign
    <3> QED
      BY <1>1, <2>1, <3>2
  <2>8. Asked'
    BY <1>1, <2>1, <2>3, <2>4, <2>5, <2>6, <2>7 DEF Asked
  <2>9. ASSUME NEW i \in DOMAIN image.headers, image.headers[i].load,
               NEW k \in 0 .. image.headers[i].filesz - 1, Requested(i, k)'
        PROVE  \/ /\ Byte(image.headers[i].vaddr + k) = image.bytes[image.headers[i].offset + k]
                  /\ PageOf(image.headers[i].vaddr + k) \in Mapped
               \/ FileByte(Ph, j) = FileByte(image.headers[i], k)
    <3>1. Requested(i, k) \/ (i = header /\ k = j)
      BY <1>1, <2>3, <2>9 DEF Requested
    <3>2. CASE Requested(i, k)
      BY <1>1, <2>3, <2>4, <2>9, <3>2 DEF LoadInv, InPlace
    <3> QED
      BY <3>1, <3>2 DEF Ph
  <2>10. InPlace'
    BY <2>2, <2>3, <2>4, <2>5, <2>9 DEF InPlace, Byte
  <2> QED
    BY <1>1, <1>2, <2>1, <2>2, <2>3, <2>6, <2>8, <2>10 DEF LoadInv, PartOf, PagesStep, LoadingEnds
<1>4. CASE MapBss
  <2>1. PICK r \in Request : r.op = "map" /\ Call(Loader, r)
    BY <1>4, MapBssAsks
  <2>2. PInv(Loader)' /\ Contents' = Contents /\ Mapped \subseteq Mapped'
    BY <1>1, <2>1, CallInv, PagesKept DEF PagesStep
  <2>3. /\ part = "bss" /\ j' = j + 1 /\ Ph' = Ph
        /\ UNCHANGED <<image, part, header, seg_start_addr>>
    BY <1>4 DEF MapBss, Ph
  <2>4. at[Loader] = Idle /\ at'[Loader].request = r
    BY <1>1, <2>1 DEF Call, PInv
  <2>5. Asked'
    BY <2>1, <2>3, <2>4 DEF Asked, LoadInv
  <2>6. \A i, k : Requested(i, k)' <=> Requested(i, k)
    BY <2>3 DEF Requested
  <2>7. InPlace'
    BY <2>2, <2>3, <2>4, <2>6 DEF LoadInv, InPlace, Byte
  <2> QED
    BY <1>1, <1>2, <2>1, <2>2, <2>3, <2>5, <2>7 DEF LoadInv, PartOf, PagesStep, LoadingEnds
<1>5. CASE FileLoaded \/ NextHeader
  <2>1. UNCHANGED <<pages, image, seg_start_addr>> /\ at[Loader] = Idle /\ j' = 0
        /\ part \in {"file", "bss"} /\ part' \in {"file", "bss"}
    BY <1>5 DEF FileLoaded, NextHeader, Goto
  <2>2. PInv(Loader)' /\ Contents' = Contents /\ at' = at /\ Mapped \subseteq Mapped'
    <3>1. Contents' = Contents
      BY <1>1, <2>1, QuietInv DEF pages
    <3>2. at' = at
      BY <2>1 DEF pages
    <3> QED
      BY <1>1, <2>1, <3>1, <3>2, PagesKept DEF PagesStep
  <2>3. Asked'
    BY <2>1, <2>2 DEF Asked
  <2>4. ASSUME NEW i \in DOMAIN image.headers, image.headers[i].load,
               NEW k \in 0 .. image.headers[i].filesz - 1, Requested(i, k)'
        PROVE  Requested(i, k)
    <3>1. i \in Nat /\ k \in Nat
      BY <1>1
    <3>2. CASE FileLoaded
      <4>1. header' = header /\ part = "file" /\ j >= Copied /\ header \in DOMAIN image.headers
        BY <1>1, <3>2 DEF FileLoaded
      <4>2. i = header => k < j
        <5> SUFFICES ASSUME i = header PROVE k < j
          OBVIOUS
        <5>1. Ph.filesz \in Nat /\ Ph.vaddr \in Nat /\ k < Ph.filesz
          BY <1>1, <2>4, <3>1, SegmentIs DEF Ph
        <5>2. VAlign \in Nat
          BY <5>1, PageAssumption DEF VAlign
        <5> QED
          BY <1>1, <3>1, <4>1, <5>1, <5>2 DEF Copied
      <4> QED
        BY <2>4, <4>1, <4>2 DEF Requested
    <3>3. CASE NextHeader
      <4>1. header' = header + 1 /\ part' = "file"
        BY <3>3 DEF NextHeader, Goto
      <4>2. i <= header
        BY <1>1, <2>1, <2>4, <3>1, <4>1 DEF Requested
      <4>3. part = "bss" \/ i # header
        BY <2>4, <3>3 DEF NextHeader, Ph
      <4> QED
        BY <1>1, <3>1, <4>2, <4>3 DEF Requested
    <3> QED
      BY <1>5, <3>2, <3>3
  <2>5. InPlace'
    BY <2>1, <2>2, <2>4 DEF LoadInv, InPlace, Byte
  <2>6. header' \in Nat \ {0} /\ j' \in Nat
    BY <1>1, <1>5, <2>1 DEF FileLoaded, NextHeader
  <2>7. part' = "bss" => header' <= Len(image'.headers) /\ Ph'.load
    BY <1>5, <2>1 DEF FileLoaded, NextHeader, Goto, Ph
  <2> QED
    BY <1>1, <1>2, <2>1, <2>2, <2>3, <2>5, <2>6, <2>7 DEF LoadInv, PartOf, PagesStep, LoadingEnds
<1>6. CASE Sections
  <2>1. /\ UNCHANGED <<pages, image, header, j>> /\ part' = "done"
        /\ part = "file" /\ header > Len(image.headers)
    BY <1>6 DEF Sections
  <2>2. at[Loader] = Idle /\ InPlace
    BY <1>1, <2>1 DEF LoadInv, Asked
  <2>3. PInv(Loader)'
    BY <1>1, <2>1, PagesKept DEF PagesStep
  <2> QED
    BY <1>1, <1>2, <2>1, <2>2, <2>3 DEF LoadInv, PartOf, PagesStep, LoadingEnds
<1>7. CASE part # "off" /\ AccessStep(Loader) /\ UNCHANGED loader
  <2>1. PInv(Loader)'
    BY <1>1, <1>7, PagesKept DEF PagesStep
  <2>2. UNCHANGED <<image, part, header, j>> /\ Ph' = Ph
    BY <1>7 DEF loader, Ph
  <2>3. part \in {"file", "bss"} => Asked' /\ InPlace'
    BY <1>7, AccessInPlace
  <2> QED
    BY <1>1, <1>2, <1>7, <2>1, <2>2, <2>3 DEF LoadInv, PartOf, PagesStep, LoadingEnds
<1> QED
  BY <1>3, <1>4, <1>5, <1>6, <1>7 DEF LoadElf, LoadStep

\* What the cache holds has a place in the pages.
BufferType ==
    /\ \A a \in DOMAIN lines : a \in Nat /\ PageOf(a) \in Pages /\ lines[a].val \in Values
    /\ filling => pending \in Request

\* A line that is filled, and a dirty one that makes room for it.
LEMMA CacheAsks ==
    ASSUME BufferType, (\E r \in Accesses : AccessCache(r)) \/ HandleMiss
    PROVE  PagesStep /\ UNCHANGED loader /\ pc = "run" /\ pc' = pc
<1>1. CASE HandleMiss
  <2>1. ASSUME NEW v \in DOMAIN lines
        PROVE  [op |-> "write", num |-> PageOf(v), off |-> OffsetOf(v), val |-> lines[v].val] \in Request
    BY Places DEF BufferType, Request
  <2> QED
    BY <1>1, <2>1 DEF HandleMiss, PagesStep
<1>2. ASSUME NEW r \in Accesses, AccessCache(r)
      PROVE  PagesStep /\ UNCHANGED loader /\ pc = "run" /\ pc' = pc
  <2>1. [op |-> "read", num |-> r.num, off |-> r.off, val |-> Zero] \in Request
    BY SequentialAssumption, ByteAssumption DEF Request
  <2> QED
    BY <1>2, <2>1 DEF AccessCache, CacheHit, CacheWait, CacheFill, InCycle, PagesStep
<1> QED
  BY <1>1, <1>2

\* Every step of the program keeps the loader's invariant and accesses the
\* pages as one client, and loading ends with everything in place.
LEMMA StepLoad ==
    ASSUME LoadInv, BufferType, [Step]_vars
    PROVE  LoadInv' /\ PagesStep /\ LoadingEnds
<1>1. /\ PInv(Loader) /\ PartOf /\ WellFormed(image)
      /\ part' = part \/ part' # "done" => LoadingEnds
  BY DEF LoadInv, LoadingEnds
<1>2. ASSUME UNCHANGED <<pages, loader>>, pc' \in {"args", "init", "open"} => part = "off",
             pc' \in {"run", "done", "last"} => part = "done"
      PROVE  LoadInv' /\ PagesStep /\ part' = part
  <2>1. PInv(Loader)' /\ PagesStep /\ Mapped \subseteq Mapped'
    BY <1>1, <1>2, PagesKept DEF PagesStep
  <2>2. Contents' = Contents
    BY <1>1, <1>2, QuietInv DEF pages
  <2>3. /\ UNCHANGED <<image, part, header, j>> /\ at' = at /\ Ph' = Ph /\ Copied' = Copied
        /\ \A ph, k : FileByte(ph, k)' = FileByte(ph, k)
        /\ \A i, k : Requested(i, k)' <=> Requested(i, k)
    BY <1>2 DEF pages, loader, Ph, Copied, VAlign, FileByte, Requested
  <2>4. part \in {"file", "bss"} => Asked' /\ InPlace'
    BY <2>1, <2>2, <2>3 DEF LoadInv, Asked, InPlace, Byte
  <2>5. PartOf'
    BY <1>1, <1>2, <2>3 DEF PartOf
  <2> QED
    BY <1>1, <2>1, <2>3, <2>4, <2>5 DEF LoadInv
<1>3. ASSUME part = "done", PagesStep, UNCHANGED loader, pc' = pc PROVE LoadInv'
  <2>1. PInv(Loader)'
    BY <1>1, <1>3, PagesKept
  <2> QED
    BY <1>1, <1>3, <2>1 DEF LoadInv, PartOf, loader
<1>4. CASE Option \/ CheckArgs \/ InitMachine
  BY <1>1, <1>2, <1>4 DEF Option, OpenFor, Set, CheckArgs, InitMachine, Exit, PartOf
<1>5. CASE OpenElf
  <2>1. CASE opts.i \in DOMAIN Files
    <3>1. /\ UNCHANGED <<pages, header, j>> /\ image' = Files[opts.i]
          /\ part' = "file" /\ pc' = "load"
          /\ part = "off" /\ at[Loader] = Idle /\ header = 1 /\ j = 0
      BY <1>1, <1>5, <2>1 DEF OpenElf, PartOf
    <3>2. PInv(Loader)' /\ PagesStep
      BY <1>1, <3>1, PagesKept DEF PagesStep
    <3>3. at'[Loader] = Idle
      BY <3>1 DEF pages
    <3>4. WellFormed(image')
      BY <2>1, <3>1, FileAssumption
    <3>5. Asked'
      BY <3>3 DEF Asked
    <3>6. InPlace'
      BY <3>1, <3>4 DEF InPlace, Requested, WellFormed
    <3> QED
      BY <1>1, <3>1, <3>2, <3>3, <3>4, <3>5, <3>6 DEF LoadInv, PartOf, WellFormed
  <2>2. CASE opts.i \notin DOMAIN Files
    BY <1>1, <1>2, <1>5, <2>2 DEF OpenElf, Exit, PartOf, loader
  <2> QED
    BY <2>1, <2>2
<1>6. CASE LoadElf
  BY <1>6, LoadStepInv
<1>7. CASE RunElf
  BY <1>1, <1>2, <1>7 DEF RunElf
<1>8. CASE AccessPage \/ \E request \in Accesses : Access(request)
  <2>1. pc = "run" /\ pc' = pc /\ UNCHANGED loader /\ part = "done"
    BY <1>1, <1>8 DEF AccessPage, Access, InCycle, PartOf
  <2>2. PagesStep
    BY <1>8, SequentialAssumption DEF AccessPage, Access, PagesStep
  <2> QED
    BY <1>1, <1>3, <2>1, <2>2 DEF loader
<1>9. CASE HandleMiss \/ \E request \in Accesses : AccessCache(request)
  <2>1. pc = "run" /\ pc' = pc /\ UNCHANGED loader /\ PagesStep
    BY <1>9, CacheAsks
  <2> QED
    BY <1>1, <1>3, <2>1 DEF loader, PartOf
<1>10. CASE Trap \/ EndCycle \/ Finalize
  BY <1>1, <1>2, <1>10 DEF Trap, InCycle, EndCycle, Finalize, Exit, PartOf
<1>11. CASE PrintPage \/ NextList \/ EndLog
  BY <1>1, <1>2, <1>11 DEF PrintPage, NextList, EndLog, Logging, Exit, PartOf
<1>12. CASE UNCHANGED vars
  BY <1>1, <1>2, <1>12 DEF vars, PartOf
<1> QED
  BY <1>4, <1>5, <1>6, <1>7, <1>8, <1>9, <1>10, <1>11, <1>12 DEF Step

LEMMA StepBuffer == ASSUME LoadInv, BufferType, [Step]_vars PROVE BufferType'
<1>1. CASE UNCHANGED buffer
  BY <1>1 DEF BufferType, buffer
<1>2. ASSUME NEW r \in Accesses, AccessCache(r) PROVE BufferType'
  <2>1. r \in Request /\ r.val \in Values
    BY SequentialAssumption DEF Request
  <2>2. CASE CacheHit(r)
    <3>1. DOMAIN lines' = DOMAIN lines /\ UNCHANGED <<pending, filling>>
      BY <2>2 DEF CacheHit
    <3>2. \A x \in DOMAIN lines : lines'[x].val \in {r.val, lines[x].val}
      BY <2>2 DEF CacheHit
    <3> QED
      BY <2>1, <3>1, <3>2 DEF BufferType
  <2>3. CASE CacheWait(r) \/ CacheFill(r)
    BY <2>1, <2>3 DEF CacheWait, CacheFill, Misses, BufferType
  <2> QED
    BY <1>2, <2>2, <2>3 DEF AccessCache
<1>3. CASE HandleMiss
  <2>1. PICK others \in SUBSET DOMAIN lines : lines' = Filled(others)
    BY <1>3 DEF HandleMiss
  <2>2. pending \in Request /\ result \in Values /\ filling' = FALSE
    BY <1>3 DEF HandleMiss, BufferType, LoadInv, PInv, PageType
  <2>3. DOMAIN lines' = others \cup {AddressOf(pending)}
    BY <2>1 DEF Filled
  <2>4. /\ lines'[AddressOf(pending)].val \in {pending.val, result}
        /\ \A x \in others : x # AddressOf(pending) => lines'[x] = lines[x]
    BY <2>1 DEF Filled
  <2> QED
    BY <2>2, <2>3, <2>4, RequestPlace DEF BufferType
<1> QED
  BY <1>1, <1>2, <1>3 DEF Step, Option, CheckArgs, InitMachine, OpenElf, LoadElf, RunElf,
     AccessPage, Trap, EndCycle, Finalize, PrintPage, NextList, EndLog, Access, vars, machine

\* The two invariants hold together.
MemInv == LoadInv /\ BufferType

LEMMA InitMem == Init => MemInv
<1> SUFFICES ASSUME Init PROVE MemInv
  OBVIOUS
<1>1. filling = FALSE /\ DOMAIN lines = {}
  <2>1. lines = <<>> /\ filling = FALSE
    BY DEF Init
  <2> QED
    BY <2>1
<1> QED
  BY <1>1, InitLoad DEF MemInv, BufferType

LEMMA StepMem == ASSUME MemInv, [Step]_vars PROVE MemInv' /\ PagesStep /\ LoadingEnds
BY StepLoad, StepBuffer DEF MemInv

\* loadElf: when the program starts, every byte of every segment is where the
\* file wants it, although more bytes are copied than a segment has and segments
\* share pages (elf_loader.c:57-99).
THEOREM BytesAreLoaded == Lifecycle => FileBytesLoaded
<1>1. ASSUME MemInv, [Step]_vars
      PROVE  part' = "done" /\ part # "done" =>
                \A ph \in Loadable : \A i \in 0 .. ph.filesz - 1 :
                    Byte(ph.vaddr + i)' = image.bytes[ph.offset + i]
  <2> SUFFICES ASSUME part' = "done", part # "done",
                      NEW ph \in Loadable, NEW i \in 0 .. ph.filesz - 1
               PROVE  Byte(ph.vaddr + i)' = image.bytes[ph.offset + i]
    OBVIOUS
  <2>1. /\ UNCHANGED pages /\ at[Loader] = Idle /\ InPlace
        /\ header > Len(image.headers) /\ WellFormed(image) /\ PInv(Loader)
    BY <1>1, StepMem DEF MemInv, LoadInv, LoadingEnds
  <2>2. PICK h \in DOMAIN image.headers : ph = image.headers[h] /\ ph.load
    BY DEF Loadable
  <2>3. Requested(h, i)
    BY HeadersAre, <1>1, <2>1, <2>2 DEF Requested, MemInv, LoadInv
  <2>4. Byte(ph.vaddr + i) = image.bytes[ph.offset + i]
    BY <2>1, <2>2, <2>3 DEF InPlace
  <2>5. Contents' = Contents
    BY <2>1, QuietInv DEF pages
  <2> QED
    BY <2>4, <2>5 DEF Byte
<1>2. MemInv /\ [Step]_vars => MemInv'
  BY StepMem
<1>3. [Step]_vars => [Step]_vars /\ (UNCHANGED vars => UNCHANGED <<pages, loader>>)
  BY DEF vars
<1> QED
  BY <1>1, <1>2, <1>3, InitMem, PTL DEF Lifecycle, FileBytesLoaded

\* From the command line to the exit, memory is an array of bytes, zero at
\* first, that only loader and guest write (ptable.c, mem.c:61-139).
THEOREM MemoryIsArray == Lifecycle => PagesAreFlat
<1>1. Init => Flat!Init
  BY NoPagesArray, SequentialAssumption DEF Init
<1>2. MemInv /\ [Step]_vars => MemInv' /\ [Flat!Next]_(Flat!vars)
  BY StepMem, PagesKept DEF MemInv, LoadInv
<1> QED
  BY <1>1, <1>2, InitMem, PTL DEF Lifecycle, PagesAreFlat, Flat!Spec

\* ... and a page stays where it was first found (ptable.c:10).
THEOREM NoPageMoves == Lifecycle => NoReplacement
<1>1. MemInv /\ [Step]_vars =>
         MemInv' /\ [\A p \in Pages : Lookup(p) # Null => Lookup(p)' = Lookup(p)]_pages
  BY StepMem, PagesKept DEF MemInv, LoadInv
<1> QED
  BY <1>1, InitMem, PTL DEF Lifecycle, NoReplacement

-----------------------------------------------------------------------------
(* The cache and the pages *)

\* The starts of the segments are addresses, whatever a file says.
StartsInv == MemInv /\ seg_start_addr \in StartAddrs

LEMMA InitStarts == Init => StartsInv
BY InitMem, StartsAssumption DEF Init, NotLoaded, StartsInv

LEMMA StepStarts == ASSUME StartsInv, [Step]_vars PROVE StartsInv'
<1>1. MemInv' /\ MemInv
  BY StepMem DEF StartsInv
<1>2. CASE UNCHANGED seg_start_addr
  BY <1>1, <1>2 DEF StartsInv
<1>3. CASE Sections
  <2>1. image.text \in Nat \cup {-1} /\ image.data \in Nat \cup {-1}
    BY <1>1 DEF MemInv, LoadInv, WellFormed
  <2>2. seg_start_addr' = [seg_start_addr EXCEPT
                              !.TEXT = IF image.text = -1 THEN @ ELSE image.text,
                              !.DATA = IF image.data = -1 THEN @ ELSE image.data]
    BY <1>3 DEF Sections
  <2>3. seg_start_addr' \in StartAddrs
    BY <2>1, <2>2 DEF StartsInv, StartAddrs
  <2> QED
    BY <1>1, <2>3 DEF StartsInv
<1>4. LoadElf => Sections \/ UNCHANGED seg_start_addr
  BY DEF LoadElf, LoadStep, LoadByte, FileLoaded, MapBss, NextHeader, Goto, loader
<1> QED
  BY <1>2, <1>3, <1>4 DEF Step, Option, CheckArgs, InitMachine, OpenElf, RunElf, AccessPage,
     AccessCache, HandleMiss, Trap, EndCycle, Finalize, PrintPage, NextList, EndLog, Access,
     vars, loader

\* What the read asks for that fills a line.
Reading(r) == [op |-> "read", num |-> r.num, off |-> r.off, val |-> Zero]

\* A clean line holds what the pages hold.  A dirty one that is being written back
\* is out of the cache, and one that is being filled is not in it yet, but the
\* byte that is read is the one it will hold.
Coherent ==
    /\ part # "done" => lines = <<>> /\ ~filling
    /\ \A a \in DOMAIN lines : Behind(a) /\ (~lines[a].dirty => lines[a].val = Byte(a))
    /\ part = "done" /\ at[Loader] # Idle /\ at[Loader].request.op = "write" =>
          AddressOf(at[Loader].request) \notin DOMAIN lines
    /\ filling =>
          /\ Behind(AddressOf(pending)) /\ AddressOf(pending) \notin DOMAIN lines
          /\ IF at[Loader] = Idle THEN result = Byte(AddressOf(pending))
             ELSE at[Loader].request = Reading(pending)

CoherentInv == StartsInv /\ Coherent

LEMMA InitCoherent == Init => CoherentInv
<1> SUFFICES ASSUME Init PROVE CoherentInv
  OBVIOUS
<1>1. lines = <<>> /\ DOMAIN lines = {} /\ filling = FALSE /\ part = "off"
  <2>1. lines = <<>> /\ filling = FALSE /\ part = "off"
    BY DEF Init, NotLoaded
  <2> QED
    BY <2>1
<1> QED
  BY <1>1, InitStarts DEF CoherentInv, Coherent

\* An access to the pages that is under way.
LEMMA AccessCoherent ==
    ASSUME CoherentInv, AccessStep(Loader), part = "done", UNCHANGED loader,
           UNCHANGED <<cache, lines, pending, filling>>
    PROVE  Coherent'
<1> DEFINE r == at[Loader].request
           b == AddressOf(r)
<1>1. /\ PInv(Loader) /\ BufferType
      /\ at[Loader] # Idle /\ r \in Request
      /\ \/ at'[Loader] # Idle /\ at'[Loader].request = r /\ Contents' = Contents
         \/ at'[Loader] = Idle /\ Contents' = After(r)
  BY AccessDoes DEF CoherentInv, StartsInv, MemInv, LoadInv
<1>2. b \in Nat /\ PageOf(b) = r.num /\ OffsetOf(b) = r.off /\ r.num \in Pages
  BY <1>1, RequestPlace
<1>3. ASSUME NEW a \in Nat, PageOf(a) \in Pages, r.op = "write" => a # b PROVE Becomes(a) = Byte(a)
  <2>1. CASE Contents' = Contents
    BY <2>1 DEF Becomes, Byte
  <2>2. CASE r.op = "write" /\ Contents' = After(r)
    BY <1>1, <1>2, <1>3, <2>2, OneByte
  <2>3. CASE r.op # "write" /\ Contents' = After(r)
    BY <2>3 DEF After, Becomes, Byte
  <2> QED
    BY <1>1, <2>1, <2>2, <2>3
<1>4. \A a \in DOMAIN lines : Byte(a)' = Byte(a)
  <2>1. \A a \in DOMAIN lines : a \in Nat /\ PageOf(a) \in Pages
    BY <1>1 DEF BufferType
  <2>2. \A a \in DOMAIN lines : r.op = "write" => a # b
    BY <1>1 DEF CoherentInv, Coherent
  <2> QED
    BY <1>3, <2>1, <2>2 DEF Becomes, Byte
<1>5. seg_start_addr' = seg_start_addr /\ part' = part /\ (\A a : Behind(a)' <=> Behind(a))
      /\ (\A x : AddressOf(x)' = AddressOf(x))
  BY DEF loader, Behind, AddressOf
<1>6. ASSUME filling, at'[Loader] = Idle PROVE result' = Becomes(AddressOf(pending))
  <2>1. r = Reading(pending) /\ pending \in Request
    BY <1>1, <1>6 DEF CoherentInv, Coherent, BufferType
  <2>2. r.op = "read" /\ r.num = pending.num /\ r.off = pending.off
    BY <2>1 DEF Reading
  <2>3. result' = Contents[r.num][r.off] /\ Contents' = Contents
    BY <1>1, <1>6, <2>2, ReadsByte DEF After
  <2>4. PageOf(AddressOf(pending)) = r.num /\ OffsetOf(AddressOf(pending)) = r.off
    BY <2>1, <2>2, RequestPlace
  <2> QED
    BY <2>3, <2>4 DEF Becomes
<1>7. filling => /\ at[Loader].request = Reading(pending)
                 /\ at'[Loader] # Idle => at'[Loader].request = Reading(pending)
  BY <1>1 DEF CoherentInv, Coherent
<1>8. \A a \in DOMAIN lines : Behind(a) /\ (~lines[a].dirty => lines[a].val = Byte(a)')
  BY <1>4 DEF CoherentInv, Coherent
<1>9. at'[Loader] # Idle /\ at'[Loader].request.op = "write" =>
         AddressOf(at'[Loader].request) \notin DOMAIN lines
  BY <1>1 DEF CoherentInv, Coherent
<1>10. filling => Behind(AddressOf(pending)) /\ AddressOf(pending) \notin DOMAIN lines
  BY DEF CoherentInv, Coherent
<1>11. Becomes(AddressOf(pending)) = Byte(AddressOf(pending))'
  BY DEF Becomes, Byte, PageOf, OffsetOf, AddressOf
<1> QED
  BY <1>5, <1>6, <1>7, <1>8, <1>9, <1>10, <1>11 DEF Coherent, Reading

\* A line that is filled takes the place of a line, which is written back if it is
\* dirty.
LEMMA HandleCoherent == ASSUME CoherentInv, HandleMiss PROVE Coherent'
<1> DEFINE a == AddressOf(pending)
           asked(v) == [op |-> "write", num |-> PageOf(v), off |-> OffsetOf(v), val |-> lines[v].val]
<1>1. /\ PInv(Loader) /\ BufferType /\ part = "done" /\ filling /\ at[Loader] = Idle
      /\ filling' = FALSE /\ UNCHANGED <<loader, cache>>
  BY DEF CoherentInv, StartsInv, MemInv, LoadInv, PartOf, HandleMiss
<1>2. /\ Behind(a) /\ a \notin DOMAIN lines /\ result = Byte(a)
      /\ \A x \in DOMAIN lines : Behind(x) /\ (~lines[x].dirty => lines[x].val = Byte(x))
  BY <1>1 DEF CoherentInv, Coherent
<1>3. PICK others \in SUBSET DOMAIN lines :
         /\ lines' = Filled(others)
         /\ \/ UNCHANGED pages
            \/ \E v \in DOMAIN lines \ others : Call(Loader, asked(v))
  <2>1. CASE lines' = Filled(DOMAIN lines) /\ UNCHANGED pages
    BY <2>1
  <2>2. CASE \E v \in DOMAIN lines :
                /\ lines' = Filled(DOMAIN lines \ {v})
                /\ Call(Loader, asked(v)) \/ UNCHANGED pages
    <3>1. PICK v \in DOMAIN lines :
             /\ lines' = Filled(DOMAIN lines \ {v})
             /\ Call(Loader, asked(v)) \/ UNCHANGED pages
      BY <2>2
    <3>2. v \in DOMAIN lines \ (DOMAIN lines \ {v})
      OBVIOUS
    <3> QED
      BY <3>1, <3>2
  <2> QED
    BY <2>1, <2>2 DEF HandleMiss
<1>4. DOMAIN lines' = others \cup {a} /\ \A x \in others : lines'[x] = lines[x]
  BY <1>2, <1>3 DEF Filled
<1>5. ~lines'[a].dirty => lines'[a].val = result
  BY <1>3 DEF Filled
<1>6. Contents' = Contents
  <2>1. CASE UNCHANGED pages
    BY <1>1, <2>1, QuietInv DEF pages
  <2>2. CASE \E v \in DOMAIN lines : Call(Loader, asked(v))
    <3>1. PICK v \in DOMAIN lines : Call(Loader, asked(v))
      BY <2>2
    <3>2. UNCHANGED <<heap, ptable, result>>
      BY <3>1 DEF Call
    <3> QED
      BY <1>1, <3>2, QuietInv
  <2> QED
    BY <1>3, <2>1, <2>2
<1>7. \A x \in DOMAIN lines' : Behind(x) /\ (~lines'[x].dirty => lines'[x].val = Byte(x)')
  BY <1>2, <1>4, <1>5, <1>6 DEF Byte
<1>8. ASSUME at'[Loader] # Idle, at'[Loader].request.op = "write"
      PROVE  AddressOf(at'[Loader].request) \notin DOMAIN lines'
  <2>1. ~UNCHANGED pages
    BY <1>1, <1>8 DEF pages
  <2>2. PICK v \in DOMAIN lines \ others : Call(Loader, asked(v))
    BY <1>3, <2>1
  <2>3. at'[Loader].request = asked(v) /\ v \in Nat
    BY <1>1, <2>2 DEF Call, PInv, BufferType
  <2>4. AddressOf(asked(v)) = v
    BY <2>3, Rejoined DEF AddressOf
  <2> QED
    BY <1>2, <1>4, <2>2, <2>3, <2>4
<1>9. part' = part /\ (\A x : Behind(x)' <=> Behind(x)) /\ (\A x : AddressOf(x)' = AddressOf(x))
  BY <1>1 DEF loader, Behind, AddressOf
<1> QED
  BY <1>1, <1>7, <1>8, <1>9 DEF Coherent

\* An access to the cache.
LEMMA CacheCoherent ==
    ASSUME CoherentInv, NEW r \in Accesses, AccessCache(r) PROVE Coherent'
<1> DEFINE a == AddressOf(r)
<1>1. /\ PInv(Loader) /\ BufferType /\ part = "done" /\ ~filling /\ at[Loader] = Idle /\ pc = "run"
      /\ UNCHANGED <<loader, cache>> /\ Behind(a)
      /\ CacheHit(r) \/ CacheWait(r) \/ CacheFill(r)
  BY DEF CoherentInv, StartsInv, MemInv, LoadInv, PartOf, AccessCache, InCycle
<1>2. \A x \in DOMAIN lines : Behind(x) /\ (~lines[x].dirty => lines[x].val = Byte(x))
  BY DEF CoherentInv, Coherent
<1>3. part' = part /\ (\A x : Behind(x)' <=> Behind(x)) /\ (\A x : AddressOf(x)' = AddressOf(x))
  BY <1>1 DEF loader, Behind, AddressOf
<1>4. CASE UNCHANGED <<pages, filling>> /\ (CacheHit(r) \/ UNCHANGED lines)
  <2>1. Contents' = Contents /\ at'[Loader] = Idle
    BY <1>1, <1>4, QuietInv DEF pages
  <2>2. \A x \in DOMAIN lines' : x \in DOMAIN lines /\ (~lines'[x].dirty => lines'[x] = lines[x])
    BY <1>4 DEF CacheHit
  <2>3. \A x \in DOMAIN lines' : Behind(x) /\ (~lines'[x].dirty => lines'[x].val = Byte(x)')
    BY <1>2, <2>1, <2>2 DEF Byte
  <2> QED
    BY <1>1, <1>3, <1>4, <2>1, <2>3 DEF Coherent
<1>5. CASE CacheFill(r)
  <2>1. Call(Loader, Reading(r)) /\ pending' = r /\ lines' = lines /\ a \notin DOMAIN lines
    BY <1>5 DEF CacheFill, Misses, Reading
  <2>2. Contents' = Contents
    <3>1. UNCHANGED <<heap, ptable, result>>
      BY <2>1 DEF Call
    <3> QED
      BY <1>1, <3>1, QuietInv
  <2>3. at'[Loader] # Idle /\ at'[Loader].request = Reading(r)
    BY <1>1, <2>1 DEF Call, PInv, Idle
  <2>4. at'[Loader].request.op = "read" /\ Reading(pending)' = Reading(r)
        /\ AddressOf(pending') = a
    BY <2>1, <2>3 DEF Reading
  <2>5. \A x \in DOMAIN lines' : Behind(x) /\ (~lines'[x].dirty => lines'[x].val = Byte(x)')
    BY <1>2, <2>1, <2>2 DEF Byte
  <2> QED
    BY <1>1, <1>3, <2>1, <2>3, <2>4, <2>5 DEF Coherent
<1> QED
  BY <1>1, <1>4, <1>5 DEF CacheHit, CacheWait

LEMMA StepCoherent == ASSUME CoherentInv, [Step]_vars PROVE CoherentInv'
<1>1. /\ StartsInv' /\ LoadInv /\ PInv(Loader) /\ PartOf /\ PagesStep /\ LoadingEnds /\ Coherent
  BY StepStarts, StepMem DEF CoherentInv, StartsInv, MemInv, LoadInv
<1>2. SUFFICES Coherent'
  BY <1>1 DEF CoherentInv
<1>3. \A x : AddressOf(x)' = AddressOf(x)
  BY DEF AddressOf
<1>4. CASE UNCHANGED <<pages, buffer, cache, seg_start_addr, part>>
  <2>1. Contents' = Contents /\ UNCHANGED <<at, result, lines, filling, pending>>
    BY <1>1, <1>4, QuietInv DEF pages, buffer
  <2>2. (\A x : Behind(x)' <=> Behind(x)) /\ (\A x : Byte(x)' = Byte(x))
    BY <1>4, <2>1 DEF Behind, Byte
  <2> QED
    BY <1>1, <1>3, <1>4, <2>1, <2>2 DEF Coherent, Reading
<1>5. CASE UNCHANGED buffer /\ part # "done"
  <2>1. lines' = <<>> /\ ~filling' /\ DOMAIN lines' = {}
    BY <1>1, <1>5 DEF Coherent, buffer
  <2>2. part' = "done" => at'[Loader] = Idle
    BY <1>1, <1>5 DEF LoadingEnds, pages
  <2> QED
    BY <2>1, <2>2 DEF Coherent
<1>6. CASE Option \/ CheckArgs \/ InitMachine \/ OpenElf
  <2>1. part # "done" /\ UNCHANGED buffer
    BY <1>1, <1>6 DEF Option, CheckArgs, InitMachine, OpenElf, PartOf, machine
  <2> QED
    BY <1>5, <2>1
<1>7. CASE LoadElf
  <2>1. UNCHANGED buffer /\ cache' = cache
    BY <1>7 DEF LoadElf, machine
  <2>2. CASE part = "done"
    <3>1. AccessStep(Loader) /\ UNCHANGED loader
      BY <1>7, <2>2 DEF LoadElf, LoadStep, LoadByte, FileLoaded, MapBss, NextHeader, Sections
    <3> QED
      BY <2>1, <2>2, <3>1, AccessCoherent DEF buffer
  <2> QED
    BY <1>5, <2>1, <2>2
<1>8. CASE AccessPage
  BY <1>1, <1>8, AccessCoherent DEF AccessPage, PartOf, machine, buffer
<1>9. ASSUME NEW r \in Accesses, Access(r) PROVE Coherent'
  <2>1. /\ UNCHANGED <<loader, cache, buffer>> /\ Call(Loader, r) /\ ~filling /\ ~Behind(AddressOf(r))
        /\ part = "done"
    BY <1>1, <1>9 DEF Access, InCycle, PartOf
  <2>2. Contents' = Contents
    <3>1. UNCHANGED <<heap, ptable, result>>
      BY <2>1 DEF Call
    <3> QED
      BY <1>1, <3>1, QuietInv
  <2>3. at'[Loader].request = r
    BY <1>1, <2>1 DEF Call, PInv
  <2>4. AddressOf(r) \notin DOMAIN lines
    BY <1>1, <2>1 DEF Coherent
  <2>5. (\A x : Behind(x)' <=> Behind(x)) /\ (\A x : Byte(x)' = Byte(x)) /\ part' = part
    BY <2>1, <2>2 DEF Behind, Byte, loader
  <2> QED
    BY <1>1, <1>3, <2>1, <2>3, <2>4, <2>5 DEF Coherent, buffer
<1>10. CASE \E r \in Accesses : AccessCache(r)
  BY <1>10, CacheCoherent
<1>11. CASE HandleMiss
  BY <1>11, HandleCoherent
<1> QED
  BY <1>4, <1>6, <1>7, <1>8, <1>9, <1>10, <1>11
     DEF Step, RunElf, Trap, EndCycle, Finalize, PrintPage, NextList, EndLog, vars, machine, loader

-----------------------------------------------------------------------------
(* The walk *)

\* Addresses of pages: the walk over the stack may come to negative ones.
LEMMA PageNumber ==
    ASSUME NEW q \in Int PROVE PageOf(q * PageSize) = q /\ OffsetOf(q * PageSize) = 0
<1>1. \A n \in Nat \ {0} : (q * n) \div n = q /\ (q * n) % n = 0
  OBVIOUS
<1> QED
  BY <1>1, PageAssumption DEF PageOf, OffsetOf

LEMMA StartOfPage ==
    ASSUME NEW a \in Int PROVE PageOf(a) \in Int /\ PageStart(a) = PageOf(a) * PageSize
<1>1. \A n \in Nat \ {0} : a \div n \in Int /\ a - (a % n) = (a \div n) * n
  OBVIOUS
<1> QED
  BY <1>1, PageAssumption DEF PageOf, OffsetOf, PageStart

LEMMA NextPage ==
    ASSUME NEW q \in Int
    PROVE  /\ q * PageSize + PageSize = (q + 1) * PageSize
           /\ q * PageSize - PageSize = (q - 1) * PageSize
<1>1. \A n \in Nat : q * n + n = (q + 1) * n /\ q * n - n = (q - 1) * n
  OBVIOUS
<1> QED
  BY <1>1, PageAssumption

Lists == {"TEXT", "DATA", "HEAP", "STACK"}

\* The entry for an offset in a page.
Entry(q, o) == <<q * PageSize + o, Contents[q][o]>>

\* What is printed is what the pages hold; of these pages it is all that is not zero.
TrueEntries == \A e \in printed : \E q \in Pages, o \in Offsets : e = Entry(q, o)
Upto(p, n) ==
    \A q \in p .. n - 1 :
        Present(q) /\ \A o \in Offsets : Contents[q][o] # Zero => Entry(q, o) \in printed

\* A walk from page p has ended.
Whole(p) == \E n \in Int : p <= n /\ ~Present(n) /\ Upto(p, n)
TextPage == PageOf(seg_start_addr.TEXT)
DataPage == PageOf(seg_start_addr.DATA)

\* The address and the number are of one page, except in the heap, where there is
\* none of that number.
InStep == /\ walk.pnum \in Int
          /\ IF walk.list = "HEAP" THEN ~Present(walk.pnum)
             ELSE walk.addr = walk.pnum * PageSize

Walked ==
    /\ walk.list = "TEXT" => TextPage <= walk.pnum /\ Upto(TextPage, walk.pnum)
    /\ walk.list \in {"DATA", "HEAP", "STACK"} => Whole(TextPage)
    /\ walk.list = "DATA" => DataPage <= walk.pnum /\ Upto(DataPage, walk.pnum)
    /\ walk.list \in {"HEAP", "STACK"} => Whole(DataPage)

WalkInv ==
    /\ walk.list \in Lists \cup {"none"}
    /\ pc \in {"done", "last"} => at[Loader] = Idle /\ ~filling
    /\ walk.list # "none" =>
          /\ at[Loader] = Idle /\ ~filling /\ (pc = "last" \/ (pc = "run" /\ accessed))
          /\ InStep /\ TrueEntries /\ Walked

\* While a checkpoint is written nothing else happens ...
LEMMA WalkOnly ==
    ASSUME WalkInv, walk.list # "none", [Step]_vars
    PROVE  PrintPage \/ NextList \/ EndLog \/ UNCHANGED vars
<1>1. /\ at[Loader] = Idle /\ ~filling /\ pc \in {"run", "last"} /\ (pc = "run" => accessed)
      /\ walk # NoWalk
  BY DEF WalkInv, NoWalk
<1>2. ~AccessStep(Loader)
  BY <1>1 DEF AccessStep, Find, Link, Publish, Use, Idle
<1> QED
  BY <1>1, <1>2 DEF Step, Option, CheckArgs, InitMachine, OpenElf, LoadElf, RunElf, AccessPage,
     HandleMiss, Trap, EndCycle, Finalize, Access, AccessCache, InCycle

\* ... and otherwise one can only be begun.
LEMMA WalkBegins ==
    ASSUME walk.list = "none", [Step]_vars
    PROVE  UNCHANGED log \/ (StartLog /\ (Trap \/ Finalize))
<1>1. CASE Trap \/ Finalize
  BY <1>1 DEF Trap, Finalize, log
<1>2. ~(PrintPage \/ NextList \/ EndLog)
  BY DEF PrintPage, NextList, EndLog, Logging
<1>3. CASE Option \/ CheckArgs \/ InitMachine \/ OpenElf \/ LoadElf \/ RunElf
  BY <1>3 DEF Option, CheckArgs, InitMachine, OpenElf, LoadElf, RunElf, machine
<1>4. CASE AccessPage \/ HandleMiss \/ EndCycle \/ \E r \in Accesses : Access(r) \/ AccessCache(r)
  BY <1>4 DEF AccessPage, HandleMiss, EndCycle, Access, AccessCache, machine
<1> QED
  BY <1>1, <1>2, <1>3, <1>4 DEF Step, vars, machine

\* The checkpoint is what has been printed when the walk ends.
LEMMA Reported ==
    ASSUME [Step]_vars, report' # report
    PROVE  EndLog /\ report'.memory = printed /\ walk.list = "STACK"
<1>1. EndLog
  BY DEF Step, Option, CheckArgs, InitMachine, OpenElf, LoadElf, RunElf, AccessPage, HandleMiss,
     Trap, EndCycle, Finalize, PrintPage, NextList, EndLog, Access, AccessCache, vars
<1> QED
  BY <1>1 DEF EndLog

LEMMA InitWalk == Init => WalkInv
<1> SUFFICES ASSUME Init PROVE WalkInv
  OBVIOUS
<1>1. walk.list = "none" /\ pc = "args"
  BY DEF Init, NoWalk
<1> QED
  BY <1>1 DEF WalkInv

\* A walk begins at the text.
LEMMA StartWalk ==
    ASSUME StartLog, seg_start_addr \in StartAddrs, seg_start_addr' = seg_start_addr
    PROVE  walk'.list = "TEXT" /\ InStep' /\ TrueEntries' /\ Walked'
<1>1. seg_start_addr.TEXT \in Int
  BY DEF StartAddrs
<1>2. /\ walk'.list = "TEXT" /\ walk'.addr = PageStart(seg_start_addr.TEXT)
      /\ walk'.pnum = PageOf(walk'.addr) /\ printed' = {}
  BY DEF StartLog, From
<1>3. TextPage \in Int /\ walk'.addr = TextPage * PageSize /\ walk'.pnum = TextPage
  BY <1>1, <1>2, StartOfPage, PageNumber DEF TextPage
<1>4. TextPage' = TextPage
  BY DEF TextPage, PageOf
<1>5. InStep' /\ TrueEntries'
  BY <1>2, <1>3 DEF InStep, TrueEntries
<1>6. Upto(TextPage, walk.pnum)'
  BY <1>3, <1>4 DEF Upto
<1> QED
  BY <1>2, <1>3, <1>4, <1>5, <1>6 DEF Walked

\* What has been walked stays walked while the pages stay as they are.
LEMMA StillWalked ==
    ASSUME PInv(Loader), UNCHANGED <<pages, seg_start_addr>>, printed \subseteq printed'
    PROVE  /\ Contents' = Contents /\ TextPage' = TextPage /\ DataPage' = DataPage
           /\ \A p : Present(p)' <=> Present(p)
           /\ \A q, o : Entry(q, o)' = Entry(q, o)
           /\ \A p, n : Upto(p, n) => Upto(p, n)'
           /\ \A p : Whole(p) => Whole(p)'
<1>1. Contents' = Contents /\ \A p \in Pages : Lookup(p)' = Lookup(p)
  BY QuietInv DEF pages
<1>2. \A p : Present(p)' <=> Present(p)
  BY <1>1 DEF Present
<1>3. \A q, o : Entry(q, o)' = Entry(q, o)
  BY <1>1 DEF Entry
<1>4. \A p, n : Upto(p, n) => Upto(p, n)'
  BY <1>1, <1>2, <1>3 DEF Upto
<1>5. \A p : Whole(p) => Whole(p)'
  BY <1>2, <1>4 DEF Whole
<1>6. TextPage' = TextPage /\ DataPage' = DataPage
  BY DEF TextPage, DataPage, PageOf
<1> QED
  BY <1>1, <1>2, <1>3, <1>4, <1>5, <1>6

\* A page is printed.
LEMMA PrintWalk ==
    ASSUME PInv(Loader), WalkInv, PrintPage, seg_start_addr \in StartAddrs
    PROVE  WalkInv'
<1> DEFINE q == walk.pnum
<1>1. /\ UNCHANGED <<pages, seg_start_addr, pc, accessed, filling>> /\ Present(q)
      /\ walk.list # "none" /\ walk.list # "HEAP" /\ walk.list \in Lists
      /\ q \in Pages /\ q \in Int /\ walk.addr = q * PageSize
      /\ InStep /\ TrueEntries /\ Walked
  BY DEF PrintPage, Logging, More, Present, WalkInv, InStep, loader, buffer, Lists
<1>2. /\ printed' = printed \cup
             {Entry(q, o) : o \in {x \in Offsets : x >= FirstPrinted /\ Contents[q][x] # Zero}}
  <2>1. heap[Lookup(q)].data = Contents[q]
    BY <1>1 DEF Contents, Present
  <2> QED
    BY <1>1, <2>1 DEF PrintPage, Entry
<1>3. FirstPrinted = 0 /\ \A x \in Offsets : x >= FirstPrinted
  <2>1. FirstPrinted = 0
    BY <1>1, PageNumber DEF FirstPrinted
  <2>2. \A x \in Offsets : x >= 0
    BY PageAssumption
  <2> QED
    BY <2>1, <2>2
<1>4. /\ printed \subseteq printed'
      /\ \A o \in Offsets : Contents[q][o] # Zero => Entry(q, o) \in printed'
  BY <1>2, <1>3
<1>5. /\ Contents' = Contents /\ TextPage' = TextPage /\ DataPage' = DataPage
      /\ \A p : Present(p)' <=> Present(p)
      /\ \A p, o : Entry(p, o)' = Entry(p, o)
      /\ \A p, n : Upto(p, n) => Upto(p, n)'
      /\ \A p : Whole(p) => Whole(p)'
  BY <1>1, <1>4, StillWalked
<1>6. /\ walk'.list = walk.list
      /\ walk.list = "STACK" => walk'.pnum = q - 1 /\ walk'.addr = walk'.pnum * PageSize
      /\ walk.list # "STACK" => walk'.pnum = q + 1 /\ walk'.addr = walk'.pnum * PageSize
  <2>1. walk' = From(walk.list, IF walk.list = "STACK" THEN walk.addr - PageSize
                                                      ELSE walk.addr + PageSize)
    BY DEF PrintPage
  <2>2. CASE walk.list = "STACK"
    <3>1. walk'.addr = (q - 1) * PageSize /\ walk'.pnum = PageOf(walk'.addr) /\ walk'.list = walk.list
      BY <1>1, <2>1, <2>2, NextPage DEF From
    <3>2. q - 1 \in Int
      BY <1>1
    <3>3. PageOf((q - 1) * PageSize) = q - 1
      BY <3>2, PageNumber
    <3> QED
      BY <2>2, <3>1, <3>3
  <2>3. CASE walk.list # "STACK"
    <3>1. walk'.addr = (q + 1) * PageSize /\ walk'.pnum = PageOf(walk'.addr) /\ walk'.list = walk.list
      BY <1>1, <2>1, <2>3, NextPage DEF From
    <3>2. q + 1 \in Int
      BY <1>1
    <3>3. PageOf((q + 1) * PageSize) = q + 1
      BY <3>2, PageNumber
    <3> QED
      BY <2>3, <3>1, <3>3
  <2> QED
    BY <2>2, <2>3
<1>7. InStep'
  <2>1. walk'.pnum \in Int
    BY <1>1, <1>6
  <2> QED
    BY <1>1, <1>6, <2>1 DEF InStep
<1>8. TrueEntries'
  <2>1. ASSUME NEW e \in printed' PROVE \E p \in Pages, o \in Offsets : e = Entry(p, o)
    BY <1>1, <1>2, <2>1 DEF TrueEntries
  <2> QED
    BY <1>5, <2>1 DEF TrueEntries
<1>9. ASSUME NEW p \in Int, p <= q, Upto(p, q), walk.list # "STACK"
      PROVE  p <= walk'.pnum /\ Upto(p, walk.pnum)'
  <2>1. walk'.pnum = q + 1 /\ \A x \in p .. (q + 1) - 1 : x \in p .. q - 1 \/ x = q
    BY <1>1, <1>6, <1>9
  <2>2. \A x \in p .. (q + 1) - 1 :
           Present(x) /\ \A o \in Offsets : Contents[x][o] # Zero => Entry(x, o) \in printed'
    BY <1>1, <1>4, <1>9, <2>1 DEF Upto
  <2>3. p <= q + 1
    BY <1>1, <1>9
  <2> QED
    BY <1>5, <2>1, <2>2, <2>3 DEF Upto
<1>10. TextPage \in Int /\ DataPage \in Int
  BY StartOfPage DEF StartAddrs, TextPage, DataPage
<1>11. Walked'
  BY <1>1, <1>5, <1>6, <1>9, <1>10 DEF Walked
<1> QED
  BY <1>1, <1>6, <1>7, <1>8, <1>11 DEF WalkInv, pages

\* A loop of the walk has come to its end.
LEMMA NextWalk ==
    ASSUME PInv(Loader), WalkInv, NextList, seg_start_addr \in StartAddrs
    PROVE  WalkInv'
<1>1. /\ UNCHANGED <<pages, seg_start_addr, pc, accessed, filling, printed>> /\ ~Present(walk.pnum)
      /\ walk.list \in {"TEXT", "DATA", "HEAP"}
      /\ InStep /\ TrueEntries /\ Walked
  BY DEF NextList, Logging, More, WalkInv, loader, buffer, Lists
<1>2. /\ Contents' = Contents /\ TextPage' = TextPage /\ DataPage' = DataPage
      /\ \A p : Present(p)' <=> Present(p)
      /\ \A p, o : Entry(p, o)' = Entry(p, o)
      /\ \A p, n : Upto(p, n) => Upto(p, n)'
      /\ \A p : Whole(p) => Whole(p)'
  BY <1>1, StillWalked
<1>3. TrueEntries'
  BY <1>1, <1>2 DEF TrueEntries
<1>4. TextPage \in Int /\ DataPage \in Int
      /\ seg_start_addr.DATA \in Int /\ seg_start_addr.STACK - PageSize \in Int
  BY StartOfPage, PageAssumption DEF StartAddrs, TextPage, DataPage
<1>5. ASSUME NEW list, NEW a \in Int, walk' = From(list, PageStart(a))
      PROVE  /\ walk'.list = list /\ walk'.addr = walk'.pnum * PageSize
             /\ walk'.pnum = PageOf(a) /\ walk'.pnum \in Int
  <2>1. PageStart(a) = PageOf(a) * PageSize /\ PageOf(PageOf(a) * PageSize) = PageOf(a)
        /\ PageOf(a) \in Int
    BY StartOfPage, PageNumber
  <2> QED
    BY <1>5, <2>1 DEF From
<1>6. CASE walk.list = "TEXT"
  <2>1. walk' = From("DATA", PageStart(seg_start_addr.DATA))
    BY <1>6 DEF NextList
  <2>2. /\ walk'.list = "DATA" /\ walk'.addr = walk'.pnum * PageSize
        /\ walk'.pnum = DataPage /\ walk'.pnum \in Int
    BY <1>4, <1>5, <2>1 DEF DataPage
  <2>3. Whole(TextPage)
    BY <1>1, <1>6 DEF Walked, Whole, InStep
  <2>4. Upto(DataPage, walk.pnum)' /\ DataPage <= walk'.pnum
    BY <1>2, <1>4, <2>2 DEF Upto
  <2>5. InStep'
    BY <2>2 DEF InStep
  <2>6. Walked'
    BY <1>2, <2>2, <2>3, <2>4 DEF Walked
  <2> QED
    BY <1>1, <1>3, <2>2, <2>5, <2>6 DEF WalkInv, Lists, pages
<1>7. CASE walk.list = "DATA"
  <2>1. walk' = [From("HEAP", seg_start_addr.HEAP) EXCEPT !.pnum = walk.pnum]
    BY <1>7 DEF NextList
  <2>2. walk'.list = "HEAP" /\ walk'.pnum = walk.pnum
    BY <2>1 DEF From
  <2>3. Whole(TextPage) /\ Whole(DataPage)
    BY <1>1, <1>7 DEF Walked, Whole, InStep
  <2>4. InStep'
    BY <1>1, <1>2, <2>2 DEF InStep
  <2>5. Walked'
    BY <1>2, <2>2, <2>3 DEF Walked
  <2> QED
    BY <1>1, <1>3, <2>2, <2>4, <2>5 DEF WalkInv, Lists, pages
<1>8. CASE walk.list = "HEAP"
  <2>1. walk' = From("STACK", PageStart(seg_start_addr.STACK - PageSize))
    BY <1>8 DEF NextList
  <2>2. walk'.list = "STACK" /\ walk'.addr = walk'.pnum * PageSize /\ walk'.pnum \in Int
    BY <1>4, <1>5, <2>1
  <2>3. Whole(TextPage) /\ Whole(DataPage)
    BY <1>1, <1>8 DEF Walked
  <2>4. InStep'
    BY <2>2 DEF InStep
  <2>5. Walked'
    BY <1>2, <2>2, <2>3 DEF Walked
  <2> QED
    BY <1>1, <1>3, <2>2, <2>4, <2>5 DEF WalkInv, Lists, pages
<1> QED
  BY <1>1, <1>6, <1>7, <1>8

LEMMA StepWalk == ASSUME StartsInv, WalkInv, [Step]_vars PROVE WalkInv'
<1>1. PInv(Loader) /\ PartOf /\ seg_start_addr \in StartAddrs
  BY DEF StartsInv, MemInv, LoadInv
<1>2. CASE walk.list # "none"
  <2>1. CASE EndLog
    <3>1. walk'.list = "none" /\ UNCHANGED <<at, filling>> /\ pc' \in {pc, "exit"}
      BY <2>1 DEF EndLog, NoWalk, Exit, pages, buffer
    <3> QED
      BY <3>1 DEF WalkInv
  <2>2. CASE UNCHANGED vars
    <3>1. UNCHANGED <<pages, seg_start_addr, pc, accessed, filling, log>>
      BY <2>2 DEF vars, machine, loader, buffer
    <3>2. /\ Contents' = Contents /\ TextPage' = TextPage /\ DataPage' = DataPage
          /\ \A p : Present(p)' <=> Present(p)
          /\ \A p, o : Entry(p, o)' = Entry(p, o)
          /\ \A p, n : Upto(p, n) => Upto(p, n)'
          /\ \A p : Whole(p) => Whole(p)'
      BY <1>1, <3>1, StillWalked DEF log
    <3>3. InStep' /\ TrueEntries' /\ Walked'
      BY <1>2, <3>1, <3>2 DEF WalkInv, InStep, TrueEntries, Walked, log
    <3> QED
      BY <3>1, <3>3 DEF WalkInv, pages, log
  <2> QED
    BY <1>1, <1>2, <2>1, <2>2, WalkOnly, PrintWalk, NextWalk
<1>3. CASE walk.list = "none" /\ StartLog /\ (Trap \/ Finalize)
  <2>1. /\ UNCHANGED <<pages, seg_start_addr, filling>> /\ at[Loader] = Idle /\ ~filling
        /\ pc' = "last" \/ (pc' = "run" /\ accessed') \/ pc' = "exit"
    BY <1>3 DEF WalkInv, Trap, Finalize, InCycle, Exit, buffer, loader
  <2>2. pc' # "exit"
    BY <1>3 DEF Trap, Finalize, StartLog, From, Exit, InCycle, log
  <2>3. walk'.list = "TEXT" /\ InStep' /\ TrueEntries' /\ Walked'
    BY <1>1, <1>3, <2>1, StartWalk
  <2> QED
    BY <2>1, <2>2, <2>3 DEF WalkInv, Lists, pages
<1>4. CASE walk.list = "none" /\ UNCHANGED log
  <2>1. walk'.list = "none"
    BY <1>4 DEF log
  <2>2. pc' \in {"done", "last"} => at'[Loader] = Idle /\ ~filling'
    <3>1. CASE UNCHANGED <<at, filling, pc>>
      BY <3>1 DEF WalkInv
    <3>2. CASE EndCycle \/ Finalize
      BY <3>2 DEF EndCycle, Finalize, WalkInv, pages, buffer
    <3>3. CASE pc' \notin {"done", "last"}
      BY <3>3
    <3> QED
      BY <1>4, <3>1, <3>2, <3>3 DEF Step, Option, OpenFor, Set, CheckArgs, InitMachine, OpenElf, LoadElf,
         RunElf, AccessPage, HandleMiss, Trap, PrintPage, NextList, EndLog, Logging, Access,
         AccessCache, InCycle, Exit, vars, machine, pages, buffer
  <2> QED
    BY <2>1, <2>2 DEF WalkInv
<1> QED
  BY <1>2, <1>3, <1>4, WalkBegins

\* What an entry says is what the pages hold.
LEMMA EntryByte ==
    ASSUME NEW q \in Pages, NEW o \in Offsets
    PROVE  Entry(q, o)[1] = q * PageSize + o /\ Entry(q, o)[2] = Byte(Entry(q, o)[1])
<1>1. Entry(q, o)[1] = q * PageSize + o /\ Entry(q, o)[2] = Contents[q][o]
  BY DEF Entry
<1>2. q \in Nat
  BY PageAssumption
<1>3. PageOf(q * PageSize + o) = q /\ OffsetOf(q * PageSize + o) = o
  BY <1>2, PageAndOffset
<1> QED
  BY <1>1, <1>3 DEF Byte

\* log_machine_state keeps the address and the page number apart, and starts the
\* loop over the heap with the number the loop over the data has left: what it
\* prints under an address is nevertheless what a load of the guest would find
\* there, or, below a dirty line, what the pages hold (machine.c:99-182,
\* mem.c:187-247).
THEOREM CheckpointIsTrue == Lifecycle => CheckpointTrue
<1>1. ASSUME CoherentInv, WalkInv, [Step]_vars
      PROVE  report' # report =>
                \A e \in report'.memory : e[2] = IF Stale(e[1]) THEN Byte(e[1]) ELSE Holds(e[1])
  <2> SUFFICES ASSUME report' # report, NEW e \in report'.memory
               PROVE  e[2] = IF Stale(e[1]) THEN Byte(e[1]) ELSE Holds(e[1])
    OBVIOUS
  <2>1. e \in printed /\ TrueEntries
    BY <1>1, Reported DEF WalkInv
  <2>2. e[2] = Byte(e[1])
    BY <2>1, EntryByte DEF TrueEntries
  <2>3. ~Stale(e[1]) => Holds(e[1]) = Byte(e[1])
    BY <1>1 DEF CoherentInv, Coherent, Stale, Holds
  <2> QED
    BY <2>2, <2>3
<1>2. CoherentInv /\ WalkInv /\ [Step]_vars => CoherentInv' /\ WalkInv'
  BY StepCoherent, StepWalk DEF CoherentInv
<1> QED
  BY <1>1, <1>2, InitCoherent, InitWalk, PTL DEF Lifecycle, CheckpointTrue

-----------------------------------------------------------------------------
(* The pages of a segment *)

\* The page is there, or what is waited for will add it.
Here(p) == p \in Mapped \/ (at[Loader] # Idle /\ at[Loader].request.num = p)

\* The bytes of the bss that room has been asked for, from where the loader starts.
BssAsked(i, k) == i < header \/ (i = header /\ part = "bss" /\ k < j)
BssStart(ph) == ph.vaddr + (ph.filesz + (PageSize - ((ph.filesz + ph.vaddr) % PageSize)))

\* The loader touches the pages of all the bytes it copies, also of those past
\* the end of the segment, and of the bss from the next page on.
Touched ==
    \A i \in DOMAIN image.headers : LET ph == image.headers[i] IN ph.load =>
        /\ \A k \in 0 .. ph.filesz + (ph.vaddr % PageSize) - 1 :
              Requested(i, k) => Here(PageOf(ph.vaddr + k))
        /\ \A k \in 0 .. ph.memsz - ph.filesz - 1 :
              BssAsked(i, k) => Here(PageOf(BssStart(ph) + k))

TouchInv ==
    /\ StartsInv
    /\ part # "off" => Touched
    /\ part = "done" => header > Len(image.headers)

LEMMA InitTouch == Init => TouchInv
BY InitStarts DEF Init, NotLoaded, TouchInv

\* Whatever is done with the pages, they stay there.
LEMMA HereStays ==
    ASSUME PInv(Loader), PagesStep, NEW p, Here(p) PROVE Here(p)'
<1>1. Mapped \subseteq Mapped'
  BY PagesKept
<1>2. CASE p \in Mapped
  BY <1>1, <1>2 DEF Here
<1>3. CASE at[Loader] # Idle /\ at[Loader].request.num = p
  <2>1. CASE UNCHANGED pages
    BY <1>3, <2>1 DEF Here, pages
  <2>2. CASE \E r \in Request : Call(Loader, r)
    BY <1>3, <2>2 DEF Call
  <2>3. CASE AccessStep(Loader)
    <3>1. /\ at[Loader].request \in Request
          /\ \/ at'[Loader] # Idle /\ at'[Loader].request = at[Loader].request
             \/ Lookup(p) # Null
      BY <1>3, <2>3, AccessDoes
    <3>2. p \in Pages
      BY <1>3, <3>1 DEF Request
    <3>3. Lookup(p) # Null => p \in Mapped
      BY <3>2 DEF Mapped
    <3> QED
      BY <1>1, <1>3, <3>1, <3>3 DEF Here
  <2> QED
    BY <2>1, <2>2, <2>3 DEF PagesStep
<1> QED
  BY <1>2, <1>3 DEF Here

\* Here(p) after a step, wherever the page comes from.
HereNext(p) == p \in Mapped' \/ (at'[Loader] # Idle /\ at'[Loader].request.num = p)

LEMMA TouchKept ==
    ASSUME PInv(Loader), PagesStep, Touched, image' = image,
           \A i \in DOMAIN image.headers : LET ph == image.headers[i] IN ph.load =>
              /\ \A k \in 0 .. ph.filesz + (ph.vaddr % PageSize) - 1 :
                    Requested(i, k)' => Requested(i, k) \/ HereNext(PageOf(ph.vaddr + k))
              /\ \A k \in 0 .. ph.memsz - ph.filesz - 1 :
                    BssAsked(i, k)' => BssAsked(i, k) \/ HereNext(PageOf(BssStart(ph) + k))
    PROVE  Touched'
<1>1. \A p : Here(p) => HereNext(p)
  BY HereStays DEF Here, HereNext, Mapped
<1>2. \A i \in DOMAIN image.headers : LET ph == image.headers[i] IN ph.load =>
         /\ \A k \in 0 .. ph.filesz + (ph.vaddr % PageSize) - 1 :
               Requested(i, k)' => HereNext(PageOf(ph.vaddr + k))
         /\ \A k \in 0 .. ph.memsz - ph.filesz - 1 :
               BssAsked(i, k)' => HereNext(PageOf(BssStart(ph) + k))
  BY <1>1 DEF Touched
<1> QED
  BY <1>2 DEF Touched, Here, HereNext, PageOf, BssStart

\* A step of the loader asks for one byte, or it goes on because there is none
\* left to ask for.
LEMMA LoadTouches == ASSUME TouchInv, LoadElf, part # "off" PROVE Touched'
<1>1. /\ PInv(Loader) /\ header \in Nat \ {0} /\ j \in Nat /\ WellFormed(image) /\ Touched
      /\ DOMAIN image.headers = 1 .. Len(image.headers) /\ Len(image.headers) \in Nat
      /\ part = "bss" => header <= Len(image.headers) /\ Ph.load
      /\ LoadInv /\ PagesStep
  BY HeadersAre, LoadStepInv DEF TouchInv, StartsInv, MemInv, LoadInv
<1>2. ASSUME NEW i \in DOMAIN image.headers, image.headers[i].load
      PROVE  /\ image.headers[i].vaddr \in Nat /\ image.headers[i].filesz \in Nat
             /\ image.headers[i].memsz \in Nat
             /\ image.headers[i].filesz <= image.headers[i].memsz
             /\ image.headers[i].vaddr % PageSize \in Nat
  <2>1. /\ image.headers[i].vaddr \in Nat /\ image.headers[i].filesz \in Nat
        /\ image.headers[i].memsz \in Nat /\ image.headers[i].filesz <= image.headers[i].memsz
    BY <1>1, <1>2, SegmentIs
  <2> QED
    BY <2>1, PageAssumption
<1>3. CASE LoadByte
  <2>1. /\ image' = image /\ part = "file" /\ part' = "file" /\ header' = header /\ j' = j + 1
        /\ Call(Loader, FileByte(Ph, j))
    BY <1>1, <1>3, LoadByteAsks DEF LoadByte
  <2>2. at'[Loader] # Idle /\ at'[Loader].request.num = PageOf(Ph.vaddr + j)
    BY <1>1, <2>1 DEF Call, PInv, Idle, FileByte
  <2>3. HereNext(PageOf(Ph.vaddr + j))
    BY <2>2 DEF HereNext
  <2>4. ASSUME NEW i \in DOMAIN image.headers, NEW k \in Nat
        PROVE  /\ Requested(i, k)' => Requested(i, k) \/ (i = header /\ k = j)
               /\ BssAsked(i, k)' => BssAsked(i, k)
    BY <1>1, <2>1 DEF Requested, BssAsked
  <2>5. \A i \in DOMAIN image.headers, k \in Nat :
           Requested(i, k)' => Requested(i, k) \/ HereNext(PageOf(image.headers[i].vaddr + k))
    BY <2>3, <2>4 DEF Ph
  <2> QED
    BY <1>1, <2>1, <2>4, <2>5, TouchKept
<1>4. CASE MapBss
  <2>1. /\ image' = image /\ part = "bss" /\ part' = "bss" /\ header' = header /\ j' = j + 1
        /\ at[Loader] = Idle /\ at'[Loader] # Idle
        /\ at'[Loader].request.num = PageOf(Ph.vaddr + FAlign + j)
    BY <1>1, <1>4 DEF MapBss, Call, PInv, Idle
  <2>2. header \in DOMAIN image.headers /\ Ph = image.headers[header] /\ Ph.load
    BY <1>1, <2>1 DEF Ph
  <2>3. Ph.vaddr + FAlign + j = BssStart(Ph) + j
    <3>1. Ph.vaddr \in Nat /\ Ph.filesz \in Nat /\ (Ph.filesz + Ph.vaddr) % PageSize \in Nat
          /\ PageSize \in Nat
      <4>1. Ph.vaddr \in Nat /\ Ph.filesz \in Nat
        BY <1>2, <2>2
      <4> QED
        BY <4>1, PageAssumption
    <3> QED
      BY <1>1, <3>1 DEF FAlign, BssStart
  <2>4. HereNext(PageOf(BssStart(Ph) + j))
    BY <2>1, <2>3 DEF HereNext
  <2>5. ASSUME NEW i \in DOMAIN image.headers, NEW k \in Nat
        PROVE  /\ Requested(i, k)' => Requested(i, k)
               /\ BssAsked(i, k)' => BssAsked(i, k) \/ (i = header /\ k = j)
    BY <1>1, <2>1 DEF Requested, BssAsked
  <2>6. \A i \in DOMAIN image.headers, k \in Nat :
           BssAsked(i, k)' => BssAsked(i, k) \/ HereNext(PageOf(BssStart(image.headers[i]) + k))
    BY <2>2, <2>4, <2>5
  <2> QED
    BY <1>1, <2>1, <2>5, <2>6, TouchKept
<1>5. CASE FileLoaded
  <2>1. /\ image' = image /\ part = "file" /\ part' = "bss" /\ header' = header /\ j' = 0
        /\ header \in DOMAIN image.headers /\ Ph.load /\ j >= Copied
    BY <1>1, <1>5 DEF FileLoaded, Goto
  <2>2. ASSUME NEW i \in DOMAIN image.headers, image.headers[i].load,
               NEW k \in 0 .. image.headers[i].filesz + (image.headers[i].vaddr % PageSize) - 1,
               Requested(i, k)'
        PROVE  Requested(i, k)
    <3>1. i < header \/ i = header
      BY <1>1, <2>1, <2>2 DEF Requested
    <3>2. i = header => k < j
      BY <1>1, <1>2, <2>1, <2>2 DEF Copied, VAlign, Ph
    <3> QED
      BY <3>1, <3>2 DEF Requested
  <2>3. \A i \in DOMAIN image.headers, k \in Nat : BssAsked(i, k)' => BssAsked(i, k)
    BY <1>1, <2>1 DEF BssAsked
  <2> QED
    BY <1>1, <2>1, <2>2, <2>3, TouchKept
<1>6. CASE NextHeader
  <2>1. /\ image' = image /\ part' = "file" /\ header' = header + 1 /\ j' = 0
        /\ (part = "bss" /\ j = Cleared) \/ (header <= Len(image.headers) /\ ~Ph.load)
    BY <1>6 DEF NextHeader, Goto
  <2>2. ASSUME NEW i \in DOMAIN image.headers, image.headers[i].load, NEW k \in Nat,
               Requested(i, k)' \/ BssAsked(i, k)'
        PROVE  i < header \/ (i = header /\ part = "bss" /\ j = Cleared)
    <3>1. i < header + 1
      BY <1>1, <2>1, <2>2 DEF Requested, BssAsked
    <3>2. i = header => part = "bss" /\ j = Cleared
      BY <2>1, <2>2 DEF Ph
    <3> QED
      BY <1>1, <3>1, <3>2
  <2>3. \A i \in DOMAIN image.headers : image.headers[i].load =>
           \A k \in Nat : Requested(i, k)' => Requested(i, k)
    BY <2>2 DEF Requested
  <2>4. ASSUME NEW i \in DOMAIN image.headers, image.headers[i].load,
               NEW k \in 0 .. image.headers[i].memsz - image.headers[i].filesz - 1, BssAsked(i, k)'
        PROVE  BssAsked(i, k)
    <3>1. i = header /\ j = Cleared => k < j
      BY <1>2, <2>4 DEF Cleared, Ph
    <3>2. k \in Nat
      BY <1>2, <2>4
    <3> QED
      BY <2>2, <2>4, <3>1, <3>2 DEF BssAsked
  <2> QED
    BY <1>1, <2>1, <2>3, <2>4, TouchKept
<1>7. CASE Sections
  <2>1. image' = image /\ header' = header /\ header > Len(image.headers)
    BY <1>7 DEF Sections
  <2>2. \A i \in DOMAIN image.headers : \A k : Requested(i, k) /\ BssAsked(i, k)
    BY <1>1, <2>1 DEF Requested, BssAsked
  <2> QED
    BY <1>1, <2>1, <2>2, TouchKept
<1>8. CASE AccessStep(Loader) /\ UNCHANGED loader
  BY <1>1, <1>8, TouchKept DEF loader, Requested, BssAsked
<1> QED
  BY <1>3, <1>4, <1>5, <1>6, <1>7, <1>8 DEF LoadElf, LoadStep

LEMMA StepTouch == ASSUME TouchInv, [Step]_vars PROVE TouchInv'
<1>1. /\ StartsInv' /\ PInv(Loader) /\ PartOf /\ PagesStep /\ header \in Nat \ {0} /\ j \in Nat
      /\ LoadingEnds
  BY StepStarts, StepMem DEF TouchInv, StartsInv, MemInv, LoadInv
<1>2. CASE UNCHANGED loader
  <2>1. part # "off" => Touched'
    BY <1>1, <1>2, TouchKept DEF TouchInv, loader, Requested, BssAsked
  <2> QED
    BY <1>1, <1>2, <2>1 DEF TouchInv, loader
<1>3. CASE OpenElf /\ opts.i \in DOMAIN Files
  <2>1. part' = "file" /\ header' = 1 /\ j' = 0 /\ image' = Files[opts.i]
    BY <1>1, <1>3 DEF OpenElf, PartOf
  <2>2. \A i \in Nat \ {0}, k \in Nat : ~Requested(i, k)' /\ ~BssAsked(i, k)'
    BY <2>1 DEF Requested, BssAsked
  <2>3. DOMAIN image'.headers \subseteq Nat \ {0}
    BY <1>3, <2>1, FileAssumption DEF WellFormed
  <2>4. Touched'
    BY <2>2, <2>3 DEF Touched
  <2> QED
    BY <1>1, <2>1, <2>4 DEF TouchInv
<1>4. CASE LoadElf
  <2>1. part # "off"
    BY <1>4 DEF LoadElf, LoadStep, LoadByte, FileLoaded, MapBss, NextHeader, Sections
  <2>2. Touched'
    BY <1>4, <2>1, LoadTouches
  <2>3. part' = "done" => header' > Len(image'.headers)
    BY <1>4 DEF TouchInv, LoadElf, LoadStep, LoadByte, FileLoaded, MapBss, NextHeader, Sections,
                Goto, loader
  <2> QED
    BY <1>1, <2>2, <2>3 DEF TouchInv
<1> QED
  BY <1>2, <1>3, <1>4 DEF Step, Option, CheckArgs, InitMachine, OpenElf, RunElf, AccessPage,
     AccessCache, HandleMiss, Trap, EndCycle, Finalize, PrintPage, NextList, EndLog, Access,
     vars, loader

\* The address within a page.
LEMMA SamePage ==
    ASSUME NEW q \in Nat, NEW a \in Nat, q * PageSize <= a, a < q * PageSize + PageSize
    PROVE  PageOf(a) = q
<1>1. q * PageSize \in Nat /\ PageSize \in Nat
  <2>1. \A x, y \in Nat : x * y \in Nat
    OBVIOUS
  <2> QED
    BY <2>1, PageAssumption
<1>2. a - q * PageSize \in Offsets /\ q * PageSize + (a - q * PageSize) = a
  BY <1>1, PageAssumption
<1> QED
  BY <1>2, PageAndOffset

LEMMA Divided ==
    ASSUME NEW a \in Nat
    PROVE  /\ PageOf(a) \in Nat /\ PageOf(a) * PageSize \in Nat /\ PageSize \in Nat \ {0}
           /\ a % PageSize \in 0 .. PageSize - 1 /\ PageOf(a) * PageSize + (a % PageSize) = a
<1>1. \A d \in Nat \ {0} :
         /\ a \div d \in Nat /\ (a \div d) * d \in Nat
         /\ a % d \in 0 .. d - 1 /\ (a \div d) * d + (a % d) = a
  OBVIOUS
<1> QED
  BY <1>1, PageAssumption DEF PageOf

\* Loading is over: the pages of a segment without a hole are there.  Between the
\* end of the file's part and the page the bss starts from is what is copied too
\* far, or the rest of a page that has bytes of the file.
LEMMA SegmentPresent ==
    ASSUME TouchInv, part = "done", at[Loader] = Idle, NEW h \in DOMAIN image.headers,
           image.headers[h].load, ~Hole(image.headers[h]),
           NEW b \in image.headers[h].vaddr ..
                     image.headers[h].vaddr + image.headers[h].memsz - 1
    PROVE  Present(PageOf(b))
<1> DEFINE ph == image.headers[h]
           n == PageSize
<1>1. /\ ph.vaddr \in Nat /\ ph.filesz \in Nat /\ ph.memsz \in Nat /\ ph.filesz <= ph.memsz
      /\ Touched /\ header > Len(image.headers) /\ h \in Nat /\ h < header
  BY HeadersAre, SegmentIs DEF TouchInv, StartsInv, MemInv, LoadInv
<1>2. PICK v \in Nat, f \in Nat, m \in Nat : v = ph.vaddr /\ f = ph.filesz /\ m = ph.memsz
  BY <1>1
<1>3. PICK q \in Nat, Q \in Nat, r \in 0 .. n - 1, V \in 0 .. n - 1 :
         /\ q = PageOf(v + f) /\ Q = q * n /\ r = (v + f) % n /\ V = v % n /\ Q + r = v + f
  <2>1. PICK x \in Nat : x = v + f
    BY <1>2
  <2>2. /\ PageOf(x) \in Nat /\ PageOf(x) * n \in Nat
        /\ x % n \in 0 .. n - 1 /\ PageOf(x) * n + (x % n) = x /\ v % n \in 0 .. n - 1
    BY Divided
  <2> QED
    BY <2>1, <2>2
<1>4. /\ \A k \in 0 .. f + V - 1 : PageOf(v + k) \in Mapped
      /\ \A k \in 0 .. m - f - 1 : PageOf(BssStart(ph) + k) \in Mapped
  <2>1. \A k : Requested(h, k) /\ BssAsked(h, k)
    BY <1>1 DEF Requested, BssAsked
  <2> QED
    BY <1>1, <1>2, <1>3, <2>1 DEF Touched, Here
<1>5. BssStart(ph) = v + f + (n - r)
  <2>1. f + v = v + f
    OBVIOUS
  <2>2. (f + v) % n = r
    BY <1>3, <2>1
  <2> QED
    BY <1>2, <2>2, PageAssumption DEF BssStart
<1>6. b \in Nat /\ v <= b /\ b < v + m /\ f <= m /\ n \in Nat \ {0}
  BY <1>1, <1>2, PageAssumption
<1>7. \A a \in Nat : Q <= a /\ a < Q + n => PageOf(a) = q
  BY <1>3, SamePage
<1>8. PageOf(b) \in Mapped
  <2>1. CASE b < v + f
    <3>1. b - v \in 0 .. f + V - 1 /\ v + (b - v) = b
      BY <1>6, <2>1
    <3> QED
      BY <1>4, <3>1
  <2>2. CASE b >= v + f + (n - r)
    <3>1. b - (v + f + (n - r)) \in 0 .. m - f - 1
      BY <1>6, <2>2
    <3>2. v + f + (n - r) + (b - (v + f + (n - r))) = b
      BY <1>6
    <3> QED
      BY <1>4, <1>5, <3>1, <3>2
  <2>3. CASE b >= v + f /\ b < v + f + (n - r)
    <3>1. PageOf(b) = q
      <4>1. Q + r = v + f
        BY <1>3
      <4>2. Q <= b /\ b < Q + n
        BY <1>6, <2>3, <4>1
      <4> QED
        BY <1>6, <1>7, <4>2
    <3>2. CASE V > 0
      <4>1. f \in 0 .. f + V - 1
        BY <3>2
      <4> QED
        BY <1>3, <1>4, <3>1, <4>1
    <3>3. CASE V = 0
      <4>1. m > f
        BY <1>6, <2>3
      <4>2. f % n # 0
        BY <1>2, <1>3, <3>3, <4>1 DEF Hole
      <4>3. f > 0
        <5>1. \A d \in Nat \ {0} : 0 % d = 0
          OBVIOUS
        <5> QED
          BY <1>6, <4>2, <5>1
      <4>4. r # 0
        <5>1. PICK A \in Nat : v = A * n
          BY <1>3, <3>3, Divided
        <5>2. PICK B \in Nat, o \in Offsets : f = B * n + o /\ o = f % n
          BY Divided, PageAssumption
        <5>3. \A d, a, c, e \in Nat : a * d + (c * d + e) = (a + c) * d + e
          OBVIOUS
        <5>4. n \in Nat /\ o \in Nat
          BY <1>6, PageAssumption
        <5>5. PICK C \in Nat : C = A + B
          OBVIOUS
        <5>6. v + f = C * n + o
          BY <5>1, <5>2, <5>3, <5>4, <5>5
        <5>7. OffsetOf(C * n + o) = o
          BY PageAndOffset
        <5> QED
          BY <1>3, <4>2, <5>2, <5>6, <5>7 DEF OffsetOf
      <4>5. PageOf(v + (f - 1)) = q
        <5>1. Q + r = v + f
          BY <1>3
        <5>2. Q <= v + (f - 1) /\ v + (f - 1) < Q + n /\ v + (f - 1) \in Nat
          BY <1>6, <4>3, <4>4, <5>1
        <5> QED
          BY <1>7, <5>2
      <4>6. f - 1 \in 0 .. f + V - 1
        BY <4>3
      <4> QED
        BY <1>4, <3>1, <4>5, <4>6
    <3> QED
      BY <3>2, <3>3
  <2> QED
    BY <1>6, <2>1, <2>2, <2>3
<1> QED
  BY <1>8 DEF Mapped, Present

\* The pages between two addresses of a segment.
LEMMA Between ==
    ASSUME TouchInv, part = "done", at[Loader] = Idle, NEW h \in DOMAIN image.headers,
           image.headers[h].load, ~Hole(image.headers[h]),
           NEW s \in Nat, NEW a \in Nat, image.headers[h].vaddr <= s, s <= a,
           a < image.headers[h].vaddr + image.headers[h].memsz
    PROVE  /\ PageOf(s) <= PageOf(a)
           /\ \A r \in PageOf(s) .. PageOf(a) : Present(r)
<1> DEFINE ph == image.headers[h]
           n == PageSize
           p == PageOf(s)
           q == PageOf(a)
<1>1. ph.vaddr \in Nat /\ ph.memsz \in Nat
  BY SegmentIs DEF TouchInv, StartsInv, MemInv, LoadInv
<1>2. /\ n \in Nat \ {0} /\ p \in Nat /\ q \in Nat
      /\ OffsetOf(s) \in 0 .. n - 1 /\ OffsetOf(a) \in 0 .. n - 1
      /\ s = n * p + OffsetOf(s) /\ a = n * q + OffsetOf(a)
  <2>1. /\ n \in Nat \ {0} /\ p \in Nat /\ q \in Nat
        /\ s % n \in 0 .. n - 1 /\ a % n \in 0 .. n - 1
        /\ s = p * n + (s % n) /\ a = q * n + (a % n)
    BY Divided
  <2>2. p * n = n * p /\ q * n = n * q
    BY <2>1
  <2> QED
    BY <2>1, <2>2 DEF OffsetOf
<1>3. \A b \in ph.vaddr .. a : Present(PageOf(b))
  <2> SUFFICES ASSUME NEW b \in ph.vaddr .. a PROVE Present(PageOf(b))
    OBVIOUS
  <2>1. b \in ph.vaddr .. ph.vaddr + ph.memsz - 1
    BY <1>1
  <2> QED
    BY <2>1, SegmentPresent
<1>4. \A x, y \in Nat : x < y => n * x + n <= n * y
  BY <1>2
<1>5. p <= q
  <2> SUFFICES ASSUME q < p PROVE FALSE
    BY <1>2
  <2>1. n * q + n <= n * p /\ n * p \in Nat /\ n * q \in Nat
    BY <1>2, <1>4
  <2> QED
    BY <1>2, <2>1
<1>6. ASSUME NEW r \in p .. q PROVE Present(r)
  <2>1. CASE r = p
    BY <1>1, <1>3, <2>1
  <2>2. CASE r # p
    <3>1. r \in Nat /\ p < r /\ r <= q
      <4>1. p \in Nat /\ q \in Nat
        BY <1>2
      <4> HIDE DEF p, q
      <4> QED
        BY <2>2, <4>1
    <3>2. n * p + n <= n * r /\ n * r <= n * q /\ n * p \in Nat /\ n * r \in Nat /\ n * q \in Nat
      <4>1. n * p \in Nat /\ n * r \in Nat /\ n * q \in Nat
        BY <1>2, <3>1
      <4>2. n * p + n <= n * r
        BY <1>2, <1>4, <3>1
      <4>3. r < q => n * r + n <= n * q
        BY <1>2, <1>4, <3>1
      <4>4. r = q \/ r < q
        <5>1. q \in Nat
          BY <1>2
        <5> HIDE DEF q
        <5> QED
          BY <3>1, <5>1
      <4>5. n \in Nat
        BY <1>2
      <4> HIDE DEF p, q
      <4> QED
        BY <4>1, <4>2, <4>3, <4>4, <4>5
    <3>3. n * r \in ph.vaddr .. a
      BY <1>1, <1>2, <3>2
    <3>4. PageOf(n * r) = r
      <4>1. r * PageSize = n * r
        BY <1>2, <3>1
      <4> QED
        BY <3>1, <4>1, PageNumber
    <3> QED
      BY <1>3, <3>3, <3>4
  <2> QED
    BY <2>1, <2>2
<1> QED
  BY <1>5, <1>6

\* ... and from .text and from .data on nothing of a loaded segment is left out
\* that is not zero and not below a dirty line, unless the loader has left a hole
\* before its bss (elf_loader.c:66-92, machine.c:112-149).
THEOREM CheckpointIsComplete == Lifecycle => CheckpointShowsSegments
<1>1. ASSUME CoherentInv, WalkInv, TouchInv, [Step]_vars, report' # report,
             NEW ph \in Loadable, NEW a \in ph.vaddr .. ph.vaddr + ph.memsz - 1,
             ~Hole(ph), ~Stale(a), Holds(a) # Zero,
             NEW s \in {seg_start_addr.TEXT, seg_start_addr.DATA}, ph.vaddr <= s, s <= a
      PROVE  <<a, Holds(a)>> \in report'.memory
  <2>1. /\ report'.memory = printed /\ walk.list = "STACK" /\ at[Loader] = Idle
        /\ part = "done" /\ Whole(TextPage) /\ Whole(DataPage)
    BY <1>1, Reported DEF WalkInv, Walked, CoherentInv, StartsInv, MemInv, LoadInv, PartOf
  <2>2. PICK h \in DOMAIN image.headers : ph = image.headers[h] /\ ph.load
    BY DEF Loadable
  <2>3. ph.vaddr \in Nat /\ ph.memsz \in Nat /\ s \in Nat
    BY <1>1, <2>2, SegmentIs DEF TouchInv, StartsInv, StartAddrs, MemInv, LoadInv
  <2>4. a \in Nat /\ a < ph.vaddr + ph.memsz
    BY <2>3
  <2> DEFINE q == PageOf(a)
             o == OffsetOf(a)
             p == PageOf(s)
  <2>5. p <= q /\ (\A r \in p .. q : Present(r))
    BY <1>1, <2>1, <2>2, <2>3, <2>4, Between
  <2>6. q \in Nat /\ o \in Offsets /\ p \in Nat
    BY <2>3, <2>4, Places
  <2>7. PICK n \in Int : p <= n /\ ~Present(n) /\ Upto(p, n)
    BY <2>1 DEF Whole, TextPage, DataPage
  <2>8. q \in p .. n - 1
    BY <2>5, <2>6, <2>7
  <2>9. Holds(a) = Byte(a) /\ Byte(a) = Contents[q][o]
    BY <1>1 DEF CoherentInv, Coherent, Stale, Holds, Byte
  <2>10. Entry(q, o) \in printed
    BY <1>1, <2>6, <2>7, <2>8, <2>9 DEF Upto
  <2>11. Entry(q, o) = <<a, Holds(a)>>
    BY <2>4, <2>9, Rejoined DEF Entry
  <2> QED
    BY <2>1, <2>10, <2>11
<1>2. CoherentInv /\ WalkInv /\ TouchInv /\ [Step]_vars => CoherentInv' /\ WalkInv' /\ TouchInv'
  BY StepCoherent, StepWalk, StepTouch DEF CoherentInv
<1>3. ASSUME CoherentInv, WalkInv, TouchInv, [Step]_vars
      PROVE  report' # report =>
                \A ph \in Loadable : \A a \in ph.vaddr .. ph.vaddr + ph.memsz - 1 :
                    /\ ~Hole(ph) /\ ~Stale(a) /\ Holds(a) # Zero
                    /\ \E s \in {seg_start_addr.TEXT, seg_start_addr.DATA} :
                          ph.vaddr <= s /\ s <= a
                    => <<a, Holds(a)>> \in report'.memory
  BY <1>1, <1>3
<1> QED
  BY <1>2, <1>3, InitCoherent, InitWalk, InitTouch, PTL DEF Lifecycle, CheckpointShowsSegments
=============================================================================
