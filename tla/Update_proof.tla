---------------------------- MODULE Update_proof ----------------------------
(***************************************************************************)
(* Proofs about updates, for any number of windows, private or not, and    *)
(* any number of builds deployed at any moments: a tap on the update       *)
(* button never lands on an older build, and an open page is not handed to *)
(* a build nobody asked for.                                               *)
(***************************************************************************)
EXTENDS Update, TLAPS

(* Builds only grow: whatever is installed, parked or active came from the    *)
(* origin, and what comes later is not older.                                 *)
Slots ==
  /\ origin \in Build
  /\ installing \in 0..origin /\ waiting \in 0..origin /\ active \in 0..origin
  /\ installing # 0 => waiting <= installing /\ active <= installing
  /\ waiting # 0 => active <= waiting

(* What a window waits for is not newer than what may take over, and what it  *)
(* was handed over for is not newer than what it will be served.              *)
Handover ==
  \A t \in Tab :
    /\ asked[t] <= origin /\ due[t] <= origin
    /\ installing # 0 => asked[t] <= installing /\ due[t] <= installing
    /\ waiting # 0 => asked[t] <= waiting /\ due[t] <= waiting
    /\ active # 0 => due[t] <= active
    /\ phase[t] \notin {"closed", "reloading"} => page[t] # 0 /\ due[t] <= page[t]

IInv == TypeOK /\ Slots /\ Handover

LEMMA InitIInv == Init => IInv
<1>. SUFFICES ASSUME Init PROVE IInv
  OBVIOUS
<1>. USE UpdateAssumption DEF Init
<1>1. TypeOK
  <2>1. 1 \in Build /\ 0 \in 0..Builds /\ NoCache \in [page : 0..Builds, core : 0..Builds]
    BY DEF Build, NoCache
  <2>. QED
    BY <2>1 DEF TypeOK, Phase
<1>2. Slots /\ Handover
  BY DEF Slots, Handover, Build
<1>. QED
  BY <1>1, <1>2 DEF IInv

(* What the cache holds are builds. *)
LEMMA Entries ==
  ASSUME TypeOK, Slots
  PROVE  /\ Builds \in Nat \ {0} /\ origin \in 1..Builds
         /\ installing \in 0..Builds /\ waiting \in 0..Builds /\ active \in 0..Builds
         /\ OriginCore \in 0..Builds
         /\ \A w \in 0..Builds : PageServed(w) \in 1..Builds
         /\ \A w \in 0..Builds, v \in 1..Builds : CoreServed(w, v) \in 0..Builds
         /\ NoCache \in [page : 0..Builds, core : 0..Builds]
<1>1. Builds \in Nat \ {0} /\ origin \in 1..Builds
  BY UpdateAssumption DEF TypeOK, Build
<1>2. OriginCore \in 0..Builds /\ installing \in 0..Builds /\ waiting \in 0..Builds /\ active \in 0..Builds
  BY <1>1 DEF OriginCore, TypeOK
<1>3. ASSUME NEW w \in 0..Builds PROVE PageServed(w) \in 1..Builds
  BY <1>1, <1>3 DEF PageServed
<1>4. ASSUME NEW w \in 0..Builds, NEW v \in 1..Builds PROVE CoreServed(w, v) \in 0..Builds
  <2>1. CASE w = v /\ cache[w] # NoCache
    BY <1>1, <1>4, <2>1 DEF CoreServed, TypeOK, Build
  <2>2. CASE ~(w = v /\ cache[w] # NoCache)
    BY <1>2, <2>2 DEF CoreServed
  <2>. QED
    BY <2>1, <2>2
<1>. QED
  BY <1>1, <1>2, <1>3, <1>4 DEF NoCache

(* A takeover by a build no older than what anybody waits for.                *)
LEMMA TakeOverKeeps ==
  ASSUME IInv, NEW b \in 1..Builds, b <= origin,
         NEW stored \in [Build -> [page : 0..Builds, core : 0..Builds]],
         TakeOver(b, stored), active <= b, installing # 0 => b <= installing,
         \A t \in Tab : asked[t] <= b /\ due[t] <= b,
         installing' \in {0, installing},
         UNCHANGED <<originvars, skip, checking, page, core, reg, healed, calm, offered>>
  PROVE  IInv'
<1>. USE DEF IInv, originvars
<1>0. Builds \in Nat \ {0} /\ origin \in 1..Builds /\ Build = 1..Builds
  BY Entries DEF Build
<1>1. /\ active' = b /\ waiting' = 0 /\ watch' = {}
      /\ cache' = [c \in Build |-> IF c = b THEN stored[c] ELSE NoCache]
      /\ control' = [t \in Tab |-> IF t \in Open THEN b ELSE 0]
      /\ phase' = [t \in Tab |-> IF t \in Open /\ asked[t] # 0 THEN "reloading" ELSE phase[t]]
      /\ due' = [t \in Tab |-> IF t \in Open /\ asked[t] # 0 THEN asked[t] ELSE due[t]]
      /\ asked' = [t \in Tab |-> 0]
  BY DEF TakeOver, Open
<1>2. TypeOK'
  <2>1. cache' \in [Build -> [page : 0..Builds, core : 0..Builds]]
    BY <1>0, <1>1, Entries
  <2>2. /\ control' \in [Tab -> 0..Builds] /\ phase' \in [Tab -> Phase]
        /\ due' \in [Tab -> 0..Builds] /\ asked' \in [Tab -> 0..Builds]
    BY <1>0, <1>1 DEF TypeOK, Phase
  <2>3. installing' \in 0..Builds /\ waiting' \in 0..Builds /\ active' \in 0..Builds
    BY <1>0, <1>1 DEF TypeOK
  <2>. QED
    BY <1>1, <2>1, <2>2, <2>3 DEF TypeOK
<1>3. Slots'
  BY <1>0, <1>1 DEF Slots, Build
<1>4. Handover'
  <2>. SUFFICES ASSUME NEW t \in Tab
                PROVE  /\ asked'[t] <= origin' /\ due'[t] <= origin'
                       /\ installing' # 0 => asked'[t] <= installing' /\ due'[t] <= installing'
                       /\ active' # 0 => due'[t] <= active'
                       /\ phase'[t] \notin {"closed", "reloading"} =>
                            page'[t] # 0 /\ due'[t] <= page'[t]
    BY <1>1 DEF Handover
  <2>1. asked[t] \in Nat /\ due[t] \in Nat /\ installing \in Nat
    BY <1>0 DEF TypeOK
  <2>2. asked'[t] = 0 /\ due'[t] \in {asked[t], due[t]} /\ active' = b
    BY <1>1
  <2>3. phase'[t] \notin {"closed", "reloading"} => phase'[t] = phase[t] /\ due'[t] = due[t]
    BY <1>1 DEF Open
  <2>. QED
    BY <1>0, <2>1, <2>2, <2>3, SMTT(30) DEF Handover
<1>. QED
  BY <1>2, <1>3, <1>4

-----------------------------------------------------------------------------
(* The origin and the worker *)

LEMMA OriginKeeps == ASSUME IInv, Deploy \/ CoreArrives \/ Calm PROVE IInv'
<1>. USE DEF IInv, Deploy, CoreArrives, Calm, originvars, workervars, pagevars
<1>0. Builds \in Nat \ {0} /\ origin \in 1..Builds /\ origin' \in 1..Builds /\ origin <= origin'
  <2>1. Builds \in Nat \ {0} /\ origin \in 1..Builds
    BY Entries
  <2>2. CASE Deploy
    BY <2>1, <2>2
  <2>3. CASE CoreArrives \/ Calm
    BY <2>1, <2>3
  <2>. QED
    BY <2>1, <2>2, <2>3
<1>1. TypeOK'
  BY <1>0 DEF TypeOK, Build
<1>2. Slots'
  BY <1>0 DEF Slots, Build
<1>3. Handover'
  <2>1. \A t \in Tab : asked[t] \in Nat /\ due[t] \in Nat
    BY <1>0 DEF TypeOK
  <2>. QED
    BY <1>0, <2>1 DEF Handover
<1>. QED
  BY <1>1, <1>2, <1>3

LEMMA FetchKeeps == ASSUME IInv, FetchWorker PROVE IInv'
<1>. USE DEF IInv, FetchWorker, originvars, pagevars
<1>0. Builds \in Nat \ {0} /\ origin \in 1..Builds
  BY Entries
<1>1. installing' = installing \/ installing' = origin
  OBVIOUS
<1>2. TypeOK'
  <2>1. watch' \subseteq Tab /\ \A t \in watch' : phase'[t] = "running"
    BY DEF TypeOK, Open
  <2>2. installing' \in 0..Builds
    BY <1>0, <1>1 DEF TypeOK
  <2>. QED
    BY <2>1, <2>2 DEF TypeOK
<1>3. Slots'
  BY <1>0, <1>1 DEF Slots, Build
<1>4. Handover'
  BY <1>1 DEF Handover
<1>. QED
  BY <1>2, <1>3, <1>4

LEMMA FailuresKeep == ASSUME IInv, CheckFails \/ InstallFails PROVE IInv'
<1>. USE DEF IInv, CheckFails, InstallFails, originvars, pagevars
<1>0. Builds \in Nat \ {0} /\ origin \in 1..Builds
  BY Entries
<1>1. TypeOK' /\ Slots'
  <2>1. /\ installing' \in {0, installing} /\ watch' \in {{}, watch} /\ checking' \in BOOLEAN
        /\ UNCHANGED <<origin, lag, waiting, active, skip, cache, phase, control, page, core,
                       reg, offered, asked, due, healed, calm>>
    BY DEF TypeOK
  <2>2. installing' \in 0..Builds /\ installing' \in 0..origin
    BY <1>0, <2>1 DEF TypeOK, Slots
  <2>3. watch' \subseteq Tab /\ \A t \in watch' : phase'[t] = "running"
    BY <2>1 DEF TypeOK
  <2>4. TypeOK'
    BY <2>1, <2>2, <2>3 DEF TypeOK
  <2>5. Slots'
    BY <2>1, <2>2 DEF Slots
  <2>. QED
    BY <2>4, <2>5
<1>2. Handover'
  BY DEF Handover
<1>. QED
  BY <1>1, <1>2

LEMMA InstallKeeps == ASSUME IInv, InstallDone PROVE IInv'
<1>. USE DEF IInv, originvars
<1>0. /\ Builds \in Nat \ {0} /\ origin \in 1..Builds /\ Build = 1..Builds
      /\ installing \in 1..origin /\ OriginCore \in 0..Builds
  BY Entries DEF InstallDone, Slots, Build
<1>1. PICK p \in installing..origin, c \in installing..origin \cup {OriginCore} :
        LET stored == [cache EXCEPT ![installing] = [page |-> p, core |-> c]]
        IN IF active = 0
             THEN TakeOver(installing, stored) /\ UNCHANGED offered
             ELSE /\ waiting' = installing
                  /\ cache' = stored
                  /\ offered' = [t \in Tab |-> offered[t] \/ t \in watch]
                  /\ watch' = {}
                  /\ UNCHANGED <<active, control, phase, due, asked>>
  BY DEF InstallDone
<1>. DEFINE stored == [cache EXCEPT ![installing] = [page |-> p, core |-> c]]
<1>2. stored \in [Build -> [page : 0..Builds, core : 0..Builds]]
  <2>1. p \in 0..Builds /\ c \in 0..Builds
    BY <1>0
  <2>. QED
    BY <2>1 DEF TypeOK
<1>3. /\ installing' = 0
      /\ UNCHANGED <<originvars, skip, checking, page, core, reg, healed, calm>>
  BY DEF InstallDone
<1>. HIDE DEF stored
<1>4. \A t \in Tab : asked[t] <= installing /\ due[t] <= installing
  <2>1. installing # 0
    BY <1>0
  <2>. QED
    BY <2>1 DEF Handover
<1>5. CASE active = 0
  <2>1. TakeOver(installing, stored) /\ UNCHANGED offered
    BY <1>1, <1>5 DEF stored
  <2>2. installing \in 1..Builds /\ installing <= origin /\ active <= installing
    BY <1>0, <1>5
  <2>3. installing' \in {0, installing}
    BY <1>3
  <2>4. UNCHANGED <<originvars, skip, checking, page, core, reg, healed, calm, offered>>
    BY <1>3, <2>1
  <2>5. installing # 0 => installing <= installing
    BY <1>0
  <2>6. IInv
    OBVIOUS
  <2>. HIDE DEF IInv, originvars
  <2>. QED
    BY <1>2, <1>4, <2>1, <2>2, <2>3, <2>4, <2>5, <2>6, TakeOverKeeps
<1>6. CASE active # 0
  <2>1. /\ waiting' = installing /\ cache' = stored /\ watch' = {}
        /\ offered' = [t \in Tab |-> offered[t] \/ t \in watch]
        /\ UNCHANGED <<active, control, phase, due, asked>>
    BY <1>1, <1>6 DEF stored
  <2>2. offered' \in [Tab -> BOOLEAN]
    BY <2>1
  <2>3. TypeOK'
    <3>1. installing' \in 0..Builds /\ waiting' \in 0..Builds /\ active' \in 0..Builds
      BY <1>0, <1>3, <2>1 DEF TypeOK
    <3>2. cache' \in [Build -> [page : 0..Builds, core : 0..Builds]]
      BY <1>2, <2>1
    <3>. QED
      BY <1>3, <2>1, <2>2, <3>1, <3>2 DEF TypeOK
  <2>4. Slots'
    BY <1>0, <1>3, <2>1 DEF Slots
  <2>5. Handover'
    BY <1>0, <1>3, <1>4, <2>1 DEF Handover
  <2>. QED
    BY <2>3, <2>4, <2>5
<1>. QED
  BY <1>5, <1>6

LEMMA ActivateKeeps == ASSUME IInv, Activate PROVE IInv'
<1>. USE DEF IInv
<1>0. Builds \in Nat \ {0} /\ origin \in 1..Builds /\ waiting \in 1..origin
  BY Entries DEF Activate, Slots
<1>1. /\ TakeOver(waiting, cache) /\ installing' = installing
      /\ UNCHANGED <<originvars, skip, checking, page, core, reg, healed, calm, offered>>
  BY DEF Activate
<1>2. /\ active <= waiting /\ (installing # 0 => waiting <= installing)
      /\ \A t \in Tab : asked[t] <= waiting /\ due[t] <= waiting
  BY <1>0 DEF Slots, Handover
<1>3. cache \in [Build -> [page : 0..Builds, core : 0..Builds]]
  BY DEF TypeOK
<1>. QED
  BY <1>0, <1>1, <1>2, <1>3, TakeOverKeeps

-----------------------------------------------------------------------------
(* A window *)

LEMMA WindowKeeps ==
  ASSUME IInv, NEW t \in Tab, OpenTab(t) \/ CloseTab(t) \/ Reload(t) \/ GiveUp(t) \/ Start(t)
  PROVE  IInv'
<1>. USE DEF IInv, Slots, Build, originvars, workervars, pagevars, Forget
<1>0. Builds \in Nat \ {0} /\ origin \in 1..Builds
  BY Entries
<1>1. CASE OpenTab(t)
  <2>1. TypeOK'
    BY <1>1 DEF OpenTab, TypeOK, Phase
  <2>2. Slots'
    BY <1>1 DEF OpenTab
  <2>3. Handover'
    BY <1>1 DEF OpenTab, Handover, TypeOK
  <2>. QED
    BY <2>1, <2>2, <2>3
<1>2. CASE CloseTab(t)
  <2>1. TypeOK'
    <3>1. 0 \in 0..Builds
      BY <1>0
    <3>2. watch' \subseteq Tab /\ \A x \in watch' : phase'[x] = "running"
      BY <1>2 DEF CloseTab, TypeOK
    <3>3. phase' \in [Tab -> Phase]
      BY <1>2 DEF CloseTab, TypeOK, Phase
    <3>4. /\ page' \in [Tab -> 0..Builds] /\ core' \in [Tab -> 0..Builds]
          /\ control' \in [Tab -> 0..Builds]
          /\ asked' \in [Tab -> 0..Builds] /\ due' \in [Tab -> 0..Builds]
      BY <1>2, <3>1 DEF CloseTab, TypeOK
    <3>5. /\ reg' \in [Tab -> BOOLEAN] /\ offered' \in [Tab -> BOOLEAN]
          /\ healed' \in [Tab -> BOOLEAN]
      BY <1>2 DEF CloseTab, TypeOK
    <3>. QED
      BY <1>2, <3>2, <3>3, <3>4, <3>5 DEF CloseTab, TypeOK
  <2>2. Slots'
    BY <1>2 DEF CloseTab
  <2>3. Handover'
    BY <1>0, <1>2, SMTT(30) DEF CloseTab, Handover, TypeOK
  <2>. QED
    BY <2>1, <2>2, <2>3
<1>3. CASE Reload(t)
  <2>1. TypeOK'
    <3>1. 0 \in 0..Builds
      BY <1>0
    <3>2. watch' \subseteq Tab /\ \A x \in watch' : phase'[x] = "running"
      BY <1>3 DEF Reload, TypeOK
    <3>3. phase' \in [Tab -> Phase]
      BY <1>3 DEF Reload, TypeOK, Phase
    <3>4. asked' \in [Tab -> 0..Builds] /\ due' \in [Tab -> 0..Builds]
      BY <1>3, <3>1 DEF Reload, TypeOK
    <3>5. reg' \in [Tab -> BOOLEAN] /\ offered' \in [Tab -> BOOLEAN]
      BY <1>3 DEF Reload, TypeOK
    <3>. QED
      BY <1>3, <3>2, <3>3, <3>4, <3>5 DEF Reload, TypeOK
  <2>2. Slots'
    BY <1>3 DEF Reload
  <2>3. Handover'
    BY <1>0, <1>3, SMTT(30) DEF Reload, Handover, TypeOK
  <2>. QED
    BY <2>1, <2>2, <2>3
<1>4. CASE GiveUp(t)
  BY <1>0, <1>4 DEF GiveUp, TypeOK, Handover, Phase
<1>5. CASE Start(t)
  BY <1>0, <1>5 DEF Start, Register, TypeOK, Handover, Phase
<1>. QED
  BY <1>1, <1>2, <1>3, <1>4, <1>5

LEMMA LoadKeeps ==
  ASSUME IInv, NEW t \in Tab,
         Navigate(t) \/ FetchCore(t) \/ HealSkew(t) \/ Unregister(t) \/ UpdateNow(t)
  PROVE  IInv'
<1>. USE DEF IInv, originvars, workervars, pagevars
<1>0. /\ Builds \in Nat \ {0} /\ origin \in 1..Builds
      /\ installing \in 0..Builds /\ waiting \in 0..Builds /\ active \in 0..Builds
      /\ NoCache \in [page : 0..Builds, core : 0..Builds]
  BY Entries
<1>1. CASE Navigate(t)
  <2>1. PageServed(active) \in 1..Builds
    BY <1>0, Entries
  <2>2. due[t] <= PageServed(active)
    BY <1>0 DEF PageServed, Handover
  <2>3. TypeOK'
    <3>1. watch' \subseteq Tab /\ \A x \in watch' : phase'[x] = "running"
      BY <1>1 DEF Navigate, Forget, TypeOK
    <3>2. phase' \in [Tab -> Phase]
      BY <1>1 DEF Navigate, TypeOK, Phase
    <3>3. 0 \in 0..Builds /\ PageServed(active) \in 0..Builds
      BY <1>0, <2>1
    <3>4. page' \in [Tab -> 0..Builds] /\ core' \in [Tab -> 0..Builds]
      BY <1>1, <3>3 DEF Navigate, TypeOK
    <3>5. control' \in [Tab -> 0..Builds] /\ asked' \in [Tab -> 0..Builds]
      BY <1>0, <1>1, <3>3 DEF Navigate, Forget, TypeOK
    <3>6. reg' \in [Tab -> BOOLEAN] /\ offered' \in [Tab -> BOOLEAN] /\ checking' \in BOOLEAN
      BY <1>1 DEF Navigate, Forget, TypeOK
    <3>. QED
      BY <1>1, <3>1, <3>2, <3>4, <3>5, <3>6 DEF Navigate, TypeOK
  <2>4. Slots'
    BY <1>1 DEF Navigate, Slots
  <2>5. Handover'
    BY <1>0, <1>1, <2>1, <2>2 DEF Navigate, Forget, TypeOK, Handover
  <2>. QED
    BY <2>3, <2>4, <2>5
<1>2. CASE FetchCore(t)
  <2>1. page[t] \in 1..Builds /\ control[t] \in 0..Builds
    BY <1>0, <1>2 DEF FetchCore, Handover, TypeOK
  <2>2. CoreServed(control[t], page[t]) \in 0..Builds
    BY <2>1, Entries
  <2>. QED
    BY <1>2, <2>2 DEF FetchCore, TypeOK, Phase, Slots, Handover
<1>3. CASE HealSkew(t)
  <2>1. Marked(t) \in BOOLEAN
    BY DEF Marked
  <2>2. TypeOK'
    BY <1>0, <1>3, <2>1 DEF HealSkew, TypeOK, Phase
  <2>. QED
    BY <1>3, <2>2 DEF HealSkew, Slots, Handover, TypeOK
<1>4. CASE Unregister(t)
  BY <1>0, <1>4 DEF Unregister, TypeOK, Phase, Slots, Handover
<1>5. CASE UpdateNow(t)
  <2>1. CASE reg[t] /\ waiting # 0
    <3>1. /\ asked' = [asked EXCEPT ![t] = waiting] /\ skip' = skip \cup {waiting}
          /\ UNCHANGED <<originvars, installing, waiting, active, cache, checking, watch,
                         phase, control, page, core, reg, offered, due, healed, calm>>
      BY <1>5, <2>1 DEF UpdateNow
    <3>2. TypeOK'
      <4>1. waiting \in 0..Builds /\ waiting \in Build
        BY <1>0, <2>1 DEF Build
      <4>2. asked' \in [Tab -> 0..Builds] /\ skip' \subseteq Build
        BY <3>1, <4>1 DEF TypeOK
      <4>. QED
        BY <3>1, <4>2 DEF TypeOK
    <3>3. Slots'
      BY <3>1 DEF Slots
    <3>4. Handover'
      BY <1>0, <2>1, <3>1 DEF Handover, Slots, TypeOK
    <3>. QED
      BY <3>2, <3>3, <3>4
  <2>2. CASE ~(reg[t] /\ waiting # 0)
    BY <1>5, <2>2 DEF UpdateNow, TypeOK, Slots, Handover
  <2>. QED
    BY <2>1, <2>2
<1>. QED
  BY <1>1, <1>2, <1>3, <1>4, <1>5

LEMMA StepIInv == IInv /\ [Next]_vars => IInv'
<1>. SUFFICES ASSUME IInv, [Next]_vars PROVE IInv'
  OBVIOUS
<1>1. ASSUME NEW t \in Tab, Visit(t) PROVE IInv'
  BY <1>1, WindowKeeps, LoadKeeps DEF Visit
<1>2. CASE UNCHANGED vars
  BY <1>2 DEF IInv, TypeOK, Slots, Handover, vars, originvars, workervars, pagevars
<1>. QED
  BY <1>1, <1>2, OriginKeeps, FetchKeeps, FailuresKeep, InstallKeeps, ActivateKeeps DEF Next

-----------------------------------------------------------------------------
(* Theorems *)

(* The invariant of updates holds throughout. *)
THEOREM Invariance == Spec => []IInv
BY InitIInv, StepIInv, PTL DEF Spec

(* The slots of the registration, the caches and the windows keep their       *)
(* types, and only running windows listen to an installing worker.            *)
THEOREM TypeCorrect == Spec => []TypeOK
<1>1. IInv => TypeOK
  BY DEF IInv
<1>. QED
  BY Invariance, <1>1, PTL

(* A window that the update button reloaded never runs an older build than    *)
(* the one that was parked when it was tapped.                                *)
THEOREM TapsLandOnNew == Spec => []TapLandsOnNew
<1>1. IInv => TapLandsOnNew
  <2>. SUFFICES ASSUME IInv, NEW t \in Tab, phase[t] = "running" PROVE page[t] >= due[t]
    BY DEF TapLandsOnNew
  <2>1. due[t] <= page[t] /\ due[t] \in Nat /\ page[t] \in Nat
    BY UpdateAssumption DEF IInv, Handover, TypeOK
  <2>. QED
    BY <2>1
<1>. QED
  BY Invariance, <1>1, PTL

(* An open page that is registered and controlled changes hands only to a     *)
(* build that somebody told to take over.                                     *)
THEOREM OpenPagesAreAsked == Spec => OpenPagesDecide
<1>1. IInv /\ [Next]_vars =>
        [\A t \in Tab :
           (/\ phase[t] = "running" /\ phase'[t] \in {"running", "reloading"}
            /\ active # 0 /\ reg[t] /\ control[t] # 0 /\ control'[t] # control[t])
           => control'[t] \in skip]_vars
  <2>. SUFFICES ASSUME IInv, Next, NEW t \in Tab,
                       phase[t] = "running", phase'[t] \in {"running", "reloading"},
                       active # 0, control[t] # 0, control'[t] # control[t]
                PROVE  control'[t] \in skip
    BY DEF vars
  <2>1. CASE Activate
    <3>1. t \in Open /\ waiting \in skip
      BY <2>1 DEF Activate, MayActivate, Open
    <3>2. control'[t] = waiting
      BY <2>1, <3>1 DEF Activate, TakeOver
    <3>. QED
      BY <3>1, <3>2
  <2>2. CASE InstallDone
    BY <2>2 DEF InstallDone
  <2>3. CASE Deploy \/ CoreArrives \/ Calm \/ FetchWorker \/ CheckFails \/ InstallFails
    BY <2>3 DEF Deploy, CoreArrives, Calm, FetchWorker, CheckFails, InstallFails
  <2>4. ASSUME NEW u \in Tab, Visit(u) PROVE control'[t] \in skip
    <3>1. CASE CloseTab(u)
      BY <3>1 DEF CloseTab, IInv, TypeOK
    <3>2. CASE Navigate(u)
      BY <3>2 DEF Navigate, IInv, TypeOK
    <3>3. CASE UNCHANGED control
      BY <3>3
    <3>. QED
      BY <2>4, <3>1, <3>2, <3>3 DEF Visit, OpenTab, Reload, FetchCore, Start, Register,
         HealSkew, Unregister, GiveUp, UpdateNow, workervars
  <2>. QED
    BY <2>1, <2>2, <2>3, <2>4 DEF Next
<1>. QED
  BY Invariance, <1>1, PTL DEF Spec, OpenPagesDecide
=============================================================================
