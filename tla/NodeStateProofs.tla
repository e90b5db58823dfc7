-------------------------- MODULE NodeStateProofs ---------------------------
(***************************************************************************)
(* Proofs about NodeState, for any number of processes, identities, data   *)
(* keys and node ids.                                                      *)
(***************************************************************************)
EXTENDS NodeState, TLAPS

Process == [at : Steps, job : {"none", "eval", "sign", "register", "serve"},
            key : Keys \cup {None}, under : Deks \cup {Plain, None}, pub : Keys \cup {None, Torn},
            cached : Deks \cup {None}, signer : Keys \cup {None},
            goal : {"none", "unseal", "migrate", "seal"},
            machine : Ids \cup {None}, id : Ids \cup {None}]

Provisioning == {"setkey", "wrotekey", "readback"}
KeySteps == {"dek"} \cup Provisioning
Loaded == {"loaded", "auth", "post", "answered", "saved", "claim"}

\* A process on its way to the data key has an aim, and is where it aimed at afterwards.
Aimed(r) ==
  /\ r.at \in KeySteps => r.goal # "none"
  /\ r.at \in {"unseal", "migrate", "seal"} => r.goal = r.at

\* What is on disk fits together.
FilesFit ==
  /\ pub # None => priv # Absent
  /\ pub \in {None, Torn, priv.is}
  /\ priv = Absent \/ priv.is \in made \cap Keys
  /\ joinAuth # Absent => joinAuth.is = priv.is /\ pub # None
  /\ \A k \in Keys : server[k] # None => k \in made /\ (priv.is = k => pub # None)
  /\ priv.under \in {None, Plain, dek} /\ joinAuth.under \in {None, Plain, dek}
  /\ ~refused
  /\ registry # None /\ config \in Ids => config = registry

\* What a process read still holds, and what it is about to replace is needed by nobody.
Holds(r) ==
  /\ r.at \in KeySteps \cup {"seal"} /\ r.goal = "seal" =>
       pub = None /\ r.key \in made \cap Keys /\ server[r.key] = None
  /\ r.at \in KeySteps \cup {"unseal", "migrate"} /\ r.goal # "seal" => priv # Absent /\ r.key = priv.is
  /\ r.at \in {"pub", "wrotepub"} => priv # Absent /\ r.key = priv.is /\ r.pub = r.key
  /\ r.at \in Loaded => r.key = priv.is /\ r.pub = pub /\ pub # None
  /\ r.at \in {"auth", "post"} => joinAuth # Absent /\ r.signer = joinAuth.is
  /\ r.at \in {"post", "answered"} => r.machine = registry
  /\ r.at = "saved" => registry \in {None, r.id}
  /\ r.at = "claim" => config = r.id
  /\ r.at \in {"setkey", "wrotekey"} => priv.under \in {None, Plain} /\ joinAuth.under \in {None, Plain}
  /\ r.at \notin Provisioning \cup {"idle"} /\ r.cached # None => r.cached = dek

Calm == FilesFit /\ \A p \in Procs : Holds(proc[p])

Inv ==
  /\ TypeOK
  /\ \A p \in Procs : Aimed(proc[p])
  /\ ~overlap => Calm

FileTypes ==
  /\ dek \in Deks \cup {None, Torn} /\ pub \in Keys \cup {None, Torn}
  /\ priv \in Secret(Keys) /\ joinAuth \in Secret(Keys)
  /\ config \in Ids \cup {None, Torn} /\ registry \in Ids \cup {None}

RestTypes ==
  /\ server \in [Keys -> Ids \cup {None}]
  /\ made \subseteq Keys \cup Deks
  /\ overlap \in BOOLEAN /\ refused \in BOOLEAN
-----------------------------------------------------------------------------
\* The type invariant, apart for the files, the processes and the rest.
LEMMA Typed == TypeOK <=> FileTypes /\ RestTypes /\ proc \in [Procs -> Process]
BY DEF TypeOK, FileTypes, RestTypes, Process

\* A process that is not running has read nothing.
LEMMA GoneTyped == Gone \in Process /\ Gone.at = "idle" /\ Gone.goal = "none" /\ Gone.cached = None
BY DEF Gone, Process, Steps

\* A process that does not run holds nothing.
LEMMA IdleHolds == ASSUME NEW r, r.at = "idle" PROVE Holds(r) /\ Aimed(r)
BY DEF Holds, Aimed, KeySteps, Provisioning, Loaded

\* A step of p keeps the invariant if what p and the files hold afterwards fits together, and what
\* the other processes hold is left alone.
LEMMA StepKeeps ==
  ASSUME Inv, NEW p \in Procs, NEW r \in Process, proc' = [proc EXCEPT ![p] = r], Aimed(r),
         FileTypes', RestTypes',
         ~overlap' => /\ FilesFit' /\ Holds(r)'
                      /\ \A q \in Procs \ {p} : Holds(proc[q])'
  PROVE  Inv'
<1>1. proc \in [Procs -> Process] BY Typed DEF Inv
<1>2. proc' \in [Procs -> Process] /\ proc'[p] = r /\ \A q \in Procs \ {p} : proc'[q] = proc[q] BY <1>1
<1>3. TypeOK' BY <1>2, Typed DEF TypeOK, FileTypes, RestTypes, Process
<1>4. \A q \in Procs : Aimed(proc'[q]) BY <1>2 DEF Inv
<1>5. ASSUME ~overlap' PROVE Calm'
  <2>1. Holds(proc[p])' BY <1>2, <1>5 DEF Holds
  <2> QED BY <1>5, <2>1 DEF Calm
<1> QED BY <1>3, <1>4, <1>5 DEF Inv, Aimed

\* A step that writes no file.
LEMMA ReadKeeps ==
  ASSUME Inv, NEW p \in Procs, NEW r \in Process, proc' = [proc EXCEPT ![p] = r], Aimed(r),
         Reads, UNCHANGED <<files, rest>>, ~overlap => Holds(r)
  PROVE  Inv'
<1>1. FileTypes' /\ RestTypes' BY Typed DEF Inv, FileTypes, RestTypes, files, rest, Reads
<1>2. ASSUME ~overlap' PROVE FilesFit' /\ Holds(r)' /\ \A q \in Procs \ {p} : Holds(proc[q])'
  <2>1. Calm /\ Holds(r) BY <1>2 DEF Inv, Reads
  <2>2. FilesFit' BY <2>1 DEF Calm, FilesFit, files, rest
  <2>3. Holds(r)' BY <2>1 DEF Holds, files, rest
  <2>4. ASSUME NEW q \in Procs \ {p} PROVE Holds(proc[q])'
    <3>1. proc'[q] = proc[q] BY Typed DEF Inv
    <3> QED BY <2>1, <3>1 DEF Calm, Holds, files, rest
  <2> QED BY <2>2, <2>3, <2>4
<1> QED BY <1>1, <1>2, StepKeeps

\* A step that writes a file while no other process is under way.
LEMMA WriteKeeps ==
  ASSUME Inv, NEW p \in Procs, NEW r \in Process, proc' = [proc EXCEPT ![p] = r], Aimed(r),
         Writes(p), FileTypes', UNCHANGED rest,
         Calm => FilesFit' /\ Holds(r)'
  PROVE  Inv'
<1>1. RestTypes' BY Typed DEF Inv, RestTypes, rest, Writes
<1>2. ASSUME ~overlap' PROVE FilesFit' /\ Holds(r)' /\ \A q \in Procs \ {p} : Holds(proc[q])'
  <2>1. ~overlap /\ \A q \in Procs \ {p} : proc[q].at = "idle" BY <1>2 DEF Writes, At
  <2>2. FilesFit' /\ Holds(r)' BY <2>1 DEF Inv
  <2>3. ASSUME NEW q \in Procs \ {p} PROVE Holds(proc[q])'
    <3>1. proc'[q].at = "idle" BY <2>1, Typed DEF Inv
    <3> QED BY <3>1 DEF Holds, KeySteps, Provisioning, Loaded
  <2> QED BY <2>2, <2>3
<1> QED BY <1>1, <1>2, StepKeeps
-----------------------------------------------------------------------------
\* The invariant holds on a new machine, and on one set up before secrets were sealed.
LEMMA InitInv == Init => Inv
<1> SUFFICES ASSUME Init PROVE Inv OBVIOUS
<1>1. \A p \in Procs : proc[p] = Gone BY DEF Init
<1>2. TypeOK
  <2>1. proc \in [Procs -> Process] BY GoneTyped DEF Init
  <2>2. FileTypes BY DEF Init, FileTypes, Secret, Absent
  <2>3. RestTypes BY DEF Init, RestTypes
  <2> QED BY <2>1, <2>2, <2>3, Typed
<1>3. FilesFit BY NodeStateAssumption DEF Init, FilesFit, Absent
<1>4. \A p \in Procs : Holds(proc[p]) /\ Aimed(proc[p]) BY <1>1, GoneTyped, IdleHolds
<1> QED BY <1>2, <1>3, <1>4 DEF Inv, Calm

\* A process starts, or ends wherever it is.
LEMMA RunExitKeep ==
  ASSUME Inv, NEW p \in Procs, (\E job \in {"eval", "register", "serve"} : Run(p, job)) \/ Exit(p)
  PROVE  Inv'
<1>1. CASE Exit(p)
  <2>1. Aimed(Gone) /\ Holds(Gone) BY GoneTyped, IdleHolds
  <2> QED BY <1>1, <2>1, GoneTyped, ReadKeeps DEF Exit
<1>2. ASSUME NEW job \in {"eval", "register", "serve"}, Run(p, job) PROVE Inv'
  <2>1. PICK r : r = [Gone EXCEPT !.at = "check", !.job = job] OBVIOUS
  <2>2. r \in Process /\ r.at = "check" /\ r.cached = None
    <3>1. r.at = "check" /\ r.cached = None BY <2>1, GoneTyped DEF Process
    <3>2. "check" \in Steps /\ job \in {"none", "eval", "sign", "register", "serve"} BY <1>2 DEF Steps
    <3>3. r \in Process BY <2>1, <3>2, GoneTyped DEF Process
    <3> QED BY <3>1, <3>3
  <2>3. Aimed(r) /\ Holds(r) BY <2>2 DEF Aimed, Holds, KeySteps, Provisioning, Loaded
  <2>4. proc' = [proc EXCEPT ![p] = r] BY <1>2, <2>1 DEF Run
  <2> QED BY <1>2, <2>2, <2>3, <2>4, ReadKeeps DEF Run
<1> QED BY <1>1, <1>2

\* The identity is looked for, generated and opened (loadOrCreateIdentity, readSecretFile).
LEMMA IdentifyKeeps ==
  ASSUME Inv, NEW p \in Procs, CheckBoth(p) \/ Generate(p) \/ Open(p)
  PROVE  Inv'
<1>0. proc[p] \in Process BY Typed DEF Inv
<1>a. ~overlap => FilesFit /\ Holds(proc[p]) BY DEF Inv, Calm
<1>1. CASE CheckBoth(p)
  <2>1. PICK r : r = [proc[p] EXCEPT !.at = "open"] OBVIOUS
  <2>2. r \in Process /\ r.at = "open" /\ r.cached = proc[p].cached BY <1>0, <2>1 DEF Process, Steps
  <2>3. proc' = [proc EXCEPT ![p] = r] BY <1>1, <2>1 DEF CheckBoth, Goto
  <2>4. Aimed(r) BY <2>2 DEF Aimed, KeySteps, Provisioning
  <2>5. ~overlap => Holds(r)
    BY <1>1, <1>a, <2>2 DEF CheckBoth, At, Holds, KeySteps, Provisioning, Loaded
  <2> QED BY <1>1, <2>2, <2>3, <2>4, <2>5, ReadKeeps DEF CheckBoth
<1>2. CASE Open(p)
  <2>1. PICK r : r = [proc[p] EXCEPT !.key = priv.is, !.under = priv.under, !.at = "dek",
                                     !.goal = IF priv.under = Plain THEN "migrate" ELSE "unseal"] OBVIOUS
  <2>2. priv \in Secret(Keys) BY Typed DEF Inv, FileTypes
  <2>3. r \in Process
    <3>1. PICK g \in {"migrate", "unseal"} : g = IF priv.under = Plain THEN "migrate" ELSE "unseal" OBVIOUS
    <3>2. r = [proc[p] EXCEPT !.key = priv.is, !.under = priv.under, !.at = "dek", !.goal = g] BY <2>1, <3>1
    <3>3. priv.is \in Keys \cup {None} /\ priv.under \in Deks \cup {Plain, None} BY <2>2 DEF Secret
    <3> QED BY <1>0, <3>2, <3>3 DEF Process, Steps
  <2>4. r.at = "dek" /\ r.cached = proc[p].cached /\ r.key = priv.is /\ r.goal \in {"migrate", "unseal"}
    BY <1>0, <2>1 DEF Process
  <2>5. proc' = [proc EXCEPT ![p] = r] BY <1>2, <2>1 DEF Open
  <2>6. Aimed(r) BY <2>4 DEF Aimed, KeySteps, Provisioning
  <2>7. ~overlap => Holds(r)
    BY <1>2, <1>a, <2>4 DEF Open, At, Holds, KeySteps, Provisioning, Loaded
  <2> QED BY <1>2, <2>3, <2>5, <2>6, <2>7, ReadKeeps DEF Open
<1>3. CASE Generate(p)
  <2>1. PICK k \in Keys \ made :
          /\ proc' = [proc EXCEPT ![p].key = k, ![p].at = "dek", ![p].goal = "seal"]
          /\ made' = made \cup {k}
    BY <1>3 DEF Generate
  <2>2. PICK r : r = [proc[p] EXCEPT !.key = k, !.at = "dek", !.goal = "seal"] OBVIOUS
  <2>3. r \in Process BY <1>0, <2>2 DEF Process, Steps
  <2>4. r.at = "dek" /\ r.cached = proc[p].cached /\ r.key = k /\ r.goal = "seal" BY <1>0, <2>2 DEF Process
  <2>5. proc' = [proc EXCEPT ![p] = r] BY <2>1, <2>2
  <2>6. Aimed(r) BY <2>4 DEF Aimed, KeySteps, Provisioning
  <2>7. UNCHANGED <<files, server, refused, overlap>> BY <1>3 DEF Generate, Reads
  <2>8. FileTypes' /\ RestTypes' BY <2>1, <2>7, Typed DEF Inv, FileTypes, RestTypes, files
  <2>9. ASSUME ~overlap' PROVE FilesFit' /\ Holds(r)' /\ \A q \in Procs \ {p} : Holds(proc[q])'
    <3>1. FilesFit /\ Holds(proc[p]) /\ ~overlap BY <1>a, <2>7, <2>9
    <3>2. FilesFit' BY <2>1, <2>7, <3>1 DEF FilesFit, files
    <3>3. pub = None BY <1>3, <3>1 DEF Generate, FilesFit
    <3>4. server[k] = None BY <2>1, <3>1 DEF FilesFit
    <3>5. Holds(r)'
      BY <1>3, <2>1, <2>4, <2>7, <3>1, <3>3, <3>4 DEF Generate, At, Holds, KeySteps, Provisioning, Loaded, files
    <3>6. ASSUME NEW q \in Procs \ {p} PROVE Holds(proc[q])'
      <4>1. proc'[q] = proc[q] /\ Holds(proc[q]) BY <2>5, <3>1, Typed DEF Inv, Calm
      <4> QED BY <2>1, <2>7, <4>1 DEF Holds, files
    <3> QED BY <3>2, <3>5, <3>6
  <2> QED BY <2>3, <2>5, <2>6, <2>8, <2>9, StepKeeps
<1> QED BY <1>1, <1>2, <1>3

\* The data key is read, or minted, stored and read back (getOrCreateDataKey, keyfileAdapter).
LEMMA DataKeyKeeps ==
  ASSUME Inv, NEW p \in Procs, DataKey(p)
  PROVE  Inv'
<1>0. proc[p] \in Process /\ Aimed(proc[p]) BY Typed DEF Inv
<1>a. ~overlap => FilesFit /\ Holds(proc[p]) BY DEF Inv, Calm
<1>b. FileTypes /\ RestTypes BY Typed DEF Inv
<1>1. CASE GetDek(p)
  <2>1. PICK r : r = [proc[p] EXCEPT !.cached = IF @ = None THEN dek ELSE @, !.at = proc[p].goal] OBVIOUS
  <2>2. proc[p].at = "dek" /\ proc[p].goal \in {"unseal", "migrate", "seal"}
    BY <1>0, <1>1 DEF GetDek, At, Aimed, KeySteps, Process
  <2>3. r \in Process
    <3>1. PICK c : c = IF proc[p].cached = None THEN dek ELSE proc[p].cached OBVIOUS
    <3>2. r = [proc[p] EXCEPT !.cached = c, !.at = proc[p].goal] BY <2>1, <3>1
    <3>3. c \in Deks \cup {None} BY <1>0, <1>1, <3>1 DEF GetDek, Process
    <3> QED BY <1>0, <2>2, <3>2, <3>3 DEF Process, Steps
  <2>4. /\ r.at = proc[p].goal /\ r.goal = proc[p].goal /\ r.key = proc[p].key
        /\ r.cached = IF proc[p].cached = None THEN dek ELSE proc[p].cached
    BY <1>0, <2>1 DEF Process
  <2>5. proc' = [proc EXCEPT ![p] = r] BY <1>1, <2>1 DEF GetDek
  <2>6. Aimed(r) BY <2>2, <2>4 DEF Aimed, KeySteps, Provisioning
  <2>7. ~overlap => Holds(r)
    BY <1>a, <2>2, <2>4 DEF Holds, KeySteps, Provisioning, Loaded
  <2> QED BY <1>1, <2>3, <2>5, <2>6, <2>7, ReadKeeps DEF GetDek
<1>2. CASE Mint(p)
  <2>1. PICK d \in Deks \ made :
          proc' = [proc EXCEPT ![p].cached = d, ![p].at = "setkey"] /\ made' = made \cup {d}
    BY <1>2 DEF Mint
  <2>2. PICK r : r = [proc[p] EXCEPT !.cached = d, !.at = "setkey"] OBVIOUS
  <2>3. r \in Process BY <1>0, <2>2 DEF Process, Steps
  <2>4. r.at = "setkey" /\ r.cached = d /\ r.key = proc[p].key /\ r.goal = proc[p].goal /\ proc[p].at = "dek"
    BY <1>0, <1>2, <2>2 DEF Process, Mint, At
  <2>5. proc' = [proc EXCEPT ![p] = r] BY <2>1, <2>2
  <2>6. Aimed(r) BY <1>0, <2>4 DEF Aimed, KeySteps, Provisioning
  <2>7. UNCHANGED <<files, server, refused, overlap>> BY <1>2 DEF Mint, Reads
  <2>8. FileTypes' /\ RestTypes' BY <1>b, <2>1, <2>7 DEF FileTypes, RestTypes, files
  <2>9. ASSUME ~overlap' PROVE FilesFit' /\ Holds(r)' /\ \A q \in Procs \ {p} : Holds(proc[q])'
    <3>1. FilesFit /\ Holds(proc[p]) /\ ~overlap BY <1>a, <2>7, <2>9
    <3>2. FilesFit' BY <2>1, <2>7, <3>1 DEF FilesFit, files
    <3>3. priv.under \in {None, Plain} /\ joinAuth.under \in {None, Plain} BY <1>2, <3>1 DEF Mint, FilesFit
    <3>4. Holds(r)'
      BY <2>1, <2>4, <2>7, <3>1, <3>3 DEF Holds, KeySteps, Provisioning, Loaded, files
    <3>5. ASSUME NEW q \in Procs \ {p} PROVE Holds(proc[q])'
      <4>1. proc'[q] = proc[q] /\ Holds(proc[q]) BY <2>5, <3>1, Typed DEF Inv, Calm
      <4> QED BY <2>1, <2>7, <4>1 DEF Holds, files
    <3> QED BY <3>2, <3>4, <3>5
  <2> QED BY <2>3, <2>5, <2>6, <2>8, <2>9, StepKeeps
<1>3. CASE SetKey(p)
  <2>1. PICK r : r = [proc[p] EXCEPT !.at = IF proc[p].at = "setkey" THEN "wrotekey" ELSE "readback"] OBVIOUS
  <2>2. r \in Process BY <1>0, <2>1 DEF Process, Steps
  <2>3. /\ r.cached = proc[p].cached /\ r.key = proc[p].key /\ r.goal = proc[p].goal
        /\ proc[p].at \in {"setkey", "wrotekey"} /\ r.at \in {"wrotekey", "readback"}
    BY <1>0, <1>3, <2>1 DEF Process, SetKey, At
  <2>4. proc' = [proc EXCEPT ![p] = r] BY <1>3, <2>1 DEF SetKey, At, Goto
  <2>5. Aimed(r) BY <1>0, <2>3 DEF Aimed, KeySteps, Provisioning
  <2>6. FileTypes' BY <1>0, <1>3, <1>b DEF SetKey, FileTypes, Process
  <2>7. UNCHANGED <<priv, pub, joinAuth, config, registry, server, made, refused>> BY <1>3 DEF SetKey, rest
  <2>8. ASSUME Calm PROVE FilesFit' /\ Holds(r)'
    <3>1. FilesFit /\ Holds(proc[p]) BY <2>8 DEF Calm
    <3>2. priv.under \in {None, Plain} /\ joinAuth.under \in {None, Plain} BY <2>3, <3>1 DEF Holds
    <3>3. FilesFit' BY <2>7, <3>1, <3>2 DEF FilesFit
    <3>4. Holds(r)' BY <2>3, <2>7, <3>1, <3>2 DEF Holds, KeySteps, Provisioning, Loaded
    <3> QED BY <3>3, <3>4
  <2> QED BY <1>3, <2>2, <2>4, <2>5, <2>6, <2>7, <2>8, WriteKeeps DEF SetKey, rest
<1>4. CASE ReadBack(p)
  <2>1. PICK r : r = [proc[p] EXCEPT !.at = proc[p].goal] OBVIOUS
  <2>2. proc[p].at = "readback" /\ proc[p].goal \in {"unseal", "migrate", "seal"}
    BY <1>0, <1>4 DEF ReadBack, At, Aimed, KeySteps, Provisioning, Process
  <2>3. r \in Process BY <1>0, <2>1, <2>2 DEF Process, Steps
  <2>4. r.at = proc[p].goal /\ r.goal = proc[p].goal /\ r.key = proc[p].key /\ r.cached = proc[p].cached
    BY <1>0, <2>1 DEF Process
  <2>5. proc' = [proc EXCEPT ![p] = r] BY <1>4, <2>1 DEF ReadBack, Goto
  <2>6. Aimed(r) BY <2>2, <2>4 DEF Aimed, KeySteps, Provisioning
  <2>7. ~overlap => Holds(r)
    BY <1>4, <1>a, <2>2, <2>4 DEF ReadBack, Holds, KeySteps, Provisioning, Loaded
  <2> QED BY <1>4, <2>3, <2>5, <2>6, <2>7, ReadKeeps DEF ReadBack
<1> QED BY <1>1, <1>2, <1>3, <1>4 DEF DataKey

\* The identity is unsealed, or sealed and published (openSecret, writeSecretFile).
LEMMA LoadKeeps ==
  ASSUME Inv, NEW p \in Procs, Unseal(p) \/ Seal(p) \/ WritePub(p)
  PROVE  Inv'
<1>0. proc[p] \in Process /\ Aimed(proc[p]) BY Typed DEF Inv
<1>a. ~overlap => FilesFit /\ Holds(proc[p]) BY DEF Inv, Calm
<1>b. FileTypes BY Typed DEF Inv
<1>1. CASE Unseal(p)
  <2>1. PICK r : r = [proc[p] EXCEPT !.at = "loaded", !.pub = pub] OBVIOUS
  <2>2. r \in Process BY <1>0, <1>b, <2>1 DEF Process, Steps, FileTypes
  <2>3. /\ r.at = "loaded" /\ r.pub = pub /\ r.key = proc[p].key /\ r.cached = proc[p].cached
        /\ proc[p].at = "unseal" /\ proc[p].goal = "unseal" /\ pub # None
    BY <1>0, <1>1, <2>1 DEF Process, Unseal, At, Aimed
  <2>4. proc' = [proc EXCEPT ![p] = r] BY <1>1, <2>1 DEF Unseal, Load
  <2>5. Aimed(r) BY <2>3 DEF Aimed, KeySteps, Provisioning
  <2>6. ~overlap => Holds(r)
    BY <1>a, <2>3 DEF Holds, KeySteps, Provisioning, Loaded
  <2> QED BY <1>1, <2>2, <2>4, <2>5, <2>6, ReadKeeps DEF Unseal
<1>2. CASE Seal(p)
  <2>0. UNCHANGED <<dek, pub, joinAuth, config, registry, server, made, refused>> /\ Writes(p)
    BY <1>2 DEF Seal, rest
  <2>a. /\ priv' = [is |-> proc[p].key, under |-> proc[p].cached]
        /\ priv'.is = proc[p].key /\ priv'.under = proc[p].cached
    BY <1>2 DEF Seal
  <2>b. FileTypes'
    <3>1. priv' \in Secret(Keys) BY <1>0, <2>a DEF Process, Secret
    <3> QED BY <1>b, <2>0, <3>1 DEF FileTypes
  <2>1. CASE At(p, "seal") /\ Load(p, "pub", proc[p].key)
    <3>1. PICK r : r = [proc[p] EXCEPT !.at = "pub", !.pub = proc[p].key] OBVIOUS
    <3>2. r \in Process BY <1>0, <3>1 DEF Process, Steps
    <3>3. /\ r.at = "pub" /\ r.pub = proc[p].key /\ r.key = proc[p].key /\ r.cached = proc[p].cached
          /\ proc[p].at = "seal" /\ proc[p].goal = "seal"
      BY <1>0, <2>1, <3>1 DEF Process, At, Aimed
    <3>4. proc' = [proc EXCEPT ![p] = r] BY <2>1, <3>1 DEF Load
    <3>5. Aimed(r) BY <3>3 DEF Aimed, KeySteps, Provisioning
    <3>6. ASSUME Calm PROVE FilesFit' /\ Holds(r)'
      <4>1. FilesFit /\ Holds(proc[p]) BY <3>6 DEF Calm
      <4>2. /\ pub = None /\ proc[p].key \in made \cap Keys /\ server[proc[p].key] = None
            /\ proc[p].cached \in {None, dek}
        BY <3>3, <4>1 DEF Holds, Provisioning
      <4>3. priv' # Absent BY <2>a, <4>2, NodeStateAssumption DEF Absent
      <4>4. joinAuth = Absent BY <4>1, <4>2 DEF FilesFit
      <4>5. FilesFit' BY <2>0, <2>a, <4>1, <4>2, <4>3, <4>4 DEF FilesFit
      <4>6. Holds(r)' BY <2>0, <2>a, <3>3, <4>2, <4>3 DEF Holds, KeySteps, Provisioning, Loaded
      <4> QED BY <4>5, <4>6
    <3> QED BY <2>0, <2>b, <3>2, <3>4, <3>5, <3>6, WriteKeeps DEF rest
  <2>2. CASE At(p, "migrate") /\ pub # None /\ Load(p, "loaded", pub)
    <3>1. PICK r : r = [proc[p] EXCEPT !.at = "loaded", !.pub = pub] OBVIOUS
    <3>2. r \in Process BY <1>0, <1>b, <3>1 DEF Process, Steps, FileTypes
    <3>3. /\ r.at = "loaded" /\ r.pub = pub /\ r.key = proc[p].key /\ r.cached = proc[p].cached
          /\ proc[p].at = "migrate" /\ proc[p].goal = "migrate" /\ pub # None
      BY <1>0, <2>2, <3>1 DEF Process, At, Aimed
    <3>4. proc' = [proc EXCEPT ![p] = r] BY <2>2, <3>1 DEF Load
    <3>5. Aimed(r) BY <3>3 DEF Aimed, KeySteps, Provisioning
    <3>6. ASSUME Calm PROVE FilesFit' /\ Holds(r)'
      <4>1. FilesFit /\ Holds(proc[p]) BY <3>6 DEF Calm
      <4>2. priv # Absent /\ proc[p].key = priv.is /\ proc[p].cached \in {None, dek}
        BY <3>3, <4>1 DEF Holds, Provisioning
      <4>3. priv.is \in made \cap Keys BY <4>1, <4>2 DEF FilesFit
      <4>4. priv' # Absent BY <2>a, <4>2, <4>3, NodeStateAssumption DEF Absent
      <4>5. FilesFit' BY <2>0, <2>a, <4>1, <4>2, <4>3, <4>4 DEF FilesFit
      <4>6. Holds(r)' BY <2>0, <2>a, <3>3, <4>2, <4>4 DEF Holds, KeySteps, Provisioning, Loaded
      <4> QED BY <4>5, <4>6
    <3> QED BY <2>0, <2>b, <3>2, <3>4, <3>5, <3>6, WriteKeeps DEF rest
  <2> QED BY <1>2, <2>1, <2>2 DEF Seal
<1>3. CASE WritePub(p)
  <2>1. PICK r : r = [proc[p] EXCEPT !.at = IF proc[p].at = "pub" THEN "wrotepub" ELSE "loaded"] OBVIOUS
  <2>2. r \in Process BY <1>0, <2>1 DEF Process, Steps
  <2>3. /\ r.pub = proc[p].pub /\ r.key = proc[p].key /\ r.cached = proc[p].cached
        /\ \/ proc[p].at = "pub" /\ r.at = "wrotepub" /\ pub' = Torn
           \/ proc[p].at = "wrotepub" /\ r.at = "loaded" /\ pub' = proc[p].key
    BY <1>0, <1>3, <2>1 DEF Process, WritePub, At
  <2>4. proc' = [proc EXCEPT ![p] = r] BY <1>3, <2>1 DEF WritePub, At, Goto
  <2>5. Aimed(r) BY <2>3 DEF Aimed, KeySteps, Provisioning
  <2>6. UNCHANGED <<dek, priv, joinAuth, config, registry, server, made, refused>> /\ Writes(p)
    BY <1>3 DEF WritePub, rest
  <2>7. FileTypes' BY <1>0, <1>b, <2>3, <2>6 DEF FileTypes, Process
  <2>8. ASSUME Calm PROVE FilesFit' /\ Holds(r)'
    <3>1. FilesFit /\ Holds(proc[p]) BY <2>8 DEF Calm
    <3>2. priv # Absent /\ proc[p].key = priv.is /\ proc[p].pub = proc[p].key /\ proc[p].cached \in {None, dek}
      BY <2>3, <3>1 DEF Holds, Provisioning
    <3>3. pub' # None /\ pub' \in {Torn, priv.is} BY <2>3, <3>1, <3>2, NodeStateAssumption DEF FilesFit
    <3>4. FilesFit' BY <2>6, <3>1, <3>2, <3>3 DEF FilesFit
    <3>5. Holds(r)' BY <2>3, <2>6, <3>2, <3>3 DEF Holds, KeySteps, Provisioning, Loaded
    <3> QED BY <3>4, <3>5
  <2> QED BY <2>2, <2>4, <2>5, <2>6, <2>7, <2>8, WriteKeeps DEF rest
<1> QED BY <1>1, <1>2, <1>3

\* An evaluation signs and saves its authorization (handleJoinReady, saveJoinAuth).
LEMMA EvaluateKeeps ==
  ASSUME Inv, NEW p \in Procs, JoinReady(p) \/ SaveJoinAuth(p)
  PROVE  Inv'
<1>0. proc[p] \in Process BY Typed DEF Inv
<1>a. ~overlap => FilesFit /\ Holds(proc[p]) BY DEF Inv, Calm
<1>b. FileTypes BY Typed DEF Inv
<1>1. CASE JoinReady(p)
  <2>1. PICK r : r = [proc[p] EXCEPT !.at = "check", !.job = "sign"] OBVIOUS
  <2>2. r \in Process BY <1>0, <2>1 DEF Process, Steps
  <2>3. r.at = "check" /\ r.cached = proc[p].cached /\ proc[p].at = "loaded"
    BY <1>0, <1>1, <2>1 DEF Process, JoinReady, At
  <2>4. proc' = [proc EXCEPT ![p] = r] BY <1>1, <2>1 DEF JoinReady
  <2>5. Aimed(r) BY <2>3 DEF Aimed, KeySteps, Provisioning
  <2>6. ~overlap => Holds(r) BY <1>a, <2>3 DEF Holds, KeySteps, Provisioning, Loaded
  <2> QED BY <1>1, <2>2, <2>4, <2>5, <2>6, ReadKeeps DEF JoinReady
<1>2. CASE SaveJoinAuth(p)
  <2>1. Aimed(Gone) BY GoneTyped, IdleHolds
  <2>2. /\ joinAuth' = [is |-> proc[p].key, under |-> proc[p].cached] /\ proc[p].at = "loaded"
        /\ joinAuth'.is = proc[p].key /\ joinAuth'.under = proc[p].cached
    BY <1>2 DEF SaveJoinAuth, At
  <2>3. UNCHANGED <<dek, priv, pub, config, registry, server, made, refused>> /\ Writes(p)
    BY <1>2 DEF SaveJoinAuth, rest
  <2>4. joinAuth' \in Secret(Keys) BY <1>0, <2>2 DEF Process, Secret
  <2>5. FileTypes' BY <1>b, <2>3, <2>4 DEF FileTypes
  <2>6. ASSUME Calm PROVE FilesFit'
    <3>1. FilesFit /\ Holds(proc[p]) BY <2>6 DEF Calm
    <3>2. proc[p].key = priv.is /\ pub # None /\ proc[p].cached \in {None, dek}
      BY <2>2, <3>1 DEF Holds, Loaded, Provisioning
    <3> QED BY <2>2, <2>3, <3>1, <3>2 DEF FilesFit
  <2>7. Holds(Gone)' BY GoneTyped DEF Holds, KeySteps, Provisioning, Loaded
  <2> QED BY <1>2, <2>1, <2>3, <2>5, <2>6, <2>7, GoneTyped, WriteKeeps DEF SaveJoinAuth
<1> QED BY <1>1, <1>2

\* The steps of a registration before its request (requireJoinAuthorization, assertMachineCanRegister).
LEMMA PrepareJoinKeeps ==
  ASSUME Inv, NEW p \in Procs, RequireJoinAuth(p) \/ AssertMachine(p)
  PROVE  Inv'
<1>0. proc[p] \in Process BY Typed DEF Inv
<1>a. ~overlap => FilesFit /\ Holds(proc[p]) BY DEF Inv, Calm
<1>b. FileTypes BY Typed DEF Inv
<1>1. CASE RequireJoinAuth(p)
  <2>1. PICK r : r = [proc[p] EXCEPT !.at = "auth", !.signer = joinAuth.is] OBVIOUS
  <2>2. joinAuth.is \in Keys \cup {None} BY <1>b DEF FileTypes, Secret
  <2>3. r \in Process BY <1>0, <2>1, <2>2 DEF Process, Steps
  <2>4. /\ r.at = "auth" /\ r.signer = joinAuth.is /\ r.key = proc[p].key /\ r.pub = proc[p].pub
        /\ r.cached = proc[p].cached /\ proc[p].at = "loaded" /\ joinAuth # Absent
    BY <1>0, <1>1, <2>1 DEF Process, RequireJoinAuth, At
  <2>5. proc' = [proc EXCEPT ![p] = r] BY <1>1, <2>1 DEF RequireJoinAuth
  <2>6. Aimed(r) BY <2>4 DEF Aimed, KeySteps, Provisioning
  <2>7. ~overlap => Holds(r) BY <1>a, <2>4 DEF Holds, KeySteps, Provisioning, Loaded
  <2> QED BY <1>1, <2>3, <2>5, <2>6, <2>7, ReadKeeps DEF RequireJoinAuth
<1>2. CASE AssertMachine(p)
  <2>1. PICK r : r = [proc[p] EXCEPT !.at = "post", !.machine = registry] OBVIOUS
  <2>2. r \in Process BY <1>0, <1>b, <2>1 DEF Process, Steps, FileTypes
  <2>3. /\ r.at = "post" /\ r.signer = proc[p].signer /\ r.key = proc[p].key /\ r.pub = proc[p].pub
        /\ r.machine = registry /\ r.cached = proc[p].cached /\ proc[p].at = "auth"
    BY <1>0, <1>2, <2>1 DEF Process, AssertMachine, At
  <2>4. proc' = [proc EXCEPT ![p] = r] BY <1>2, <2>1 DEF AssertMachine
  <2>5. Aimed(r) BY <2>3 DEF Aimed, KeySteps, Provisioning
  <2>6. ~overlap => Holds(r) BY <1>a, <2>3 DEF Holds, KeySteps, Provisioning, Loaded
  <2> QED BY <1>2, <2>2, <2>4, <2>5, <2>6, ReadKeeps DEF AssertMachine
<1> QED BY <1>1, <1>2

\* A process about to post holds the key that signed the authorization, or a torn one.
LEMMA PostsSigner ==
  ASSUME Inv, NEW p \in Procs, ~overlap, proc[p].at = "post"
  PROVE  /\ proc[p].pub \in {Torn, proc[p].signer} /\ proc[p].pub = pub /\ pub # None
         /\ priv.is \in made \cap Keys /\ proc[p].signer = priv.is
<1>1. FilesFit /\ Holds(proc[p]) BY DEF Inv, Calm
<1>2. proc[p].pub = pub /\ pub # None /\ joinAuth # Absent /\ proc[p].signer = joinAuth.is
  BY <1>1 DEF Holds, Loaded
<1> QED BY <1>1, <1>2 DEF FilesFit

\* The request and its answer (registerNode).
LEMMA JoinKeeps ==
  ASSUME Inv, NEW p \in Procs, Join(p) \/ JoinRefused(p)
  PROVE  Inv'
<1>0. proc[p] \in Process BY Typed DEF Inv
<1>a. ~overlap => FilesFit /\ Holds(proc[p]) BY DEF Inv, Calm
<1>b. FileTypes /\ RestTypes BY Typed DEF Inv
<1>1. CASE Join(p)
  <2>1. PICK id \in Ids : /\ server' = [server EXCEPT ![proc[p].pub] = id]
                          /\ proc' = [proc EXCEPT ![p].at = "answered", ![p].id = id]
    BY <1>1 DEF Join
  <2>2. PICK r : r = [proc[p] EXCEPT !.at = "answered", !.id = id] OBVIOUS
  <2>3. r \in Process BY <1>0, <2>2 DEF Process, Steps
  <2>4. /\ r.at = "answered" /\ r.id = id /\ r.key = proc[p].key /\ r.pub = proc[p].pub
        /\ r.machine = proc[p].machine /\ r.cached = proc[p].cached
        /\ proc[p].at = "post" /\ proc[p].pub = proc[p].signer
    BY <1>0, <1>1, <2>2 DEF Process, Join, At
  <2>5. proc' = [proc EXCEPT ![p] = r] BY <2>1, <2>2
  <2>6. Aimed(r) BY <2>4 DEF Aimed, KeySteps, Provisioning
  <2>7. UNCHANGED <<files, made, refused, overlap>> BY <1>1 DEF Join, Reads
  <2>8. FileTypes' /\ RestTypes' BY <1>b, <2>1, <2>7 DEF FileTypes, RestTypes, files
  <2>9. ASSUME ~overlap' PROVE FilesFit' /\ Holds(r)' /\ \A q \in Procs \ {p} : Holds(proc[q])'
    <3>1. FilesFit /\ Holds(proc[p]) /\ ~overlap BY <1>a, <2>7, <2>9
    <3>2. proc[p].pub = priv.is /\ priv.is \in made \cap Keys /\ proc[p].pub = pub /\ pub # None
      BY <2>4, <3>1, PostsSigner
    <3>3. \A k \in Keys : server'[k] # None => server[k] # None \/ k = priv.is
      BY <1>b, <2>1, <3>2 DEF RestTypes
    <3>4. FilesFit' BY <2>7, <3>1, <3>2, <3>3 DEF FilesFit, files
    <3>5. Holds(r)' BY <2>4, <2>7, <3>1, <3>2 DEF Holds, KeySteps, Provisioning, Loaded, files
    <3>6. ASSUME NEW q \in Procs \ {p} PROVE Holds(proc[q])'
      <4>1. proc'[q] = proc[q] /\ Holds(proc[q]) BY <2>5, <3>1, Typed DEF Inv, Calm
      <4> QED BY <2>7, <3>2, <4>1 DEF Holds, files
    <3> QED BY <3>4, <3>5, <3>6
  <2> QED BY <2>3, <2>5, <2>6, <2>8, <2>9, StepKeeps
<1>2. CASE JoinRefused(p)
  <2>1. Aimed(Gone) BY GoneTyped, IdleHolds
  <2>2. UNCHANGED <<files, server, made, overlap>> /\ refused' \in BOOLEAN BY <1>2 DEF JoinRefused, Reads
  <2>3. FileTypes' /\ RestTypes' BY <1>b, <2>2 DEF FileTypes, RestTypes, files
  <2>4. ASSUME ~overlap' PROVE FilesFit' /\ Holds(Gone)' /\ \A q \in Procs \ {p} : Holds(proc[q])'
    <3>1. FilesFit /\ ~overlap BY <1>a, <2>2, <2>4
    <3>2. ~refused' BY <1>2, <3>1, PostsSigner DEF JoinRefused, At, FilesFit
    <3>3. FilesFit' BY <2>2, <3>1, <3>2 DEF FilesFit, files
    <3>4. Holds(Gone)' BY GoneTyped DEF Holds, KeySteps, Provisioning, Loaded
    <3>5. ASSUME NEW q \in Procs \ {p} PROVE Holds(proc[q])'
      <4>1. proc'[q] = proc[q] /\ Holds(proc[q]) BY <1>2, <3>1, Typed DEF Inv, Calm, JoinRefused
      <4> QED BY <2>2, <4>1 DEF Holds, files
    <3> QED BY <3>3, <3>4, <3>5
  <2> QED BY <1>2, <2>1, <2>3, <2>4, GoneTyped, StepKeeps DEF JoinRefused
<1> QED BY <1>1, <1>2

\* What a registration leaves on the machine (saveConfig, claimMachineNode).
LEMMA SaveKeeps ==
  ASSUME Inv, NEW p \in Procs, SaveConfig(p) \/ Claim(p)
  PROVE  Inv'
<1>0. proc[p] \in Process BY Typed DEF Inv
<1>b. FileTypes BY Typed DEF Inv
<1>1. CASE SaveConfig(p)
  <2>1. PICK r : r = [proc[p] EXCEPT !.at = IF proc[p].at = "answered" THEN "saved" ELSE "claim"] OBVIOUS
  <2>2. r \in Process BY <1>0, <2>1 DEF Process, Steps
  <2>3. /\ r.pub = proc[p].pub /\ r.key = proc[p].key /\ r.cached = proc[p].cached /\ r.id = proc[p].id
        /\ \/ proc[p].at = "answered" /\ r.at = "saved" /\ config' = Torn /\ proc[p].machine \in {None, r.id}
           \/ proc[p].at = "saved" /\ r.at = "claim" /\ config' = r.id
    BY <1>0, <1>1, <2>1 DEF Process, SaveConfig, At
  <2>4. proc' = [proc EXCEPT ![p] = r] BY <1>1, <2>1 DEF SaveConfig, At, Goto
  <2>5. Aimed(r) BY <2>3 DEF Aimed, KeySteps, Provisioning
  <2>6. UNCHANGED <<dek, priv, pub, joinAuth, registry, server, made, refused>> /\ Writes(p)
    BY <1>1 DEF SaveConfig, rest
  <2>7. FileTypes' BY <1>0, <1>b, <2>3, <2>6 DEF FileTypes, Process
  <2>8. ASSUME Calm PROVE FilesFit' /\ Holds(r)'
    <3>1. FilesFit /\ Holds(proc[p]) BY <2>8 DEF Calm
    <3>2. Holds(r)' BY <2>3, <2>6, <3>1 DEF Holds, KeySteps, Provisioning, Loaded
    <3>3. registry' # None /\ config' \in Ids => config' = registry'
      BY <2>3, <2>6, <3>1, NodeStateAssumption DEF Holds
    <3>4. FilesFit' BY <2>6, <3>1, <3>3 DEF FilesFit
    <3> QED BY <3>2, <3>4
  <2> QED BY <2>2, <2>4, <2>5, <2>6, <2>7, <2>8, WriteKeeps DEF rest
<1>2. CASE Claim(p)
  <2>1. Aimed(Gone) BY GoneTyped, IdleHolds
  <2>2. UNCHANGED <<dek, priv, pub, joinAuth, config, server, made, refused>> /\ Writes(p)
    BY <1>2 DEF Claim, rest
  <2>3. FileTypes' BY <1>0, <1>2, <1>b, <2>2 DEF FileTypes, Process, Claim
  <2>4. ASSUME Calm PROVE FilesFit'
    <3>1. FilesFit /\ Holds(proc[p]) BY <2>4 DEF Calm
    <3>2. registry' = config' BY <1>2, <2>2, <3>1 DEF Claim, At, Holds
    <3> QED BY <2>2, <3>1, <3>2 DEF FilesFit
  <2>5. Holds(Gone)' BY GoneTyped DEF Holds, KeySteps, Provisioning, Loaded
  <2> QED BY <1>2, <2>1, <2>2, <2>3, <2>4, <2>5, GoneTyped, WriteKeeps DEF Claim
<1> QED BY <1>1, <1>2
-----------------------------------------------------------------------------
\* Every step of every process keeps the invariant.
LEMMA NextKeeps == Inv /\ [Next]_vars => Inv'
<1> SUFFICES ASSUME Inv, [Next]_vars PROVE Inv' OBVIOUS
<1>1. CASE Next
  <2>1. PICK p \in Procs :
          \/ (\E job \in {"eval", "register", "serve"} : Run(p, job)) \/ Exit(p)
          \/ Identify(p) \/ DataKey(p) \/ JoinReady(p) \/ SaveJoinAuth(p) \/ RegisterNode(p)
    BY <1>1 DEF Next
  <2>2. CASE Identify(p) BY <2>2, IdentifyKeeps, LoadKeeps DEF Identify
  <2>3. CASE RegisterNode(p) BY <2>3, PrepareJoinKeeps, JoinKeeps, SaveKeeps DEF RegisterNode
  <2> QED BY <2>1, <2>2, <2>3, RunExitKeep, DataKeyKeeps, EvaluateKeeps
<1>2. CASE UNCHANGED vars
  <2>1. TypeOK' BY <1>2 DEF Inv, TypeOK, vars
  <2>2. (\A p \in Procs : Aimed(proc[p]))' BY <1>2 DEF Inv, vars, Aimed
  <2>3. ~overlap' => Calm' BY <1>2 DEF Inv, vars, Calm, FilesFit, Holds
  <2> QED BY <2>1, <2>2, <2>3 DEF Inv
<1> QED BY <1>1, <1>2

\* The inductive invariant: as long as no process writes beside another, the files fit together, and
\* what a process read before it waited still holds when it acts on it.
THEOREM Invariant == Spec => []Inv
BY InitInv, NextKeeps, PTL DEF Spec

\* Every file and every process keeps its type, whatever overlaps, crashes or is torn.
THEOREM TypeCorrect == Spec => []TypeOK
<1>1. Inv => TypeOK BY DEF Inv
<1> QED BY <1>1, Invariant, PTL

\* Whatever is sealed opens with the data key on disk, as long as no two processes provision at once
\* (getOrCreateDataKey, keyfileAdapter.get).
THEOREM SealedOpens == Spec => []SecretsOpen
<1>1. Inv => SecretsOpen BY DEF Inv, Calm, FilesFit, SecretsOpen
<1> QED BY <1>1, Invariant, PTL

\* The join request carries the key its authorization was signed with, and config and registry name
\* one node (registerNode, assertMachineCanRegister, claimMachineNode).
THEOREM JoinsConsistently == Spec => []JoinConsistent
<1>1. Inv => JoinConsistent BY DEF Inv, Calm, FilesFit, JoinConsistent
<1> QED BY <1>1, Invariant, PTL

\* The identity a node is registered with is never replaced (loadOrCreateIdentity, readSecretFile).
THEOREM IdentityIsKept == Spec => IdentityKept
<1> DEFINE Kept == \A k \in Keys : server[k] # None /\ priv.is = k /\ ~overlap' => priv'.is = k
<1>1. Inv /\ [Next]_vars => [Kept]_vars
  <2> SUFFICES ASSUME Inv, Next PROVE Kept BY DEF vars
  <2> SUFFICES ASSUME NEW k \in Keys, server[k] # None, priv.is = k, ~overlap' PROVE priv'.is = k
    OBVIOUS
  <2>1. CASE UNCHANGED priv BY <2>1
  <2>2. ASSUME NEW p \in Procs, Seal(p) PROVE priv'.is = k
    <3>1. priv'.is = proc[p].key /\ ~overlap BY <2>2 DEF Seal, Writes
    <3>2. FilesFit /\ Holds(proc[p]) /\ Aimed(proc[p]) BY <3>1 DEF Inv, Calm
    <3>3. CASE At(p, "seal") BY <3>2, <3>3 DEF At, Aimed, Holds, FilesFit
    <3>4. CASE At(p, "migrate") BY <3>1, <3>2, <3>4 DEF At, Aimed, Holds
    <3> QED BY <2>2, <3>3, <3>4 DEF Seal
  <2>3. UNCHANGED priv \/ \E p \in Procs : Seal(p)
    BY DEF Next, Run, Exit, Identify, CheckBoth, Generate, Open, Unseal, WritePub, DataKey, GetDek, Mint,
           SetKey, ReadBack, JoinReady, SaveJoinAuth, RegisterNode, RequireJoinAuth, AssertMachine, Join,
           JoinRefused, SaveConfig, Claim, files
  <2> QED BY <2>1, <2>2, <2>3
<1> QED BY <1>1, Invariant, PTL DEF Spec, IdentityKept
=============================================================================
