----------------------------- MODULE NodeState -----------------------------
(***************************************************************************)
(* The files a node lives on, and the processes that create them: the data *)
(* key outside the state directory (src/src/node/secret-store.ts), the     *)
(* identity sealed under it (src/src/crypto/identity.ts), the join         *)
(* authorization that an evaluation leaves behind                          *)
(* (src/src/clients/eval-client.ts), the config and the machine registry   *)
(* that a registration writes (src/src/registration/join.ts,               *)
(* src/src/node/machine.ts).                                               *)
(*                                                                         *)
(* A secret is replaced by a rename, all at once.  The data key, the       *)
(* public key and the config are written in place, so a crash leaves them  *)
(* torn.  Processes may overlap and crash at every step.                   *)
(***************************************************************************)
EXTENDS Naturals, FiniteSets

CONSTANTS
  Procs,   \* processes that use one state directory
  Keys,    \* identities that may be generated
  Deks,    \* data keys that may be minted
  Ids,     \* node ids the orchestrator may assign
  None,
  Torn,    \* the content of a file whose writing was cut short
  Plain    \* a secret from before there was a data key

ASSUME NodeStateAssumption ==
  /\ None \notin Keys \cup Deks \cup Ids /\ Torn \notin Keys \cup Deks \cup Ids /\ Plain \notin Deks
  /\ Torn # None /\ Plain # None

VARIABLES
  dek,       \* the key file: None (absent), Torn, or a data key
  priv,      \* node.key: the identity and what it is sealed under
  pub,       \* node.pub
  joinAuth,  \* join-auth.json: the identity that signed it, and what it is sealed under
  config,    \* config.json: node_id; Torn reads as no config at all
  registry,  \* machine.json: node_id
  proc,      \* per process, where it is and what it holds
  server,    \* the orchestrator: per identity, its node id
  \* History.
  made,      \* identities and data keys that were generated
  overlap,   \* a file was written while another process was at work on the same files
  refused    \* a join request was refused because its whole key did not sign its authorization

vars == <<dek, priv, pub, joinAuth, config, registry, proc, server, made, overlap, refused>>

Secret(what) == [is : what \cup {None}, under : Deks \cup {Plain, None}]
Absent == [is |-> None, under |-> None]

Steps == {"idle", "check", "open", "dek", "setkey", "wrotekey", "readback", "unseal", "migrate", "seal",
          "pub", "wrotepub", "loaded", "auth", "post", "answered", "saved", "claim"}

Gone == [at |-> "idle", job |-> "none", key |-> None, under |-> None, pub |-> None, cached |-> None,
         goal |-> "none", signer |-> None, machine |-> None, id |-> None]

TypeOK ==
  /\ dek \in Deks \cup {None, Torn} /\ pub \in Keys \cup {None, Torn}
  /\ priv \in Secret(Keys) /\ joinAuth \in Secret(Keys)
  /\ config \in Ids \cup {None, Torn} /\ registry \in Ids \cup {None}
  /\ proc \in [Procs -> [at : Steps, job : {"none", "eval", "sign", "register", "serve"},
                         key : Keys \cup {None}, under : Deks \cup {Plain, None},
                         pub : Keys \cup {None, Torn},
                         cached : Deks \cup {None}, signer : Keys \cup {None},
                         goal : {"none", "unseal", "migrate", "seal"},
                         machine : Ids \cup {None}, id : Ids \cup {None}]]
  /\ server \in [Keys -> Ids \cup {None}]
  /\ made \subseteq Keys \cup Deks
  /\ overlap \in BOOLEAN /\ refused \in BOOLEAN
-----------------------------------------------------------------------------
\* A new machine, or one that was set up and registered before secrets were sealed.
Init ==
  /\ dek = None /\ joinAuth = Absent
  /\ \/ /\ priv = Absent /\ pub = None /\ config = None /\ registry = None
        /\ server = [k \in Keys |-> None] /\ made = {}
     \/ \E k \in Keys, id \in Ids :
          /\ priv = [is |-> k, under |-> Plain] /\ pub = k /\ config = id /\ registry = id
          /\ server = [x \in Keys |-> IF x = k THEN id ELSE None] /\ made = {k}
  /\ proc = [p \in Procs |-> Gone]
  /\ overlap = FALSE /\ refused = FALSE

At(p, step) == proc[p].at = step
Goto(p, step) == proc' = [proc EXCEPT ![p].at = step]

\* p writes a file; whoever else is under way may hold what it read before.
Writes(p) == overlap' = (overlap \/ \E q \in Procs \ {p} : ~At(q, "idle"))
Reads == UNCHANGED overlap

files == <<dek, priv, pub, joinAuth, config, registry>>
rest == <<server, made, refused>>

\* An evaluation, a registration, or the control tunnel and the runtime server, which only load the
\* identity.
Run(p, job) ==
  /\ At(p, "idle")
  /\ proc' = [proc EXCEPT ![p] = [Gone EXCEPT !.at = "check", !.job = job]]
  /\ Reads /\ UNCHANGED <<files, rest>>

\* A crash, or an error that ends the process.
Exit(p) ==
  /\ ~At(p, "idle")
  /\ proc' = [proc EXCEPT ![p] = Gone]
  /\ Reads /\ UNCHANGED <<files, rest>>

\* loadOrCreateIdentity: both files are there.
CheckBoth(p) ==
  /\ At(p, "check") /\ priv # Absent /\ pub # None
  /\ Goto(p, "open")
  /\ Reads /\ UNCHANGED <<files, rest>>

\* Mutant of Generate: a key file that cannot be read is taken for an absent one.
GenerateOnError(p) ==
  /\ (At(p, "check") /\ ~(priv # Absent /\ pub # None)) \/ At(p, "open")
  /\ \E k \in Keys \ made :
       /\ proc' = [proc EXCEPT ![p].key = k, ![p].at = "dek", ![p].goal = "seal"]
       /\ made' = made \cup {k}
  /\ Reads /\ UNCHANGED <<files, server, refused>>

\* One of them is missing, or the private key has gone since: a new identity.  No action removes
\* or empties a file, so one is missing only where none was registered yet.
Generate(p) ==
  /\ (At(p, "check") /\ ~(priv # Absent /\ pub # None)) \/ (At(p, "open") /\ priv = Absent)
  /\ \E k \in Keys \ made :
       /\ proc' = [proc EXCEPT ![p].key = k, ![p].at = "dek", ![p].goal = "seal"]
       /\ made' = made \cup {k}
  /\ Reads /\ UNCHANGED <<files, server, refused>>

\* readSecretFile: sealed, or from before there was a data key.  An unreadable file ends the process.
Open(p) ==
  /\ At(p, "open") /\ priv # Absent
  /\ proc' = [proc EXCEPT ![p].key = priv.is, ![p].under = priv.under, ![p].at = "dek",
                          ![p].goal = IF priv.under = Plain THEN "migrate" ELSE "unseal"]
  /\ Reads /\ UNCHANGED <<files, rest>>
-----------------------------------------------------------------------------
\* Mutant of GetDek: the length of the key is not checked.
GetDekUnchecked(p) ==
  /\ At(p, "dek") /\ (proc[p].cached # None \/ dek # None)
  /\ proc' = [proc EXCEPT ![p].cached = IF @ = None THEN dek ELSE @, ![p].at = proc[p].goal]
  /\ Reads /\ UNCHANGED <<files, rest>>

\* getOrCreateDataKey: the key this process has, or the one on file.  A malformed or unreadable key
\* file ends the process.
GetDek(p) ==
  /\ At(p, "dek") /\ (proc[p].cached # None \/ dek \in Deks)
  /\ proc' = [proc EXCEPT ![p].cached = IF @ = None THEN dek ELSE @, ![p].at = proc[p].goal]
  /\ Reads /\ UNCHANGED <<files, rest>>

\* Mutant of Mint: a key file that cannot be read is taken for an absent one.
MintOnError(p) ==
  /\ At(p, "dek") /\ proc[p].cached = None
  /\ \E d \in Deks \ made :
       /\ proc' = [proc EXCEPT ![p].cached = d, ![p].at = "setkey"]
       /\ made' = made \cup {d}
  /\ Reads /\ UNCHANGED <<files, server, refused>>

Mint(p) ==
  /\ At(p, "dek") /\ proc[p].cached = None /\ dek = None
  /\ \E d \in Deks \ made :
       /\ proc' = [proc EXCEPT ![p].cached = d, ![p].at = "setkey"]
       /\ made' = made \cup {d}
  /\ Reads /\ UNCHANGED <<files, server, refused>>

\* keyfileAdapter.set: truncated, then written.
SetKey(p) ==
  /\ \/ At(p, "setkey") /\ dek' = Torn /\ Goto(p, "wrotekey")
     \/ At(p, "wrotekey") /\ dek' = proc[p].cached /\ Goto(p, "readback")
  /\ Writes(p) /\ UNCHANGED <<priv, pub, joinAuth, config, registry, rest>>

\* The key is read back, and anything else ends the process.
ReadBack(p) ==
  /\ At(p, "readback") /\ dek = proc[p].cached
  /\ Goto(p, proc[p].goal)
  /\ Reads /\ UNCHANGED <<files, rest>>
-----------------------------------------------------------------------------
\* The identity in hand: the private key, and the public key as its file has it.
Load(p, step, public) == proc' = [proc EXCEPT ![p].at = step, ![p].pub = public]

\* openSecret, of the envelope read before: a wrong key fails authentication, which ends the process.
Unseal(p) ==
  /\ At(p, "unseal") /\ proc[p].under = proc[p].cached /\ pub # None
  /\ Load(p, "loaded", pub)
  /\ Reads /\ UNCHANGED <<files, rest>>

\* writeSecretFile in place of a plain secret, or of nothing.
Seal(p) ==
  /\ priv' = [is |-> proc[p].key, under |-> proc[p].cached]
  /\ \/ At(p, "seal") /\ Load(p, "pub", proc[p].key)
     \/ At(p, "migrate") /\ pub # None /\ Load(p, "loaded", pub)
  /\ Writes(p) /\ UNCHANGED <<dek, pub, joinAuth, config, registry, rest>>

\* node.pub: truncated, then written.
WritePub(p) ==
  /\ \/ At(p, "pub") /\ pub' = Torn /\ Goto(p, "wrotepub")
     \/ At(p, "wrotepub") /\ pub' = proc[p].key /\ Goto(p, "loaded")
  /\ Writes(p) /\ UNCHANGED <<dek, priv, joinAuth, config, registry, rest>>

\* The evaluation is over: handleJoinReady loads the identity a second time.
JoinReady(p) ==
  /\ At(p, "loaded") /\ proc[p].job = "eval"
  /\ proc' = [proc EXCEPT ![p].at = "check", ![p].job = "sign"]
  /\ Reads /\ UNCHANGED <<files, rest>>

\* The nonce is signed and the authorization sealed.
SaveJoinAuth(p) ==
  /\ At(p, "loaded") /\ proc[p].job = "sign"
  /\ joinAuth' = [is |-> proc[p].key, under |-> proc[p].cached]
  /\ proc' = [proc EXCEPT ![p] = Gone]
  /\ Writes(p) /\ UNCHANGED <<dek, priv, pub, config, registry, rest>>
-----------------------------------------------------------------------------
\* requireJoinAuthorization: there, sealed under this key and not expired.
RequireJoinAuth(p) ==
  /\ At(p, "loaded") /\ proc[p].job = "register"
  /\ joinAuth # Absent /\ joinAuth.under = proc[p].cached
  /\ proc' = [proc EXCEPT ![p].at = "auth", ![p].signer = joinAuth.is]
  /\ Reads /\ UNCHANGED <<files, rest>>

Existing == IF config = Torn THEN None ELSE config

\* loadConfig and assertMachineCanRegister, of one state directory.
AssertMachine(p) ==
  /\ At(p, "auth")
  /\ registry # None /\ Existing # None => registry = Existing
  /\ proc' = [proc EXCEPT ![p].at = "post", ![p].machine = registry]
  /\ Reads /\ UNCHANGED <<files, rest>>

\* POST /node/join.  The orchestrator checks the signature with the key it is sent.  Nothing in the
\* node relies on its assigning the same id twice.
Join(p) ==
  /\ At(p, "post") /\ proc[p].pub = proc[p].signer
  /\ \E id \in Ids :
       /\ server' = [server EXCEPT ![proc[p].pub] = id]
       /\ proc' = [proc EXCEPT ![p].at = "answered", ![p].id = id]
  /\ Reads /\ UNCHANGED <<files, made, refused>>

\* A refusal because node.pub was cut short is not counted in refused.
JoinRefused(p) ==
  /\ At(p, "post") /\ proc[p].pub # proc[p].signer
  /\ refused' = (refused \/ proc[p].pub # Torn)
  /\ proc' = [proc EXCEPT ![p] = Gone]
  /\ Reads /\ UNCHANGED <<files, server, made>>

\* Mutant of SaveConfig: the answer is not compared with the machine's node.
SaveConfigUnchecked(p) ==
  /\ \/ At(p, "answered") /\ config' = Torn /\ Goto(p, "saved")
     \/ At(p, "saved") /\ config' = proc[p].id /\ Goto(p, "claim")
  /\ Writes(p) /\ UNCHANGED <<dek, priv, pub, joinAuth, registry, rest>>

\* The answer may not name another node than the machine's; saveConfig truncates, then writes.
SaveConfig(p) ==
  /\ \/ At(p, "answered") /\ proc[p].machine \in {None, proc[p].id} /\ config' = Torn /\ Goto(p, "saved")
     \/ At(p, "saved") /\ config' = proc[p].id /\ Goto(p, "claim")
  /\ Writes(p) /\ UNCHANGED <<dek, priv, pub, joinAuth, registry, rest>>

\* claimMachineNode asserts again, and replaces machine.json by a rename.
Claim(p) ==
  /\ At(p, "claim") /\ registry \in {None, proc[p].id}
  /\ registry' = proc[p].id
  /\ proc' = [proc EXCEPT ![p] = Gone]
  /\ Writes(p) /\ UNCHANGED <<dek, priv, pub, joinAuth, config, rest>>

Identify(p) == CheckBoth(p) \/ Generate(p) \/ Open(p) \/ Unseal(p) \/ Seal(p) \/ WritePub(p)
DataKey(p) == GetDek(p) \/ Mint(p) \/ SetKey(p) \/ ReadBack(p)
RegisterNode(p) == RequireJoinAuth(p) \/ AssertMachine(p) \/ Join(p) \/ JoinRefused(p) \/ SaveConfig(p) \/ Claim(p)

Next == \E p \in Procs :
  \/ \E job \in {"eval", "register", "serve"} : Run(p, job)
  \/ Identify(p) \/ DataKey(p) \/ JoinReady(p) \/ SaveJoinAuth(p) \/ RegisterNode(p) \/ Exit(p)

Spec == Init /\ [][Next]_vars
-----------------------------------------------------------------------------
\* Whatever is sealed opens with the data key on disk: no key is replaced that seals something
\* (getOrCreateDataKey, keyfileAdapter.get), as long as no two processes provision at once.
SecretsOpen == ~overlap => \A s \in {priv, joinAuth} : s.under \in {None, Plain, dek}

\* The identity a node is registered with is never replaced, by whatever a crash of the node's own
\* processes left missing or torn, nor by a key that cannot be read (loadOrCreateIdentity,
\* readSecretFile).  Files that someone else removes or empties are not in the model: without
\* node.pub, or with an empty node.key, the code does replace the identity.
IdentityKept ==
  [][\A k \in Keys : server[k] # None /\ priv.is = k /\ ~overlap' => priv'.is = k]_vars

\* The join request carries the key its authorization was signed with, and config and registry name
\* one node, wherever an earlier evaluation or registration stopped (registerNode,
\* assertMachineCanRegister, claimMachineNode).  A node.pub cut short is excepted: it is sent as it
\* is and the join refused, each time.
JoinConsistent ==
  ~overlap => /\ ~refused
              /\ registry # None /\ config \in Ids => config = registry

\* Every secret on disk can be opened, also where processes overlap: what the comment at the read-back
\* of getOrCreateDataKey is about.
SealedUnderStoredKey == dek \in Deks => \A s \in {priv, joinAuth} : s.under \in {None, Plain, dek}
=============================================================================
