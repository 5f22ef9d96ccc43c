---------------------- MODULE EnvironmentEditing_proofs ----------------------
(***************************************************************************)
(* Proofs about EnvironmentEditing, for any variables and values and any   *)
(* number of edits and patches: type correctness, that edits of one        *)
(* variable leave the others to the scripts, and that nothing but UNDO     *)
(* brings a deleted environment back.                                      *)
(***************************************************************************)
EXTENDS EnvironmentEditing, SequenceTheorems, TLAPS

Envs == Env \cup {NoEnv}

\* Two environments that differ in nothing but the variables ks.
Alike(a, b, ks) == \A k \in Key \ ks : SameAt(k, a, b)

\* An environment agrees with what was asked for, but for edited variables.
Agrees(env, asked, ks) ==
  /\ env = NoEnv <=> asked = NoEnv
  /\ env # NoEnv => Alike(env, asked, ks)

\* The editor differs from what it was built with where the user has typed.
Screens ==
  /\ widget = NoEnv <=> draft = NoEnv
  /\ draft # NoEnv => Alike(draft, widget, edited)

\* And so does every update that was sent.
Updates ==
  \A i \in DOMAIN commands :
    commands[i].kind = "update" => Alike(commands[i].new, commands[i].previous, edited)

\* f[i] is what will be stored after the first i commands.
Plays(f) ==
  f = [i \in 0..Len(commands) |-> IF i = 0 THEN stored ELSE Effect(f[i - 1], commands[i])]

\* The commands that wait lead to what was asked for.  That there is one such
\* function, and what any of them ends with, is kept step by step.
Foretold ==
  /\ \E f : Plays(f)
  /\ \A f : Plays(f) => /\ f[Len(commands)] \in Envs
                        /\ Agrees(f[Len(commands)], ledger, edited)

IInv == TypeOK /\ Screens /\ Updates /\ Foretold

-----------------------------------------------------------------------------
(* Environments. *)

\* NoEnv can be told from every environment.
LEMMA NoEnvIsNone == NoEnv \notin Env
BY EditingAssumption DEF Env

\* An environment without secrecy for keys that are gone is one.
LEMMA PrunedIsEnv ==
  ASSUME NEW values \in [Key -> Value \cup {Unset}], NEW secret \in SUBSET Key
  PROVE  Pruned(values, secret) \in Env
BY DEF Pruned, Env

\* A patch of a script changes its own key only.
LEMMA PatchedIsEnv ==
  ASSUME NEW env \in Env, NEW k \in Key, NEW v \in Value \cup {Unset}
  PROVE  /\ Patched(env, k, v) \in Env
         /\ \A j \in Key \ {k} : SameAt(j, Patched(env, k, v), env)
<1>1. [env.values EXCEPT ![k] = v] \in [Key -> Value \cup {Unset}] BY DEF Env
<1>2. Patched(env, k, v) \in Env BY <1>1, PrunedIsEnv DEF Env, Patched
<1>3. \A j \in Key \ {k} : SameAt(j, Patched(env, k, v), env)
  BY <1>1 DEF Env, Patched, Pruned, SameAt
<1> QED BY <1>2, <1>3

\* The three-way merge takes over no key in which the two copies agree.
LEMMA MergedIsEnv ==
  ASSUME NEW env \in Env, NEW new \in Env, NEW previous \in Env
  PROVE  /\ Merged(env, new, previous) \in Env
         /\ \A j \in Key : SameAt(j, new, previous) => SameAt(j, Merged(env, new, previous), env)
<1> DEFINE values == [k \in Key |-> IF new.values[k] # previous.values[k]
                                    THEN new.values[k] ELSE env.values[k]]
           secret == (env.secret \ (previous.secret \ new.secret))
                       \cup (new.secret \ previous.secret)
<1>1. values \in [Key -> Value \cup {Unset}] /\ secret \in SUBSET Key BY DEF Env
<1>2. Merged(env, new, previous) = Pruned(values, secret) BY DEF Merged
<1>3. Merged(env, new, previous) \in Env BY <1>1, <1>2, PrunedIsEnv
<1>4. ASSUME NEW j \in Key, SameAt(j, new, previous)
      PROVE  SameAt(j, Pruned(values, secret), env)
  BY <1>1, <1>4 DEF Env, Pruned, SameAt
<1> QED BY <1>2, <1>3, <1>4

\* Turning the lock of one variable.
LEMMA LockIsEnv ==
  ASSUME NEW env \in Env, NEW k \in Key, NEW secret \in {env.secret \cup {k}, env.secret \ {k}}
  PROVE  /\ Pruned(env.values, secret) \in Env
         /\ \A j \in Key \ {k} : SameAt(j, Pruned(env.values, secret), env)
<1>1. env.values \in [Key -> Value \cup {Unset}] /\ secret \in SUBSET Key BY DEF Env
<1>2. Pruned(env.values, secret) \in Env BY <1>1, PrunedIsEnv
<1>3. \A j \in Key \ {k} : SameAt(j, Pruned(env.values, secret), env)
  BY DEF Env, Pruned, SameAt
<1> QED BY <1>2, <1>3

\* To agree in a key is an equivalence.
LEMMA SameAtFacts ==
  ASSUME NEW k, NEW a, NEW b, NEW c
  PROVE  /\ SameAt(k, a, a)
         /\ SameAt(k, a, b) => SameAt(k, b, a)
         /\ SameAt(k, a, b) /\ SameAt(k, b, c) => SameAt(k, a, c)
BY DEF SameAt

-----------------------------------------------------------------------------
(* Commands. *)

\* What a command leaves on the worker is an environment, or none.
LEMMA EffectTyped ==
  ASSUME NEW env \in Envs, NEW c \in Commands
  PROVE  Effect(env, c) \in Envs
<1>1. CASE c.kind = "put"
  <2>1. c.new \in Env BY <1>1 DEF Commands
  <2> QED BY <1>1, <2>1 DEF Effect, Envs
<1>2. CASE c.kind = "delete"
  BY <1>2 DEF Effect, Envs
<1>3. CASE c.kind \in {"update", "patch"} /\ env = NoEnv
  BY <1>3 DEF Effect, Envs
<1>4. CASE c.kind = "update" /\ env # NoEnv
  <2>1. env \in Env /\ c.new \in Env /\ c.previous \in Env BY <1>4 DEF Commands, Envs
  <2>2. Effect(env, c) = Merged(env, c.new, c.previous) BY <1>4 DEF Effect
  <2> QED BY <2>1, <2>2, MergedIsEnv DEF Envs
<1>5. CASE c.kind = "patch" /\ env # NoEnv
  <2>1. env \in Env /\ c.key \in Key /\ c.value \in Value \cup {Unset}
    BY <1>5 DEF Commands, Envs
  <2>2. Effect(env, c) = Patched(env, c.key, c.value) BY <1>5 DEF Effect
  <2> QED BY <2>1, <2>2, PatchedIsEnv DEF Envs
<1>6. c.kind \in {"put", "delete", "update", "patch"} BY DEF Commands
<1> QED BY <1>1, <1>2, <1>3, <1>4, <1>5, <1>6

\* Each kind of command is a command.
LEMMA CommandsTyped ==
  /\ \A new \in Env, previous \in Env : Update(new, previous) \in Commands
  /\ \A k \in Key, v \in Value \cup {Unset} : Patch(k, v) \in Commands
  /\ \A new \in Env : Put(new) \in Commands
  /\ Delete \in Commands
BY DEF Update, Patch, Put, Delete, Commands

\* What each command does to the agreement with what was asked for.
LEMMA UpdateAgrees ==
  ASSUME NEW env \in Envs, NEW asked \in Envs, NEW ks \in SUBSET Key,
         NEW new \in Env, NEW previous \in Env, NEW next \in Env,
         Alike(new, previous, ks), Alike(next, asked, ks) \/ asked = NoEnv,
         Agrees(env, asked, ks)
  PROVE  Agrees(Effect(env, Update(new, previous)),
                IF asked = NoEnv THEN NoEnv ELSE next, ks)
<1>1. CASE env = NoEnv
  BY <1>1 DEF Agrees, Effect, Update
<1>2. CASE env # NoEnv
  <2>1. env \in Env /\ asked \in Env /\ asked # NoEnv BY <1>2 DEF Agrees, Envs
  <2>2. Effect(env, Update(new, previous)) = Merged(env, new, previous)
    BY <1>2 DEF Effect, Update
  <2>3. Merged(env, new, previous) \in Env /\ Alike(Merged(env, new, previous), env, ks)
    BY <2>1, MergedIsEnv DEF Alike
  <2>4. Alike(env, asked, ks) /\ Alike(next, asked, ks) BY <1>2, <2>1 DEF Agrees
  <2>5. Alike(Merged(env, new, previous), next, ks)
    BY <2>3, <2>4, SameAtFacts DEF Alike
  <2> QED BY <2>1, <2>2, <2>3, <2>5, NoEnvIsNone DEF Agrees
<1> QED BY <1>1, <1>2

\* The same patch on both sides keeps them in agreement.
LEMMA PatchAgrees ==
  ASSUME NEW env \in Envs, NEW asked \in Envs, NEW ks \in SUBSET Key,
         NEW k \in Key, NEW v \in Value \cup {Unset}, Agrees(env, asked, ks)
  PROVE  Agrees(Effect(env, Patch(k, v)),
                IF asked = NoEnv THEN NoEnv ELSE Patched(asked, k, v), ks)
<1>1. CASE env = NoEnv
  BY <1>1 DEF Agrees, Effect, Patch
<1>2. CASE env # NoEnv
  <2>1. env \in Env /\ asked \in Env /\ asked # NoEnv BY <1>2 DEF Agrees, Envs
  <2>2. Effect(env, Patch(k, v)) = Patched(env, k, v) BY <1>2 DEF Effect, Patch
  <2>3. /\ Patched(env, k, v) \in Env
        /\ Patched(asked, k, v) \in Env
    BY <2>1, PatchedIsEnv
  <2>4. Alike(env, asked, ks) BY <1>2 DEF Agrees
  <2>5. ASSUME NEW j \in Key \ ks
        PROVE  SameAt(j, Patched(env, k, v), Patched(asked, k, v))
    <3>1. SameAt(j, env, asked) BY <2>4 DEF Alike
    <3> QED BY <2>1, <3>1 DEF SameAt, Patched, Pruned, Env
  <2> QED BY <2>1, <2>2, <2>3, <2>5, NoEnvIsNone DEF Agrees, Alike
<1> QED BY <1>1, <1>2

\* A put and a deletion leave what was asked for, whatever was there.
LEMMA PutAndDeleteAgree ==
  ASSUME NEW env \in Envs, NEW new \in Env, NEW ks \in SUBSET Key
  PROVE  Agrees(Effect(env, Put(new)), new, ks) /\ Agrees(Effect(env, Delete), NoEnv, ks)
BY SameAtFacts DEF Agrees, Alike, Effect, Put, Delete

\* Agreement about fewer variables is easier.
LEMMA AgreesMore ==
  ASSUME NEW env, NEW asked, NEW ks, NEW more, ks \subseteq more, Agrees(env, asked, ks)
  PROVE  Agrees(env, asked, more)
BY DEF Agrees, Alike

-----------------------------------------------------------------------------
(* The commands that wait. *)

\* What appending does to each place of a sequence.
LEMMA Appended ==
  ASSUME NEW S, NEW s \in Seq(S), NEW e \in S
  PROVE  /\ Append(s, e) \in Seq(S) /\ Len(Append(s, e)) = Len(s) + 1
         /\ DOMAIN Append(s, e) = 1..(Len(s) + 1) /\ Len(s) \in Nat
         /\ \A i \in 1..Len(s) : Append(s, e)[i] = s[i]
         /\ Append(s, e)[Len(s) + 1] = e
OBVIOUS

\* What taking the head does to each place of a sequence.
LEMMA Dequeued ==
  ASSUME NEW S, NEW s \in Seq(S), s # <<>>
  PROVE  /\ Tail(s) \in Seq(S) /\ Len(Tail(s)) = Len(s) - 1 /\ Len(s) \in Nat \ {0}
         /\ Head(s) = s[1] /\ s[1] \in S
         /\ \A i \in 1..(Len(s) - 1) : Tail(s)[i] = s[i + 1]
OBVIOUS

\* A command is sent: what it leads to is its effect on what the others lead to.
LEMMA SendForetells ==
  ASSUME Foretold, commands \in Seq(Commands), NEW c \in Commands,
         commands' = Append(commands, c), stored' = stored,
         \A env \in Envs : Agrees(env, ledger, edited)
           => Agrees(Effect(env, c), ledger', edited')
  PROVE  Foretold'
<1> DEFINE n == Len(commands)
<1>0. /\ Len(commands') = n + 1 /\ n \in Nat
      /\ \A i \in 1..n : commands'[i] = commands[i]
      /\ commands'[n + 1] = c
  BY Appended
<1>1. \E g : Plays(g)'
  <2>1. PICK f : Plays(f) BY DEF Foretold
  <2> DEFINE g == [i \in 0..(n + 1) |-> IF i = n + 1 THEN Effect(f[n], c) ELSE f[i]]
  <2>2. ASSUME NEW i \in 0..(n + 1)
        PROVE  g[i] = IF i = 0 THEN stored ELSE Effect(g[i - 1], commands'[i])
    <3>1. \A j \in 0..n : f[j] = IF j = 0 THEN stored ELSE Effect(f[j - 1], commands[j])
      BY <2>1 DEF Plays
    <3>2. CASE i = n + 1 BY <1>0, <3>2
    <3>3. CASE i # n + 1
      <4>1. i \in 0..n /\ g[i] = f[i] BY <1>0, <3>3
      <4>2. CASE i = 0 BY <3>1, <4>1, <4>2
      <4>3. CASE i # 0
        <5>1. i \in 1..n /\ i - 1 \in 0..n /\ i - 1 # n + 1 BY <1>0, <4>1, <4>3
        <5>2. g[i - 1] = f[i - 1] BY <1>0, <5>1
        <5> QED BY <1>0, <3>1, <4>1, <4>3, <5>1, <5>2
      <4> QED BY <4>2, <4>3
    <3> QED BY <3>2, <3>3
  <2>3. g = [i \in 0..(n + 1) |-> IF i = 0 THEN stored ELSE Effect(g[i - 1], commands'[i])]
    BY <2>2
  <2> QED BY <1>0, <2>3 DEF Plays
<1>2. ASSUME NEW g, Plays(g)'
      PROVE  (g[Len(commands)] \in Envs /\ Agrees(g[Len(commands)], ledger, edited))'
  <2> DEFINE f == [i \in 0..n |-> g[i]]
  <2>1. \A i \in 0..(n + 1) : g[i] = IF i = 0 THEN stored ELSE Effect(g[i - 1], commands'[i])
    BY <1>0, <1>2 DEF Plays
  <2>2. \A i \in 0..n : f[i] = IF i = 0 THEN stored ELSE Effect(f[i - 1], commands[i])
    BY <1>0, <2>1
  <2>3. Plays(f) BY <2>2 DEF Plays
  <2>4. f[n] \in Envs /\ Agrees(f[n], ledger, edited) BY <2>3 DEF Foretold
  <2>5. g[n + 1] = Effect(f[n], c) BY <1>0, <2>1
  <2>6. Effect(f[n], c) \in Envs /\ Agrees(Effect(f[n], c), ledger', edited')
    BY <2>4, EffectTyped
  <2> QED BY <1>0, <2>5, <2>6 DEF Envs
<1> QED BY <1>1, <1>2 DEF Foretold

\* The first one is executed.
LEMMA ExecuteForetells ==
  ASSUME Foretold, commands \in Seq(Commands), commands # <<>>,
         commands' = Tail(commands), stored' = Effect(stored, Head(commands)),
         ledger' = ledger, edited' = edited
  PROVE  Foretold'
<1> DEFINE n == Len(commands)
<1>0. /\ Len(commands') = n - 1 /\ n \in Nat \ {0} /\ Head(commands) = commands[1]
      /\ \A i \in 1..(n - 1) : commands'[i] = commands[i + 1]
  BY Dequeued
<1>1. \E g : Plays(g)'
  <2>1. PICK f : Plays(f) BY DEF Foretold
  <2> DEFINE g == [i \in 0..(n - 1) |-> f[i + 1]]
  <2>2. \A i \in 0..n : f[i] = IF i = 0 THEN stored ELSE Effect(f[i - 1], commands[i])
    BY <2>1 DEF Plays
  <2>3. \A i \in 0..(n - 1) : g[i] = IF i = 0 THEN stored' ELSE Effect(g[i - 1], commands'[i])
    <3>1. g[0] = stored' BY <1>0, <2>2
    <3>2. ASSUME NEW i \in 1..(n - 1) PROVE g[i] = Effect(g[i - 1], commands'[i])
      <4>1. f[i + 1] = Effect(f[i], commands[i + 1]) BY <1>0, <2>2
      <4>2. g[i] = f[i + 1] /\ g[i - 1] = f[i] BY <1>0
      <4> QED BY <1>0, <4>1, <4>2
    <3> HIDE DEF g
    <3>3. \A i \in 0..(n - 1) : i = 0 \/ i \in 1..(n - 1) BY <1>0
    <3> QED BY <3>1, <3>2, <3>3
  <2>4. g = [i \in 0..(n - 1) |-> IF i = 0 THEN stored' ELSE Effect(g[i - 1], commands'[i])]
    BY <2>3
  <2> QED BY <1>0, <2>4 DEF Plays
<1>2. ASSUME NEW g, Plays(g)'
      PROVE  (g[Len(commands)] \in Envs /\ Agrees(g[Len(commands)], ledger, edited))'
  <2> DEFINE f == [i \in 0..n |-> IF i = 0 THEN stored ELSE g[i - 1]]
  <2>1. \A i \in 0..(n - 1) : g[i] = IF i = 0 THEN stored' ELSE Effect(g[i - 1], commands'[i])
    BY <1>0, <1>2 DEF Plays
  <2>2. \A i \in 0..n : f[i] = IF i = 0 THEN stored ELSE Effect(f[i - 1], commands[i])
    <3>1. f[0] = stored BY <1>0
    <3>2. ASSUME NEW i \in 1..n PROVE f[i] = Effect(f[i - 1], commands[i])
      <4>1. CASE i = 1 BY <1>0, <2>1, <4>1
      <4>2. CASE i # 1
        <5>1. i - 1 \in 1..(n - 1) /\ (i - 1) + 1 = i BY <1>0, <4>2
        <5>2. g[i - 1] = Effect(g[i - 2], commands[i]) BY <1>0, <2>1, <5>1
        <5> QED BY <1>0, <4>2, <5>2
      <4> QED BY <4>1, <4>2
    <3> HIDE DEF f
    <3>3. \A i \in 0..n : i = 0 \/ i \in 1..n BY <1>0
    <3> QED BY <3>1, <3>2, <3>3
  <2>3. Plays(f) BY <2>2 DEF Plays
  <2>4. f[n] \in Envs /\ Agrees(f[n], ledger, edited) BY <2>3 DEF Foretold
  <2>5. f[n] = g[n - 1] BY <1>0
  <2> QED BY <1>0, <2>4, <2>5 DEF Envs
<1> QED BY <1>1, <1>2 DEF Foretold

\* Nothing is sent; the user may have typed into one variable more.
LEMMA StillForetold ==
  ASSUME Foretold, UNCHANGED <<stored, commands, ledger>>, edited \subseteq edited'
  PROVE  Foretold'
<1>1. \A g : Plays(g)' <=> Plays(g) BY DEF Plays
<1>2. \A g : Agrees(g[Len(commands)], ledger, edited)
               => Agrees(g[Len(commands)], ledger, edited')
  BY AgreesMore
<1> QED BY <1>1, <1>2 DEF Foretold, Envs

-----------------------------------------------------------------------------
(* The steps. *)

\* A command is appended to the updates.
LEMMA SendUpdates ==
  ASSUME Updates, commands \in Seq(Commands), NEW c \in Commands,
         commands' = Append(commands, c), edited \subseteq edited',
         c.kind = "update" => Alike(c.new, c.previous, edited')
  PROVE  Updates'
<1>1. /\ DOMAIN commands' = 1..(Len(commands) + 1) /\ Len(commands) \in Nat
      /\ \A i \in 1..Len(commands) : commands'[i] = commands[i]
      /\ commands'[Len(commands) + 1] = c
  BY Appended
<1>2. ASSUME NEW i \in DOMAIN commands', commands'[i].kind = "update"
      PROVE  Alike(commands'[i].new, commands'[i].previous, edited')
  <2>1. CASE i = Len(commands) + 1 BY <1>1, <1>2, <2>1
  <2>2. CASE i # Len(commands) + 1
    <3>1. i \in DOMAIN commands /\ commands'[i] = commands[i] BY <1>1, <2>2
    <3> QED BY <1>2, <3>1 DEF Updates, Alike
  <2> QED BY <2>1, <2>2
<1> QED BY <1>2 DEF Updates

\* An input of the user in the row k, which takes the editor to env.
LEMMA EmitKeeps ==
  ASSUME IInv, NEW k \in Key, NEW env \in Env, NEW asked,
         draft # NoEnv, Alike(env, draft, {k}),
         ledger # NoEnv => asked \in Env /\ Alike(asked, ledger, {k}),
         Emit(env, k, asked), hasty' \in BOOLEAN
  PROVE  IInv'
<1> USE DEF IInv
<1>1. /\ edited' = edited \cup {k} /\ edited' \subseteq Key /\ edited \subseteq edited'
      /\ draft' = env /\ UNCHANGED <<worker, widget, undo>>
  BY DEF Emit, Admit, TypeOK, worker
<1>2. widget \in Env /\ draft \in Env /\ Alike(draft, widget, edited)
  BY NoEnvIsNone DEF TypeOK, Screens
<1>3. Alike(env, widget, edited')
  BY <1>1, <1>2, SameAtFacts DEF Alike
<1>4. Screens' BY <1>1, <1>2, <1>3, NoEnvIsNone DEF Screens
<1>5. CASE shown = NoEnv
  <2>1. UNCHANGED <<commands, shown, ledger>> BY <1>5 DEF Emit
  <2>2. TypeOK' BY <1>1, <2>1 DEF TypeOK, worker
  <2>3. Updates' BY <1>1, <2>1 DEF Updates, Alike
  <2>4. Foretold' BY <1>1, <2>1, StillForetold DEF worker
  <2> QED BY <1>4, <2>2, <2>3, <2>4
<1>6. CASE shown # NoEnv
  <2>1. /\ commands' = Append(commands, Update(env, widget)) /\ shown' = env
        /\ ledger' = IF ledger = NoEnv THEN NoEnv ELSE asked
    BY <1>6 DEF Emit, Admit
  <2>2. Update(env, widget) \in Commands BY <1>2, CommandsTyped
  <2>3. commands' \in Seq(Commands) BY <2>1, <2>2, Appended DEF TypeOK
  <2>4. TypeOK' BY <1>1, <2>1, <2>3 DEF TypeOK, worker
  <2>5. Updates'
    BY <1>1, <1>3, <2>1, <2>2, SendUpdates DEF TypeOK, Update
  <2>6. ASSUME NEW e \in Envs, Agrees(e, ledger, edited)
        PROVE  Agrees(Effect(e, Update(env, widget)), ledger', edited')
    <3>1. Agrees(e, ledger, edited') BY <1>1, <2>6, AgreesMore
    <3>2. CASE ledger = NoEnv
      <4>1. e = NoEnv BY <3>2, <2>6 DEF Agrees
      <4> QED BY <2>1, <3>2, <4>1 DEF Agrees, Effect, Update
    <3>3. CASE ledger # NoEnv
      <4>1. asked \in Env /\ Alike(asked, ledger, edited') /\ ledger \in Envs
        BY <1>1, <3>3 DEF Alike, TypeOK, Envs
      <4> QED BY <1>1, <1>2, <1>3, <2>1, <3>1, <3>3, <4>1, UpdateAgrees
    <3> QED BY <3>2, <3>3
  <2>7. Foretold'
    BY <1>1, <2>1, <2>2, <2>6, SendForetells DEF worker, TypeOK
  <2> QED BY <1>4, <2>4, <2>5, <2>7
<1> QED BY <1>5, <1>6

\* An edit in the dialog preserves the invariant.
LEMMA EditKeeps ==
  ASSUME IInv, NEW k \in Key, NEW v \in Value \cup {Unset}, EditVariable(k, v),
         hasty' \in BOOLEAN
  PROVE  IInv'
<1>1. draft \in Env /\ (ledger # NoEnv => ledger \in Env) /\ draft # NoEnv
  BY DEF IInv, TypeOK, EditVariable
<1>2. Patched(draft, k, v) \in Env /\ Alike(Patched(draft, k, v), draft, {k})
  BY <1>1, PatchedIsEnv DEF Alike
<1>3. ledger # NoEnv => Patched(ledger, k, v) \in Env /\ Alike(Patched(ledger, k, v), ledger, {k})
  BY <1>1, PatchedIsEnv DEF Alike
<1>4. Emit(Patched(draft, k, v), k, Patched(ledger, k, v)) BY DEF EditVariable
<1> QED BY <1>1, <1>2, <1>3, <1>4, EmitKeeps

\* Making a variable secret, or not, preserves the invariant.
LEMMA ToggleKeeps ==
  ASSUME IInv, NEW k \in Key, ToggleSecret(k), hasty' \in BOOLEAN
  PROVE  IInv'
<1> DEFINE on == k \notin draft.secret
           Set(env) == Pruned(env.values, IF on THEN env.secret \cup {k} ELSE env.secret \ {k})
<1>1. draft \in Env /\ (ledger # NoEnv => ledger \in Env) /\ draft # NoEnv
  BY DEF IInv, TypeOK, ToggleSecret
<1>2. ASSUME NEW env \in Env
      PROVE  Set(env) \in Env /\ Alike(Set(env), env, {k})
  BY LockIsEnv DEF Alike
<1>3. Emit(Set(draft), k, Set(ledger)) BY DEF ToggleSecret
<1> HIDE DEF Set
<1> QED BY <1>1, <1>2, <1>3, EmitKeeps

\* Deleting the environment preserves the invariant.
LEMMA DeleteKeeps ==
  ASSUME IInv, DeleteEnvironment, hasty' \in BOOLEAN
  PROVE  IInv'
<1> USE DEF IInv
<1>1. /\ UNCHANGED <<worker, widget, draft, edited>> /\ undo' = widget
      /\ shown' = NoEnv /\ ledger' = NoEnv /\ commands' = Append(commands, Delete)
  BY DEF DeleteEnvironment, Admit
<1>2. Delete \in Commands /\ Delete.kind # "update" BY CommandsTyped DEF Delete
<1>3. commands' \in Seq(Commands) BY <1>1, <1>2, Appended DEF TypeOK
<1>4. TypeOK' BY <1>1, <1>3 DEF TypeOK, worker
<1>5. Screens' BY <1>1 DEF Screens
<1>6. Updates' BY <1>1, <1>2, SendUpdates DEF TypeOK
<1>7. \A e \in Envs : Agrees(Effect(e, Delete), ledger', edited')
  BY <1>1 DEF Agrees, Effect, Delete
<1>8. Foretold' BY <1>1, <1>2, <1>7, SendForetells DEF worker, TypeOK
<1> QED BY <1>4, <1>5, <1>6, <1>8

\* UNDO preserves the invariant.
LEMMA UndoKeeps ==
  ASSUME IInv, UndoDelete, hasty' \in BOOLEAN
  PROVE  IInv'
<1> USE DEF IInv
<1>1. /\ UNCHANGED <<worker, widget, draft, edited>> /\ undo' = NoEnv /\ undo \in Env
      /\ shown' = undo /\ ledger' = undo /\ commands' = Append(commands, Put(undo))
  BY DEF UndoDelete, Admit, TypeOK
<1>2. Put(undo) \in Commands /\ Put(undo).kind # "update"
  BY <1>1, CommandsTyped DEF Put
<1>3. commands' \in Seq(Commands) BY <1>1, <1>2, Appended DEF TypeOK
<1>4. TypeOK' BY <1>1, <1>3 DEF TypeOK, worker
<1>5. Screens' BY <1>1 DEF Screens
<1>6. Updates' BY <1>1, <1>2, SendUpdates DEF TypeOK
<1>7. \A e \in Envs : Agrees(Effect(e, Put(undo)), ledger', edited')
  BY <1>1, PutAndDeleteAgree DEF TypeOK
<1>8. Foretold' BY <1>1, <1>2, <1>7, SendForetells DEF worker, TypeOK
<1> QED BY <1>4, <1>5, <1>6, <1>8

\* The patch of a script preserves the invariant.
LEMMA PatchKeeps ==
  ASSUME IInv, NEW k \in Key, NEW v \in Value \cup {Unset}, PatchVariable(k, v)
  PROVE  IInv'
<1> USE DEF IInv
<1>1. /\ UNCHANGED <<worker, shown, screen, edited, hasty>>
      /\ commands' = Append(commands, Patch(k, v))
      /\ ledger' = IF ledger = NoEnv THEN NoEnv ELSE Patched(ledger, k, v)
  BY DEF PatchVariable
<1>2. Patch(k, v) \in Commands /\ Patch(k, v).kind # "update"
  BY CommandsTyped DEF Patch
<1>3. commands' \in Seq(Commands) BY <1>1, <1>2, Appended DEF TypeOK
<1>4. TypeOK'
  <2>1. ledger # NoEnv => Patched(ledger, k, v) \in Env BY PatchedIsEnv DEF TypeOK
  <2> QED BY <1>1, <1>3, <2>1 DEF TypeOK, worker, screen
<1>5. Screens' BY <1>1 DEF Screens, screen
<1>6. Updates' BY <1>1, <1>2, SendUpdates DEF TypeOK
<1>7. ASSUME NEW e \in Envs, Agrees(e, ledger, edited)
      PROVE  Agrees(Effect(e, Patch(k, v)), ledger', edited')
  <2>1. ledger \in Envs /\ edited \in SUBSET Key BY DEF TypeOK, Envs
  <2> QED BY <1>1, <1>7, <2>1, PatchAgrees
<1>8. Foretold' BY <1>1, <1>2, <1>7, SendForetells DEF worker, TypeOK
<1> QED BY <1>4, <1>5, <1>6, <1>8

\* The worker executing a command preserves the invariant.
LEMMA ExecuteKeeps ==
  ASSUME IInv, Execute
  PROVE  IInv'
<1> USE DEF IInv
<1>1. /\ UNCHANGED <<shown, widget, draft, undo, ledger, edited, hasty>>
      /\ commands # <<>> /\ commands' = Tail(commands)
      /\ stored' = Effect(stored, Head(commands))
      /\ passedOn' = stored'
      /\ snapshots' \in {snapshots, Append(snapshots, stored')}
  BY DEF Execute, WatchEvent, screen, history
<1>2. /\ commands' \in Seq(Commands) /\ Head(commands) \in Commands
      /\ Len(commands') = Len(commands) - 1 /\ Len(commands) \in Nat
      /\ \A i \in 1..(Len(commands) - 1) : commands'[i] = commands[i + 1]
  BY <1>1, Dequeued DEF TypeOK
<1>3. stored' \in Env \cup {NoEnv} BY <1>1, <1>2, EffectTyped DEF TypeOK, Envs
<1>4. snapshots' \in Seq(Env \cup {NoEnv})
  <2>1. snapshots \in Seq(Env \cup {NoEnv}) BY DEF TypeOK
  <2> HIDE DEF IInv
  <2>2. Append(snapshots, stored') \in Seq(Env \cup {NoEnv}) BY <1>3, <2>1, Appended
  <2> QED BY <1>1, <2>1, <2>2
<1>5. TypeOK' BY <1>1, <1>2, <1>3, <1>4 DEF TypeOK
<1>6. Screens' BY <1>1 DEF Screens
<1>7. Updates'
  <2>1. ASSUME NEW i \in DOMAIN commands'
        PROVE  i + 1 \in DOMAIN commands /\ commands'[i] = commands[i + 1]
    BY <1>2 DEF TypeOK
  <2> QED BY <1>1, <2>1 DEF Updates
<1>8. Foretold' BY <1>1, ExecuteForetells DEF TypeOK
<1> QED BY <1>5, <1>6, <1>7, <1>8

\* The bloc hearing from the watch preserves the invariant.
LEMMA ReceiveKeeps ==
  ASSUME IInv, Receive
  PROVE  IInv'
<1> USE DEF IInv
<1>1. /\ UNCHANGED <<stored, passedOn, commands, widget, draft, undo, ledger, edited, hasty>>
      /\ snapshots # <<>> /\ shown' = Head(snapshots) /\ snapshots' = Tail(snapshots)
  BY DEF Receive, screen, history
<1>2. shown' \in Env \cup {NoEnv} /\ snapshots' \in Seq(Env \cup {NoEnv})
  BY <1>1, Dequeued DEF TypeOK
<1>3. TypeOK' BY <1>1, <1>2 DEF TypeOK
<1>4. Screens' /\ Updates' BY <1>1 DEF Screens, Updates
<1>5. Foretold' BY <1>1, StillForetold
<1> QED BY <1>3, <1>4, <1>5

\* The editor takes what is new in the bloc and keeps what the user has typed.
LEMMA FrameKeeps ==
  ASSUME IInv, Frame
  PROVE  IInv'
<1> USE DEF IInv
<1>1. /\ UNCHANGED <<stored, passedOn, snapshots, commands, shown, undo, ledger, edited, hasty>>
      /\ widget' = shown
      /\ draft' = IF shown = NoEnv \/ widget = NoEnv THEN shown ELSE Merged(shown, draft, widget)
  BY DEF Frame, worker, history
<1>2. /\ draft' \in Env \cup {NoEnv} /\ (draft' = NoEnv <=> shown = NoEnv)
      /\ draft' # NoEnv => Alike(draft', shown, edited)
  <2>1. CASE shown = NoEnv \/ widget = NoEnv
    BY <1>1, <2>1, SameAtFacts DEF Alike, TypeOK
  <2>2. CASE shown # NoEnv /\ widget # NoEnv
    <3>1. shown \in Env /\ draft \in Env /\ widget \in Env /\ Alike(draft, widget, edited)
      BY <2>2 DEF TypeOK, Screens
    <3> QED BY <1>1, <2>2, <3>1, MergedIsEnv, NoEnvIsNone DEF Alike
  <2> QED BY <2>1, <2>2
<1>3. TypeOK' BY <1>1, <1>2 DEF TypeOK
<1>4. Screens' BY <1>1, <1>2 DEF Screens
<1>5. Updates' BY <1>1 DEF Updates
<1>6. Foretold' BY <1>1, StillForetold
<1> QED BY <1>3, <1>4, <1>5, <1>6

\* The invariant holds at the start.
LEMMA IInvInit == Init => IInv
<1> SUFFICES ASSUME Init PROVE IInv
  OBVIOUS
<1>1. stored \in Env
  <2>1. (CHOOSE v \in Value : TRUE) \in Value BY EditingAssumption
  <2> QED BY <2>1 DEF Init, Env
<1>2. /\ commands = <<>> /\ snapshots = <<>> /\ edited = {} /\ hasty = FALSE
      /\ passedOn = stored /\ shown = stored /\ widget = stored /\ draft = stored
      /\ undo = NoEnv /\ ledger = stored
  BY DEF Init
<1>3. TypeOK
  <2>1. \A S : <<>> \in Seq(S) OBVIOUS
  <2>2. commands \in Seq(Commands) /\ snapshots \in Seq(Env \cup {NoEnv})
    BY <1>2, <2>1
  <2> QED BY <1>1, <1>2, <2>2 DEF TypeOK
<1>4. Screens /\ Updates BY <1>1, <1>2, SameAtFacts DEF Screens, Updates, Alike
<1>5. Foretold
  <2>1. Plays([i \in 0..0 |-> stored]) BY <1>2 DEF Plays
  <2>2. ASSUME NEW f, Plays(f) PROVE f[Len(commands)] = stored
    BY <1>2, <2>2 DEF Plays
  <2>3. Agrees(stored, ledger, edited) BY <1>2, SameAtFacts DEF Agrees, Alike
  <2> QED BY <1>1, <2>1, <2>2, <2>3 DEF Foretold, Envs
<1> QED BY <1>3, <1>4, <1>5 DEF IInv

\* Every step preserves the invariant.
LEMMA IInvNext == IInv /\ [Next]_vars => IInv'
<1> SUFFICES ASSUME IInv, [Next]_vars PROVE IInv'
  OBVIOUS
<1>1. CASE User
  <2>1. hasty' \in BOOLEAN BY <1>1 DEF User, IInv, TypeOK
  <2> QED BY <1>1, <2>1, EditKeeps, ToggleKeeps, DeleteKeeps, UndoKeeps DEF User
<1>2. CASE Script BY <1>2, PatchKeeps DEF Script
<1>3. CASE Execute BY <1>3, ExecuteKeeps
<1>4. CASE Receive BY <1>4, ReceiveKeeps
<1>5. CASE Frame BY <1>5, FrameKeeps
<1>6. CASE UNCHANGED vars
  <2>1. /\ UNCHANGED <<stored, passedOn, snapshots, commands, shown, widget, draft, undo>>
        /\ UNCHANGED <<ledger, edited, hasty>>
    BY <1>6 DEF vars, worker, screen, history
  <2>2. TypeOK' /\ Screens' /\ Updates'
    BY <2>1 DEF IInv, TypeOK, Screens, Updates
  <2>3. Foretold' BY <2>1, StillForetold DEF IInv
  <2> QED BY <2>2, <2>3 DEF IInv
<1> QED BY <1>1, <1>2, <1>3, <1>4, <1>5, <1>6 DEF Next

\* The invariant holds in every behaviour.
LEMMA IInvInvariant == Spec => []IInv
BY IInvInit, IInvNext, PTL DEF Spec

\* What the commands lead to is the last value of any function that plays them.
LEMMA FinalForetold == Foretold => Final \in Envs /\ Agrees(Final, ledger, edited)
<1> SUFFICES ASSUME Foretold PROVE Final \in Envs /\ Agrees(Final, ledger, edited)
  OBVIOUS
<1> DEFINE f == CHOOSE g : Plays(g)
<1>1. Plays(f) BY DEF Foretold
<1>2. Final = f[Len(commands)] BY DEF Final, Plays
<1> QED BY <1>1, <1>2 DEF Foretold

-----------------------------------------------------------------------------
(* Theorems. *)

\* Every environment, wherever it is held or whichever way it was merged, has a
\* value or none for each variable, and no flag of a variable that is gone.
THEOREM TypeCorrect == Spec => []TypeOK
<1>1. IInv => TypeOK BY DEF IInv
<1> QED BY <1>1, IInvInvariant, PTL

\* updateEnvironment and applyVariablePatch: what scripts do to a variable is
\* not undone by edits of others, however stale the copies of the editor and of
\* the bloc are, for any number of each and in any order.
THEOREM ScriptsKeepTheirVariables == Spec => []IndependentKeysSurvive
<1>1. IInv => IndependentKeysSurvive
  BY FinalForetold DEF IInv, IndependentKeysSurvive, Agrees, Alike
<1> QED BY <1>1, IInvInvariant, PTL

\* No update and no patch that comes late brings a deleted environment back.
THEOREM DeletedStaysDeleted == Spec => []NeverRecreated
<1>1. IInv => NeverRecreated BY FinalForetold DEF IInv, NeverRecreated, Agrees
<1> QED BY <1>1, IInvInvariant, PTL
=============================================================================
