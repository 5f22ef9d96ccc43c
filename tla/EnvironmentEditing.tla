-------------------------- MODULE EnvironmentEditing --------------------------
(***************************************************************************)
(* One environment that the user edits in the dialog while scripts patch   *)
(* its variables: EnvironmentEditor, EnvironmentsBloc, the storage worker  *)
(* with EnvironmentsRepositoryImpl, and the watch that brings what is      *)
(* stored back to the bloc.                                                *)
(*                                                                         *)
(* There are three copies of the environment, the editor's, the bloc's and *)
(* the stored one, and none is ever locked.  An edit is sent as a pair,    *)
(* the environment after it and the one the editor was last built with;    *)
(* the worker merges the difference into what it holds.                    *)
(*                                                                         *)
(* The worker takes one command after the other and finishes each before   *)
(* the next, so that reading, merging and putting is one step.  The name   *)
(* and the order of the variables, which are merged in the same way, are   *)
(* left out.                                                               *)
(***************************************************************************)
EXTENDS Naturals, Sequences

CONSTANTS Key, Value,
          Unset,      \* a key without an entry in the map
          NoEnv,      \* there is no such environment
          MaxEdits,   \* what the user does
          MaxPatches  \* patches of scripts

ASSUME EditingAssumption ==
  /\ Value # {} /\ Unset \notin Value
  /\ NoEnv \notin [values : [Key -> Value \cup {Unset}], secret : SUBSET Key]
  /\ MaxEdits \in Nat /\ MaxPatches \in Nat

VARIABLES
  stored,     \* the record of the box
  commands,   \* sent to the worker
  passedOn,   \* the last list the watch passed on
  snapshots,  \* on their way to the bloc
  shown,      \* the environment in the state of the bloc
  widget,     \* ... as of the last frame: what the editor was built with
  draft,      \* the environment as the editor shows it
  undo,       \* what the snackbar would bring back
  edits, patches,
  ledger,     \* history: what was asked for, in the order it was asked
  edited,     \* history: the keys the user has edited
  hasty       \* history: an input came before the frame that was due

bounds  == <<edits, patches>>
history == <<ledger, edited, hasty>>
worker  == <<stored, passedOn, snapshots>>
screen  == <<widget, draft, undo>>
vars    == <<worker, commands, shown, screen, bounds, history>>

Env == {e \in [values : [Key -> Value \cup {Unset}], secret : SUBSET Key] :
          \A k \in e.secret : e.values[k] # Unset}

-----------------------------------------------------------------------------
(* The repository, on the worker. *)

\* Flags of variables that are gone are dropped.
Pruned(values, secret) ==
  [values |-> values, secret |-> {k \in secret : values[k] # Unset}]

\* applyVariablePatch: one key set or unset.
Patched(env, k, v) == Pruned([env.values EXCEPT ![k] = v], env.secret)

\* Mutant: what the editor shows is taken as it is.
Replaced(env, new, previous) == new

\* updateEnvironment, and in the same way didUpdateWidget: what has changed
\* between previous and new is changed in env.
Merged(env, new, previous) ==
  Pruned([k \in Key |-> IF new.values[k] # previous.values[k]
                        THEN new.values[k] ELSE env.values[k]],
         (env.secret \ (previous.secret \ new.secret))
           \cup (new.secret \ previous.secret))

Update(new, previous) == [kind |-> "update", new |-> new, previous |-> previous]
Patch(k, v) == [kind |-> "patch", key |-> k, value |-> v]
Put(new)    == [kind |-> "put", new |-> new]
Delete      == [kind |-> "delete"]

\* Mutant: an update of an environment that is gone puts it back.
EffectRecreating(env, c) ==
  CASE c.kind = "put"    -> c.new
    [] c.kind = "delete" -> NoEnv
    [] c.kind = "update" -> IF env = NoEnv THEN c.new
                            ELSE Merged(env, c.new, c.previous)
    [] c.kind = "patch"  -> IF env = NoEnv THEN NoEnv
                            ELSE Patched(env, c.key, c.value)

\* What a command makes of the record: an update or a patch of one that is
\* gone throws.
Effect(env, c) ==
  CASE c.kind = "put"    -> c.new
    [] c.kind = "delete" -> NoEnv
    [] c.kind = "update" -> IF env = NoEnv THEN NoEnv
                            ELSE Merged(env, c.new, c.previous)
    [] c.kind = "patch"  -> IF env = NoEnv THEN NoEnv
                            ELSE Patched(env, c.key, c.value)

\* The watch reports the list as it is now, unless it equals the last one.
WatchEvent(env) ==
  /\ passedOn' = env
  /\ snapshots' = IF env = passedOn THEN snapshots ELSE Append(snapshots, env)

\* The box tells the watch of a change before the write has ended, so that
\* the list is read and passed on before the next command.
Execute ==
  /\ commands # <<>>
  /\ stored' = Effect(stored, Head(commands))
  /\ WatchEvent(stored')
  /\ commands' = Tail(commands)
  /\ UNCHANGED <<shown, screen, bounds, history>>

-----------------------------------------------------------------------------
(* The bloc. *)

\* Mutant: what others have stored is ignored while a write is under way.
ReceiveWhenIdle ==
  /\ snapshots # <<>>
  /\ shown' = IF commands = <<>> THEN Head(snapshots) ELSE shown
  /\ snapshots' = Tail(snapshots)
  /\ UNCHANGED <<stored, passedOn, commands, screen, bounds, history>>

\* EnvironmentsChanged.
Receive ==
  /\ snapshots # <<>>
  /\ shown' = Head(snapshots)
  /\ snapshots' = Tail(snapshots)
  /\ UNCHANGED <<stored, passedOn, commands, screen, bounds, history>>

\* An event of the user: the bloc shows the outcome and sends the command.
Admit(env, c) ==
  /\ edits < MaxEdits /\ edits' = edits + 1
  /\ shown' = env
  /\ commands' = Append(commands, c)
  /\ UNCHANGED <<worker, patches>>

\* EnvironmentEditor._emit; an environment the bloc does not have any more is
\* not updated.  The ledger has only what the user did.
Emit(env, k, asked) ==
  /\ draft' = env
  /\ IF shown = NoEnv
     THEN /\ edits < MaxEdits /\ edits' = edits + 1
          /\ UNCHANGED <<worker, commands, shown, patches, ledger>>
     ELSE /\ Admit(env, Update(env, widget))
          /\ ledger' = IF ledger = NoEnv THEN NoEnv ELSE asked
  /\ edited' = edited \cup {k}
  /\ UNCHANGED <<widget, undo>>

\* A row is typed into, added or removed.
EditVariable(k, v) ==
  /\ draft # NoEnv /\ v # draft.values[k]
  /\ Emit(Patched(draft, k, v), k, Patched(ledger, k, v))

\* The lock of a row is toggled.
ToggleSecret(k) ==
  /\ draft # NoEnv /\ draft.values[k] # Unset
  /\ LET on       == k \notin draft.secret
         Set(env) == Pruned(env.values, IF on THEN env.secret \cup {k}
                                        ELSE env.secret \ {k})
     IN  Emit(Set(draft), k, Set(ledger))

DeleteEnvironment ==
  /\ widget # NoEnv
  /\ Admit(NoEnv, Delete)
  /\ ledger' = NoEnv /\ undo' = widget
  /\ UNCHANGED <<widget, draft, edited>>

\* UNDO of the snackbar adds what the list showed when it was deleted.
UndoDelete ==
  /\ undo # NoEnv
  /\ Admit(undo, Put(undo))
  /\ ledger' = undo /\ undo' = NoEnv
  /\ UNCHANGED <<widget, draft, edited>>

\* The pipeline of a request commits a patch of a script.
PatchVariable(k, v) ==
  /\ patches < MaxPatches /\ patches' = patches + 1
  /\ commands' = Append(commands, Patch(k, v))
  /\ ledger' = IF ledger = NoEnv THEN NoEnv ELSE Patched(ledger, k, v)
  /\ UNCHANGED <<worker, shown, screen, edits, edited, hasty>>

\* A frame: the dialog is built from the state of the bloc.  An editor that is
\* there already keeps what the user has done since it was last built.
Frame ==
  /\ widget # shown
  /\ widget' = shown
  /\ draft' = IF shown = NoEnv \/ widget = NoEnv THEN shown
              ELSE Merged(shown, draft, widget)
  /\ UNCHANGED <<worker, commands, shown, undo, bounds, history>>

-----------------------------------------------------------------------------
(* Specification. *)

\* An environment with every variable, stored and shown.
Init ==
  /\ stored = [values |-> [k \in Key |-> CHOOSE v \in Value : TRUE], secret |-> {}]
  /\ commands = <<>> /\ snapshots = <<>>
  /\ passedOn = stored /\ shown = stored /\ widget = stored /\ draft = stored
  /\ undo = NoEnv
  /\ edits = 0 /\ patches = 0
  /\ ledger = stored /\ edited = {} /\ hasty = FALSE

User ==
  /\ hasty' = (hasty \/ widget # shown)
  /\ \/ \E k \in Key, v \in Value \cup {Unset} : EditVariable(k, v)
     \/ \E k \in Key : ToggleSecret(k)
     \/ DeleteEnvironment
     \/ UndoDelete

Script == \E k \in Key, v \in Value \cup {Unset} : PatchVariable(k, v)

Next == User \/ Script \/ Execute \/ Receive \/ Frame

Spec == Init /\ [][Next]_vars

\* The worker answers and its events arrive; frames are built.
FairSpec ==
  Spec /\ WF_vars(Execute) /\ WF_vars(Receive) /\ WF_vars(Frame)

-----------------------------------------------------------------------------
(* Properties. *)

Commands ==
  [kind : {"update"}, new : Env, previous : Env]
    \cup [kind : {"patch"}, key : Key, value : Value \cup {Unset}]
    \cup [kind : {"put"}, new : Env] \cup [kind : {"delete"}]

TypeOK ==
  /\ {stored, passedOn, shown, widget, draft, undo, ledger} \subseteq Env \cup {NoEnv}
  /\ commands \in Seq(Commands)
  /\ snapshots \in Seq(Env \cup {NoEnv})
  /\ edited \subseteq Key /\ hasty \in BOOLEAN

\* What will be stored once the worker has done everything it was sent.
Final ==
  LET after[i \in 0..Len(commands)] ==
        IF i = 0 THEN stored ELSE Effect(after[i - 1], commands[i])
  IN  after[Len(commands)]

\* Same variable in two environments.
SameAt(k, a, b) == a.values[k] = b.values[k] /\ (k \in a.secret <=> k \in b.secret)

\* "Independent keys survive": what scripts set and unset is never undone by
\* an edit of another key, however stale the editor's copies are, and the
\* order in which commands were admitted decides.
IndependentKeysSurvive ==
  Final # NoEnv /\ ledger # NoEnv =>
    \A k \in Key \ edited : SameAt(k, Final, ledger)

\* "A missing or deleted target ... is never recreated": only UNDO brings a
\* deleted environment back.
NeverRecreated == Final = NoEnv <=> ledger = NoEnv

\* The order of admission decides for every key.
AdmissionOrderWins == Final = ledger

\* When everybody has stopped, the bloc shows what is stored, and so does the
\* editor, wherever the user has not typed, unless an input came before the
\* frame that was due.
EditorCatchesUp ==
  <>[](hasty \/ /\ shown = stored /\ widget = stored
                /\ stored # NoEnv =>
                     \A k \in Key \ edited : SameAt(k, draft, stored))
=============================================================================
