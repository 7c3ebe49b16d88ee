---------------------------- MODULE PluginDispatch ----------------------------
(***************************************************************************)
(* PluginManager: the hooks of the registered plugins, in the order of     *)
(* registration, each call in a try of its own.  A plugin is what its      *)
(* hooks do: whether and when they raise, and what they answer otherwise.  *)
(* One that raises last has written into the context it was given before.  *)
(***************************************************************************)
EXTENDS Integers, Sequences

NoAction == "none"

Plugins == [raises : {"never", "first", "last"}, vetoes : BOOLEAN,
            action : {NoAction, "KEEP_BOTH", "SKIP"}]

Fails(p) == p.raises # "never"

(* Mutant: a plugin that raises has not allowed it. *)
AllowsClosed(p) == ~Fails(p) /\ ~p.vetoes

(* should_process_envelope goes on after an exception. *)
Allows(p) == Fails(p) \/ ~p.vetoes

ShouldProcess(plugins) == \A i \in DOMAIN plugins : Allows(plugins[i])

(* notify_duplicate_detected returns the first action. *)
Acting(plugins) ==
    {i \in DOMAIN plugins : ~Fails(plugins[i]) /\ plugins[i].action # NoAction}

DuplicateAction(plugins) ==
    IF Acting(plugins) = {} THEN NoAction
    ELSE plugins[CHOOSE i \in Acting(plugins) : \A j \in Acting(plugins) : i <= j].action

(* enrich_context: each plugin is given what the ones before it made.      *)
Enrich(notes, p, i) == IF p.raises = "first" THEN notes ELSE Append(notes, i)

Enriched(plugins) ==
    LET notes[i \in 0..Len(plugins)] ==
          IF i = 0 THEN << >> ELSE Enrich(notes[i-1], plugins[i], i)
    IN notes

EnrichContext(plugins) == Enriched(plugins)[Len(plugins)]

-----------------------------------------------------------------------------
(* Without the plugins that raise. *)
Keep(kept, p) == IF Fails(p) THEN kept ELSE Append(kept, p)

Kept(plugins) ==
    LET kept[i \in 0..Len(plugins)] ==
          IF i = 0 THEN << >> ELSE Keep(kept[i-1], plugins[i])
    IN kept

Healthy(plugins) == Kept(plugins)[Len(plugins)]
==============================================================================
