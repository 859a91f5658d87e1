------------------------------- MODULE Registry -------------------------------
(***************************************************************************)
(* The model registry: models.toml, the GGUF files in its directories, and  *)
(* the models the server offers.  The server rescans, enriches and installs *)
(* (AppState::refresh_models); the scheduler writes profiles back; the ggs  *)
(* commands and the user edit the same file from other processes, and       *)
(* nobody locks it.                                                         *)
(*                                                                          *)
(* A file is its place in path order.  An alias is the sequence of its      *)
(* base's rank and the numbers dedupe_alias appended, so that sequences     *)
(* compare as the texts do.  Of an entry's settings one is kept of each     *)
(* sort: ctx (context_size, ngl, extra_args, ...: merged), floor (ctx,      *)
(* kv_cache_type, ...: not merged) and hf (what an enrichment filled in).   *)
(***************************************************************************)
EXTENDS Integers, Sequences, FiniteSets, SequencesExt

CONSTANTS
    None,
    Files,            \* the GGUF paths that may exist, 1..n in path order
    NameOf,           \* their file names, lower case
    DirOf,            \* the directories they lie in
    Dirs, Common,     \* all model directories, and those of the fallback list
    BaseOf,           \* the alias alias_from_filename gives them, by rank
    VllmBase,         \* the alias alias_from_repo gives the vLLM repository pulled
    ScoreOf,          \* priority_preference_score of each base
    TooBig,           \* files no memory of this host can hold
    VllmFits,         \* whether the pulled weights fit into VRAM
    Pins,             \* values of `backend` a user may set
    BasePort, MaxPort,
    MaxEdits          \* bound of the moves made by anyone but the server

ASSUME RegistryAssumption ==
    /\ Files \subseteq Nat /\ IsFiniteSet(Files) /\ None \notin Files
    /\ BaseOf \in [Files -> Nat] /\ VllmBase \in Nat
    /\ BasePort \in Nat /\ MaxPort \in Nat

VARIABLES
    disk,       \* loadable GGUF files, mounted or not
    mounted,    \* directories that exist now
    toml,       \* models.toml: defaults.models_dir and the entries in file order
    live,       \* the installed ModelConfigs
    step,       \* where refresh_models stands: "idle", "locked", "scanned", "loaded", "ready"
    result,     \* RescanResult.models of the refresh in progress
    held,       \* the registry the enrichment read before it asked the Hub
    cli,        \* a ggs command that read the registry and has not written it
    edits

vars    == <<disk, mounted, toml, live, step, result, held, cli, edits>>
refresh == <<step, result, held>>
storage == <<disk, mounted>>

-----------------------------------------------------------------------------
(* Sorting and filtering, by counting: what is proved needs no sorting procedure. *)

\* The elements of a finite set, each behind those that are in front of it.
Lined(S, front) ==
    [n \in 1..Cardinality(S) |-> CHOOSE x \in S : Cardinality(front[x]) = n - 1]

Ascending(numbers) == Lined(numbers, [i \in numbers |-> {j \in numbers : j < i}])

\* What es has at the given places, in its order.
Kept(es, places) ==
    LET at == Ascending(places) IN [n \in DOMAIN at |-> es[at[n]]]

-----------------------------------------------------------------------------
(* Entries *)

NewEntry(alias, file, repo) ==
    [alias |-> alias, file |-> file, repo |-> repo, enabled |-> TRUE, priority |-> FALSE,
     port |-> None, ctx |-> None, floor |-> None, hf |-> FALSE, pin |-> None]

\* file_dedupe_key: entries without a file all share the empty name.
Key(e) == IF e.file = None THEN None ELSE NameOf[e.file]

OrElse(x, y) == IF x = None THEN y ELSE x

\* The first value that is set among the entries of a group.
FirstSet(values, group) ==
    LET set == {j \in group : values[j] # None}
    IN  IF set = {} THEN None ELSE values[Min(set)]

Filled(es, group) ==
    [es[Min(group)] EXCEPT !.port = FirstSet([j \in group |-> es[j].port], group),
                           !.ctx  = FirstSet([j \in group |-> es[j].ctx], group),
                           !.hf   = \E j \in group : es[j].hf]

\* Mutant: the first entry alone decides whether the model is offered.
MergeForgetful(es, group) == Filled(es, group)

\* merge_registry_entry, folded over the entries of one name, the first as target.
Merge(es, group) ==
    [Filled(es, group) EXCEPT !.priority = \E j \in group : es[j].priority,
                              !.enabled  = \A j \in group : es[j].enabled]

Before(s, t) ==
    \E i \in DOMAIN t : /\ i > Len(s) \/ s[i] < t[i]
                        /\ \A j \in 1..(i - 1) : j <= Len(s) /\ s[j] = t[j]

\* One entry per file name, the first one, into which the others are merged;
\* then by alias. Aliases are distinct already, so the second stage only sorts.
Dedupe(es) ==
    LET group(i) == {j \in DOMAIN es : Key(es[j]) = Key(es[i])}
        merged   == {Merge(es, group(i)) : i \in DOMAIN es}
    IN  Lined(merged, [e \in merged |-> {d \in merged : Before(d.alias, e.alias)}])

\* normalize_priority_entries: the first claim stands.
Normalize(es) ==
    [i \in DOMAIN es |->
       [es[i] EXCEPT !.priority = @ /\ \A j \in 1..(i - 1) : ~es[j].priority]]

\* ModelsRegistry::load
Load(r) == [r EXCEPT !.models = Normalize(Dedupe(@))]

DedupeAlias(alias, used) ==
    IF alias \notin used THEN alias
    ELSE Append(alias, CHOOSE n \in 2..(Cardinality(used) + 2) :
                          /\ Append(alias, n) \notin used
                          /\ \A k \in 2..(n - 1) : Append(alias, k) \in used)

Aliases(es) == {es[i].alias : i \in DOMAIN es}

-----------------------------------------------------------------------------
(* A scan of the disk *)

\* resolve_models_dirs_with_fallback: the configured directories that exist, and
\* common ones with a model in them.
ScanRoots(roots) ==
    (roots \cap mounted) \cup {d \in Common \cap mounted : \E f \in disk : DirOf[f] = d}

Under(roots) == {f \in disk : DirOf[f] \in roots \cap mounted}

\* build_existing_file_map: the last entry of a file wins, and files are distinct.
Known(registered, file) == {e \in ToSet(registered) : e.file = file}

\* The wanted aliases in turn, each kept apart from those before it.
Renamed(wanted, taken) ==
    LET alias[i \in DOMAIN wanted] ==
          DedupeAlias(wanted[i], taken \cup {alias[j] : j \in 1..(i - 1)})
    IN  alias

\* One entry per file in path order: the registered one, under its alias unless
\* an earlier file took that, or a new one.
Scan(files, registered, taken) ==
    LET path == Ascending(files)
        entry(file) ==
          LET known == Known(registered, file)
          IN  IF known = {} THEN NewEntry(<<BaseOf[file]>>, file, FALSE)
              ELSE CHOOSE k \in known : TRUE
        alias == Renamed([i \in DOMAIN path |-> entry(path[i]).alias], taken)
    IN  [i \in DOMAIN path |-> [entry(path[i]) EXCEPT !.alias = alias[i]]]

PortsFit(es) == es = <<>> \/ BasePort + Len(es) - 1 <= MaxPort

\* Mutant: an entry keeps the port it had.
AssignPortsKept(es) ==
    [i \in DOMAIN es |-> [es[i] EXCEPT !.port = OrElse(@, BasePort + i - 1)]]

AssignPorts(es) == [i \in DOMAIN es |-> [es[i] EXCEPT !.port = BasePort + i - 1]]

\* assign_default_priority: an entry carries its claim through the scan; without
\* one the best score wins, the last of equals, and nothing scored means the first.
DefaultPriority(es) ==
    LET score(i) == ScoreOf[es[i].alias[1]]
        best == {i \in DOMAIN es : /\ score(i) > 0
                                   /\ \A j \in DOMAIN es : score(j) <= score(i)}
        chosen == IF best = {} THEN 1 ELSE CHOOSE i \in best : \A j \in best : j <= i
    IN  IF es = <<>> \/ \E i \in DOMAIN es : es[i].priority THEN es
        ELSE [es EXCEPT ![chosen].priority = TRUE]

\* discover_with_merge; None when the ports run out.
Discover(present, registered) ==
    LET es == Dedupe(Scan(present, registered, {}))
    IN  IF PortsFit(es) THEN Normalize(DefaultPriority(AssignPorts(es))) ELSE None

-----------------------------------------------------------------------------
(* What the entries offer *)

HasSource(e) == e.repo \/ e.file # None

\* resolve_backend_and_weights: a pin decides; vLLM where it fits; else the GGUF.
Backend(e) ==
    IF e.pin # None THEN e.pin
    ELSE IF e.repo /\ VllmFits THEN "vllm"
    ELSE IF e.file # None THEN "llama.cpp" ELSE None

Serveable(e) ==
    /\ Backend(e) # None
    /\ Backend(e) = "vllm" => ~e.repo \/ VllmFits
    /\ Backend(e) = "llama.cpp" => e.file \notin TooBig

\* A pinned vLLM entry without a source ends the whole expansion.
Misconfigured(e) == e.pin = "vllm" /\ ~e.repo

Claimed(es) == {es[i].file : i \in DOMAIN es}

\* resolve_model_path: a path, if there is a file.
ResolveModelPath(file, present) == IF file \in present THEN file ELSE None

\* Each source is checked for itself; an entry with none left is skipped.
Usable(es, present) ==
    LET resolved == [i \in DOMAIN es |-> [es[i] EXCEPT !.file = ResolveModelPath(@, present)]]
    IN  Kept(resolved, {i \in DOMAIN es : HasSource(resolved[i])})

\* ModelsRegistry::expand: usable entries and the files none of them claims,
\* less the disabled; None is its error.
Expand(es, present) ==
    LET usable  == Usable(es, present)
        found   == Scan(present \ Claimed(usable), <<>>, Aliases(usable))
        every   == usable \o found
        offered == Normalize(Dedupe(Kept(every, {i \in DOMAIN every : every[i].enabled})))
        ported  == AssignPorts(offered)
    IN  IF \/ offered = <<>> \/ ~PortsFit(offered)
           \/ \E i \in DOMAIN offered : Misconfigured(offered[i])
        THEN None
        ELSE {[alias |-> e.alias, file |-> e.file, backend |-> Backend(e),
               port |-> e.port, priority |-> e.priority] :
                e \in {e \in ToSet(ported) : Serveable(e)}}

Offer(r) ==
    LET roots == ScanRoots(r.roots)
    IN  IF roots = {} THEN None ELSE Expand(r.models, Under(roots))

\* rescan: the registry it would write, with the directories it resolved.
Rescan(r) ==
    LET roots  == ScanRoots(r.roots)
        models == Discover(Under(roots), r.models)
    IN  IF roots = {} \/ models = None THEN None ELSE [roots |-> roots, models |-> models]

-----------------------------------------------------------------------------
(* The server *)

\* discover_with_merge by ggs models discover, then the server's own start.
Init ==
    /\ disk \in SUBSET Files \ {{}} /\ mounted = Dirs
    /\ \E roots \in SUBSET Dirs \ {{}} : toml = Rescan([roots |-> roots, models |-> <<>>])
    /\ toml # None /\ live = Offer(toml) /\ live # None
    /\ step = "idle" /\ result = None /\ held = None /\ cli = None /\ edits = 0

\* refresh_models, by the rescan watcher or a request, takes refresh_lock.
RefreshBegin ==
    /\ step = "idle" /\ step' = "locked"
    /\ UNCHANGED <<storage, toml, live, result, held, cli, edits>>

\* rescan_and_write
RefreshScan ==
    /\ step = "locked"
    /\ LET scanned == Rescan(Load(toml))
       IN  /\ scanned # None /\ Offer(scanned) # None
           /\ toml' = scanned /\ result' = Offer(scanned)
    /\ step' = "scanned"
    /\ UNCHANGED <<storage, live, held, cli, edits>>

ScanFails ==
    LET scanned == Rescan(Load(toml)) IN scanned # None => Offer(scanned) = None

\* An error of the scan ends the refresh and changes nothing.
RefreshRejected ==
    /\ step = "locked" /\ ScanFails
    /\ step' = "idle"
    /\ UNCHANGED <<storage, toml, live, result, held, cli, edits>>

\* enrich_registry_file reads the file again and then waits for the Hub.
EnrichLoad ==
    /\ step = "scanned"
    /\ held' = Load(toml) /\ step' = "loaded"
    /\ UNCHANGED <<storage, toml, live, result, cli, edits>>

\* apply_enrichment fills what is empty and touches nothing else.
ApplyEnrichment(e) == [e EXCEPT !.hf = TRUE]

\* Disabled entries are skipped, any of the others may be matched.
EnrichWrite ==
    /\ step = "loaded"
    /\ LET es == held.models
       IN  \E matched \in SUBSET {i \in DOMAIN es : es[i].enabled} :
             LET enriched == [held EXCEPT !.models =
                                [i \in DOMAIN es |-> IF i \in matched THEN ApplyEnrichment(es[i]) ELSE es[i]]]
             IN  toml' = enriched /\ result' = OrElse(Offer(enriched), result)
    /\ held' = None /\ step' = "ready"
    /\ UNCHANGED <<storage, live, cli, edits>>

EnrichFails ==
    /\ step = "loaded"
    /\ held' = None /\ step' = "ready"
    /\ UNCHANGED <<storage, toml, live, result, cli, edits>>

\* Mutant: the result is exported and not installed.
ApplyForgets ==
    /\ step = "ready"
    /\ result' = None /\ step' = "idle"
    /\ UNCHANGED <<storage, toml, live, held, cli, edits>>

\* apply_rescan
Apply ==
    /\ step = "ready"
    /\ live' = result /\ result' = None /\ step' = "idle"
    /\ UNCHANGED <<storage, toml, held, cli, edits>>

\* persist_fit_params and persist_effective_ngl, called by the scheduler.
PersistProfile(alias) ==
    /\ edits < MaxEdits /\ edits' = edits + 1
    /\ alias \in {m.alias : m \in live} \cap Aliases(toml.models)
    /\ LET es == Load(toml).models
       IN  toml' = [toml EXCEPT !.models = [i \in DOMAIN es |->
                      IF es[i].alias = alias THEN [es[i] EXCEPT !.ctx = "fit"] ELSE es[i]]]
    /\ UNCHANGED <<storage, live, refresh, cli>>

\* Config::load, and sync_hf_metadata at launch where the Hub cannot be reached.
Restart ==
    /\ edits < MaxEdits /\ edits' = edits + 1
    /\ Offer(Load(toml)) # None
    /\ live' = Offer(Load(toml))
    /\ step' = "idle" /\ result' = None /\ held' = None
    /\ UNCHANGED <<storage, toml, cli>>

-----------------------------------------------------------------------------
(* Everyone else *)

Outside == edits < MaxEdits /\ edits' = edits + 1 /\ UNCHANGED <<live, refresh>>

Mount(dir) ==
    /\ Outside /\ mounted' = IF dir \in mounted THEN mounted \ {dir} ELSE mounted \cup {dir}
    /\ UNCHANGED <<disk, toml, cli>>

FileAppears(file) ==
    /\ Outside /\ file \notin disk /\ disk' = disk \cup {file}
    /\ UNCHANGED <<mounted, toml, cli>>

FileGoes(file) ==
    /\ Outside /\ file \in disk /\ disk' = disk \ {file}
    /\ UNCHANGED <<mounted, toml, cli>>

UserEdits(i) ==
    /\ Outside
    /\ LET old == toml.models[i]
       IN  \E e \in {[old EXCEPT !.enabled = ~@], [old EXCEPT !.priority = ~@],
                     [old EXCEPT !.ctx = "user", !.floor = "user"]}
                    \cup {[old EXCEPT !.pin = p] : p \in Pins} :
             toml' = [toml EXCEPT !.models[i] = e]
    /\ UNCHANGED <<storage, cli>>

\* models pull: the file is there, then registered unless it was, or merged into
\* a vLLM entry of its alias.
Pull(file) ==
    /\ Outside /\ cli = None /\ DirOf[file] \in mounted
    /\ disk' = disk \cup {file}
    /\ LET es == Load(toml).models
           merges(i) == es[i].alias = <<BaseOf[file]>> /\ es[i].file = None /\ es[i].repo
           alias == DedupeAlias(<<BaseOf[file]>>, Aliases(es))
       IN  toml' =
             IF \E i \in DOMAIN es : es[i].file = file THEN toml
             ELSE IF \E i \in DOMAIN es : merges(i)
             THEN [toml EXCEPT !.models = [i \in DOMAIN es |->
                     IF ~merges(i) THEN es[i]
                     ELSE [es[i] EXCEPT !.file = file, !.hf = TRUE, !.ctx = OrElse(@, "fit")]]]
             ELSE [toml EXCEPT !.models =
                     Append(es, [NewEntry(alias, file, FALSE) EXCEPT !.ctx = "fit", !.hf = TRUE])]
    /\ UNCHANGED <<mounted, cli>>

\* models pull vllm reads the registry before the download and writes after it.
PullVllmStart ==
    /\ Outside /\ cli = None
    /\ \A e \in ToSet(toml.models) : ~e.repo
    /\ cli' = [cmd |-> "pull vllm", reg |-> Load(toml), target |-> None]
    /\ UNCHANGED <<storage, toml>>

PullVllmEnd ==
    /\ cli # None /\ cli.cmd = "pull vllm"
    /\ LET es == cli.reg.models
           same(i) == es[i].alias = <<VllmBase>>
       IN  toml' = [cli.reg EXCEPT !.models =
             IF \E i \in DOMAIN es : same(i)
             THEN [i \in DOMAIN es |-> IF same(i) THEN [es[i] EXCEPT !.repo = TRUE] ELSE es[i]]
             ELSE Append(es, NewEntry(<<VllmBase>>, None, TRUE))]
    /\ cli' = None
    /\ UNCHANGED <<storage, live, refresh, edits>>

\* scan_local_models and registered_alias_map: what list, delete and clean see.
Local(r) == Under(ScanRoots(r.roots))

RegisteredFiles(r) == {e.file : e \in ToSet(Load(r).models)}

\* models register: a discovery of which the unwanted new entries are left out;
\* nothing is written when nothing new remains.
Register(wanted) ==
    /\ Outside /\ cli = None
    /\ LET es    == Load(toml).models
           found == Rescan(Load(toml))
           known(e) == \E k \in ToSet(es) : k.alias = e.alias /\ k.file = e.file
           kept  == Kept(found.models, {i \in DOMAIN found.models :
                        \/ known(found.models[i]) \/ wanted = {}
                        \/ found.models[i].file \in wanted})
       IN  /\ found # None
           /\ \E e \in ToSet(kept) : ~known(e)
           /\ toml' = [found EXCEPT !.models = kept]
    /\ UNCHANGED <<storage, cli>>

\* models delete reads the registry, waits for the confirmation, deletes the
\* file and takes its entry, both sources of it, out of what it read.
DeleteStart(file) ==
    /\ Outside /\ cli = None /\ file \in Local(toml)
    /\ cli' = [cmd |-> "delete", reg |-> Load(toml), target |-> file]
    /\ UNCHANGED <<storage, toml>>

DeleteEnd ==
    /\ cli # None /\ cli.cmd = "delete"
    /\ cli' = None
    /\ LET es   == cli.reg.models
           kept == Kept(es, {i \in DOMAIN es : es[i].file # cli.target})
       IN  IF cli.target \in Under(mounted)
           THEN /\ disk' = disk \ {cli.target}
                /\ toml' = IF Len(kept) < Len(es)
                           THEN [cli.reg EXCEPT !.models = kept] ELSE toml
           ELSE UNCHANGED <<disk, toml>>
    /\ UNCHANGED <<mounted, live, refresh, edits>>

\* Mutant: a copy is deleted although no other is registered.
CleanAny ==
    /\ Outside /\ cli = None
    /\ LET copies == Local(toml) \ RegisteredFiles(toml)
       IN  copies # {} /\ disk' = disk \ copies
    /\ UNCHANGED <<mounted, toml, cli>>

\* models clean: unregistered copies of a registered file of the same name.
Clean ==
    /\ Outside /\ cli = None
    /\ LET copies == {f \in Local(toml) \ RegisteredFiles(toml) :
                        \E o \in Local(toml) \cap RegisteredFiles(toml) : NameOf[o] = NameOf[f]}
       IN  copies # {} /\ disk' = disk \ copies
    /\ UNCHANGED <<mounted, toml, cli>>

-----------------------------------------------------------------------------

RefreshStep ==
    \/ RefreshBegin \/ RefreshScan \/ RefreshRejected
    \/ EnrichLoad \/ EnrichWrite \/ EnrichFails \/ Apply

Command ==
    \/ PullVllmStart \/ PullVllmEnd \/ DeleteEnd \/ Clean
    \/ \E file \in Files : Pull(file) \/ DeleteStart(file)
    \/ \E wanted \in {{}} \cup {{f} : f \in Files} : Register(wanted)

Next ==
    \/ RefreshStep \/ Restart \/ Command
    \/ \E m \in live : PersistProfile(m.alias)
    \/ \E file \in Files : FileAppears(file) \/ FileGoes(file)
    \/ \E i \in DOMAIN toml.models : UserEdits(i)
    \/ \E dir \in Dirs : Mount(dir)

Spec == Init /\ [][Next]_vars

\* The rescan watcher wakes again and again, and the Hub's answer, its error or
\* the end of the connection lets a refresh go on: a refresh step is always
\* possible, and one is always taken in the end.
RefreshMoves == step' \in {"idle", "locked", "scanned", "loaded", "ready"} \ {step}

FairSpec == Spec /\ WF_step(RefreshMoves)

-----------------------------------------------------------------------------

Model == [alias : Seq(Nat), file : Files \cup {None}, backend : {"vllm", "llama.cpp"},
          port : BasePort..MaxPort, priority : BOOLEAN]

EntriesOK(es) ==
    \A i \in DOMAIN es : /\ es[i].alias \in Seq(Nat) /\ es[i].alias # <<>>
                         /\ es[i].file \in Files \cup {None}
                         /\ es[i].ctx \in {None, "user", "fit"}
                         /\ {es[i].repo, es[i].enabled, es[i].priority, es[i].hf} \subseteq BOOLEAN

\* Types; a port past MaxPort would have left u16.
TypeOK ==
    /\ disk \subseteq Files /\ mounted \subseteq Dirs
    /\ toml.roots \subseteq Dirs /\ EntriesOK(toml.models)
    /\ \A m \in live : m \in Model
    /\ step \in {"idle", "locked", "scanned", "loaded", "ready"}
    /\ (held # None) = (step = "loaded") /\ (result # None) = (step \notin {"idle", "locked"})
    /\ edits \in 0..MaxEdits

\* The models offered have a port and an alias each, never share a file name, and
\* at most one has priority, however the registry was edited, merged and
\* overwritten (ModelsRegistry::expand).
LiveDistinct ==
    \A m, n \in live : m # n =>
        /\ m.port # n.port /\ m.alias # n.alias
        /\ ~(m.priority /\ n.priority)
        /\ m.file # None /\ n.file # None => NameOf[m.file] # NameOf[n.file]

\* A rescan offers no file whose entry is disabled, not even as a file it found
\* anew (expand: claimed_files).
StaysHidden ==
    \A e \in ToSet(toml'.models) :
        ~e.enabled => \A m \in result' : m.file # e.file \/ m.file = None

\* It keeps the settings of every registered file that is alone under its name
\* and still there (discover_with_merge).
KeepsSettings ==
    \A e \in ToSet(Load(toml).models) :
        /\ e.file \in Under(toml'.roots)
        /\ \A f \in disk : NameOf[f] = NameOf[e.file] => f = e.file
        => \E k \in ToSet(toml'.models) :
             /\ k.file = e.file
             /\ <<k.enabled, k.ctx, k.floor, k.hf, k.repo, k.pin>>
                  = <<e.enabled, e.ctx, e.floor, e.hf, e.repo, e.pin>>

\* Nor does a merge of two files of one name lose a setting that withholds the
\* model or favours it (merge_registry_entry).
KeepsFlags ==
    \A e \in ToSet(Load(toml).models), k \in ToSet(toml'.models) :
        e.file \in Under(toml'.roots) /\ Key(k) = Key(e) =>
            /\ ~e.enabled => ~k.enabled
            /\ e.priority => k.priority

\* What a user set survives a rescan, however files were moved, merged and found
\* again since.
SettingsKept == [][RefreshScan => StaysHidden /\ KeepsSettings /\ KeepsFlags]_vars

\* models clean never deletes the last copy of a model.
CleanKeepsModel ==
    [][ Clean => {NameOf[f] : f \in disk'} = {NameOf[f] : f \in disk} ]_vars

Withheld(file) ==
    \/ file \in TooBig
    \/ \E e \in ToSet(toml.models) : Key(e) = NameOf[file] /\ (~e.enabled \/ e.pin # None)

\* Once nobody moves files, what lies in a scanned directory is offered at some refresh, under
\* whatever alias, unless an entry withholds it, an entry is misconfigured or the
\* ports run out: no lost write hides a file for good.
FilesGetServed ==
    \A file \in Files :
        <>[](file \in Under(ScanRoots(toml.roots))) =>
            []<>( \/ \E m \in live : m.file # None /\ NameOf[m.file] = NameOf[file]
                  \/ Withheld(file)
                  \/ ScanFails )

\* docs/models/safetensors.md: "Writes the vLLM source ... into the registry" and
\* "Refreshes a running server": an entry with a vLLM source survives a rescan.
VllmKept ==
    [][ RefreshScan => {e.alias : e \in {e \in ToSet(Load(toml).models) : e.repo}}
                          \subseteq {e.alias : e \in {e \in ToSet(toml'.models) : e.repo}} ]_vars

=============================================================================
