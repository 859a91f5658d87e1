------------------------------ MODULE Downloads ------------------------------
(***************************************************************************)
(* `models pull` and `models pull vllm` (src/src/config/models_cmd.rs):    *)
(* listing a repository, choosing a file, downloading it with aria2c or    *)
(* the native resuming downloader (src/src/config/hf_download.rs),         *)
(* verifying and registering it; and the server that finds, checks         *)
(* (src/src/gguf_integrity.rs) and loads what lies in the models           *)
(* directory meanwhile.                                                    *)
(*                                                                         *)
(* A file on disk is a sequence of blocks.  A block is the revision of the *)
(* repository its bytes are from, or a Hole nothing was written to.  The   *)
(* first block holds the header, which says how long the file must be.     *)
(***************************************************************************)
EXTENDS Quants

CONSTANTS
    Pulls,        \* command processes
    Scenarios,    \* what the commands pull: [Pulls -> {"gguf", "vllm", "none"}]
    Uploads,      \* the tree entries a repository may list
    Selectors,    \* values of --quant, "" when absent
    Capacity,     \* RAM and VRAM, for --quant auto
    Size,         \* file |-> revision |-> its length in blocks
    MaxUploads,   \* bound on the entries of the tree
    MaxFaults     \* bound on cut transfers, failures of aria2c and killed commands

Hole == 0
Files == {"gguf", "config.json", "weights"}
Summed == {"gguf", "weights"}       \* the tree gives an LFS digest for these
Revisions == 1..2
Unread == "unread"
Over == {"idle", "done", "failed", "refused"}

ASSUME DownloadsAssumption ==
    /\ Scenarios \subseteq [Pulls -> {"gguf", "vllm", "none"}]
    /\ Size \in [Files -> [Revisions -> Nat \ {0}]]
    /\ MaxUploads \in Nat /\ MaxFaults \in Nat /\ Capacity \in Nat

\* What extract_quant and split_model_part make of a path.
ASSUME UploadsAssumption ==
    /\ \A e \in Uploads : e.size \in Nat /\ e.total \in Nat /\ (Single(e) \/ e.part \in 1..e.total)
    /\ \A e, d \in Uploads : ~Single(e) /\ ~Single(d) /\ e.stem = d.stem => e.group = d.group

VARIABLES
    tree,         \* what the GGUF repository lists, until a pull has chosen from it
    choice,       \* Unread, "chosen" or Refused
    kind,         \* pull |-> its subcommand
    hub,          \* the revision the hub serves
    disk,         \* file |-> its blocks, empty when there is no file
    control,      \* files with an .aria2 control file |-> the blocks it has down as fetched
    registered,   \* the sources models.toml names: "gguf", "vllm"
    loaded,       \* whether the server has the GGUF loaded
    pull,         \* pull |-> the locals of its command
    transfer,     \* pull |-> those of the transfer it is in
    faults,
    troubled      \* what has happened that the downloader does not allow for
vars == <<tree, choice, kind, hub, disk, control, registered, loaded, pull, transfer, faults, troubled>>
world == <<tree, choice, kind, hub>>
server == <<registered, loaded>>
command == <<pull, transfer>>

Serving(k) == IF k = "vllm" THEN <<"config.json", "weights">> ELSE <<"gguf">>
Whole(f, rev) == [i \in 1..Size[f][rev] |-> rev]
\* The file being downloaded.
File(p) == Serving(kind[p])[pull[p].at]

\* A write at an offset: what lies between the end of the file and it is a hole.
Write(blocks, at, block) ==
    [i \in 1..(IF at > Len(blocks) THEN at ELSE Len(blocks)) |->
        IF i = at THEN block ELSE IF i <= Len(blocks) THEN blocks[i] ELSE Hole]

Enters(p, phase) == pull' = [pull EXCEPT ![p].phase = phase]

NewPull == [phase |-> "idle", at |-> 1, listed |-> 0, snapshot |-> {}]
NoTransfer == [rev |-> 0, next |-> 0, append |-> FALSE, got |-> {}, fallback |-> FALSE]
Transfers(p, new) == transfer' = [transfer EXCEPT ![p] = new]
Again(p, phase) ==
    /\ pull' = [pull EXCEPT ![p] = [NewPull EXCEPT !.phase = phase]]
    /\ Transfers(p, NoTransfer)

Init ==
    /\ tree = {} /\ choice = Unread /\ kind \in Scenarios /\ hub = 1
    /\ disk = [f \in Files |-> <<>>] /\ control = [f \in {} |-> {}]
    /\ registered = {} /\ loaded = FALSE
    /\ pull = [p \in Pulls |-> NewPull] /\ transfer = [p \in Pulls |-> NoTransfer]
    /\ faults = 0 /\ troubled = {}
----------------------------------------------------------------------------
\* The hub.

Upload(e) ==
    /\ choice = Unread /\ \E p \in Pulls : kind[p] = "gguf"
    /\ Cardinality(tree) < MaxUploads /\ e \notin tree
    /\ tree' = tree \cup {e}
    /\ UNCHANGED <<choice, kind, hub, disk, control, server, command, faults, troubled>>

Revise ==
    /\ hub < 2 /\ hub' = 2
    /\ troubled' = troubled \cup {"revised"}
    /\ UNCHANGED <<tree, choice, kind, disk, control, server, command, faults>>
----------------------------------------------------------------------------
\* The commands.

\* The tree is listed and, of GGUF files, one is selected.
Choose(p) ==
    /\ choice = Unread /\ kind[p] = "gguf" /\ pull[p].phase = "idle"
    /\ \E selector \in Selectors :
           choice' = IF SelectEntry(tree, selector, Capacity) = {} THEN Refused ELSE "chosen"
    /\ tree' = {}
    /\ UNCHANGED <<kind, hub, disk, control, server, command, faults, troubled>>

Alongside(p) == \E q \in Pulls \ {p} : pull[q].phase \notin Over /\ kind[q] = kind[p]

\* A vLLM source that is registered with weights in place is not pulled again,
\* unless --force is given.
Present(p) == kind[p] = "vllm" /\ "vllm" \in registered /\ disk["weights"] # <<>>

Begin(p) ==
    /\ pull[p].phase = "idle" /\ kind[p] # "none"
    /\ kind[p] = "gguf" => choice # Unread
    /\ IF kind[p] = "gguf" /\ choice = Refused
       THEN Again(p, "refused") /\ UNCHANGED troubled
       ELSE \E force \in BOOLEAN :
            IF Present(p) /\ ~force
            THEN Again(p, "done") /\ UNCHANGED troubled
            ELSE /\ pull' = [pull EXCEPT ![p] =
                       [NewPull EXCEPT !.phase = "file", !.listed = hub,
                                       !.snapshot = IF kind[p] = "vllm" THEN registered ELSE {}]]
                 /\ UNCHANGED transfer
                 /\ troubled' = troubled \cup (IF Alongside(p) THEN {"overlap"} ELSE {})
    /\ UNCHANGED <<world, disk, control, server, faults>>

\* The control file has these blocks of f down as fetched.
Noted(f, blocks) ==
    control' = [g \in DOMAIN control \cup {f} |-> IF g = f THEN blocks ELSE control[g]]
Forgotten(f) == control' = [g \in DOMAIN control \ {f} |-> control[g]]

\* What follows a transfer that ended well: a control file goes with aria2c, or
\* when the native downloader has ended what aria2c began.
Fetched(p, clears) ==
    /\ Enters(p, "verify") /\ Transfers(p, NoTransfer)
    /\ IF clears THEN Forgotten(File(p)) ELSE UNCHANGED control

\* aria2c, which resumes what its control file knows, or a file without one as
\* if it were a prefix.
StartAria2(p) ==
    LET f == File(p)
        known == IF f \in DOMAIN control THEN control[f] ELSE DOMAIN disk[f]
    IN  /\ pull[p].phase = "file"
        /\ Enters(p, "aria2") /\ Transfers(p, [NoTransfer EXCEPT !.rev = hub, !.got = known])
        /\ Noted(f, known)
        /\ UNCHANGED <<world, disk, server, faults, troubled>>

\* One of its connections delivers a block, anywhere in the file.
Aria2Fetches(p) ==
    LET f == File(p) IN
    /\ pull[p].phase = "aria2"
    /\ \E i \in 1..Size[f][transfer[p].rev] \ transfer[p].got :
           /\ disk' = [disk EXCEPT ![f] = Write(@, i, transfer[p].rev)]
           /\ transfer' = [transfer EXCEPT ![p].got = @ \cup {i}]
           /\ Noted(f, transfer[p].got \cup {i})
    /\ UNCHANGED <<world, server, pull, faults, troubled>>

Aria2Done(p) ==
    LET f == File(p) IN
    /\ pull[p].phase = "aria2" /\ 1..Size[f][transfer[p].rev] \subseteq transfer[p].got
    /\ f \in Summed => disk[f] = Whole(f, pull[p].listed)
    /\ Fetched(p, TRUE)
    /\ UNCHANGED <<world, disk, server, faults, troubled>>

\* It exits with an error, of its own or for a checksum that does not match; the
\* native downloader takes over.
Aria2Fails(p) ==
    LET f == File(p)
        finished == 1..Size[f][transfer[p].rev] \subseteq transfer[p].got IN
    /\ pull[p].phase = "aria2"
    /\ IF finished /\ f \in Summed /\ disk[f] # Whole(f, pull[p].listed)
       THEN UNCHANGED faults
       ELSE faults < MaxFaults /\ faults' = faults + 1
    /\ Enters(p, "native") /\ Transfers(p, [NoTransfer EXCEPT !.fallback = TRUE])
    /\ UNCHANGED <<world, disk, control, server, troubled>>

StartNative(p) ==
    /\ pull[p].phase = "file"
    /\ Enters(p, "native")
    /\ UNCHANGED <<world, disk, control, server, transfer, faults, troubled>>

Handover(p) == IF File(p) \in DOMAIN control THEN {"handover"} ELSE {}

\* The hub answers 206 with the rest, or 200 with the whole.
Asks(p, partial) ==
    /\ Enters(p, "asked")
    /\ Transfers(p, [rev |-> hub, append |-> partial, got |-> {},
                     fallback |-> transfer[p].fallback,
                     next |-> IF partial THEN Len(disk[File(p)]) + 1 ELSE 1])

\* Mutant: a range the hub cannot satisfy is an error.
AskStrictly(p) ==
    LET existing == Len(disk[File(p)]) IN
    /\ pull[p].phase = "native"
    /\ troubled' = troubled \cup Handover(p)
    /\ IF existing >= Size[File(p)][hub]
       THEN Again(p, "failed") /\ UNCHANGED control
       ELSE /\ \E partial \in BOOLEAN : (partial => existing > 0) /\ Asks(p, partial)
            /\ UNCHANGED control
    /\ UNCHANGED <<world, disk, server, faults>>

\* The request for the rest of the file.  A range past the end is answered 416
\* and taken to mean that nothing is missing; a server may also ignore ranges
\* and answer 200 with the whole.
Ask(p) ==
    LET existing == Len(disk[File(p)]) IN
    /\ pull[p].phase = "native"
    /\ troubled' = troubled \cup Handover(p)
    /\ IF existing >= Size[File(p)][hub]
       THEN Fetched(p, transfer[p].fallback)
       ELSE /\ \E partial \in BOOLEAN : (partial => existing > 0) /\ Asks(p, partial)
            /\ UNCHANGED control
    /\ UNCHANGED <<world, disk, server, faults>>

\* Mutant: the file is opened to append whatever the status was.
OpenAppending(p) ==
    /\ pull[p].phase = "asked"
    /\ UNCHANGED disk
    /\ Enters(p, "stream") /\ transfer' = [transfer EXCEPT ![p].append = TRUE]
    /\ UNCHANGED <<world, control, server, faults, troubled>>

\* 206 appends to the file, 200 starts it over.
Open(p) ==
    /\ pull[p].phase = "asked"
    /\ disk' = IF transfer[p].append THEN disk ELSE [disk EXCEPT ![File(p)] = <<>>]
    /\ Enters(p, "stream")
    /\ UNCHANGED <<transfer, world, control, server, faults, troubled>>

\* An appending descriptor writes at the end, wherever that is by now.
Chunk(p) ==
    LET f == File(p) IN
    /\ pull[p].phase = "stream" /\ transfer[p].next <= Size[f][transfer[p].rev]
    /\ disk' = [disk EXCEPT ![f] =
                   Write(@, IF transfer[p].append THEN Len(@) + 1 ELSE transfer[p].next, transfer[p].rev)]
    /\ transfer' = [transfer EXCEPT ![p].next = @ + 1]
    /\ UNCHANGED <<pull, world, control, server, faults, troubled>>

StreamEnds(p) ==
    /\ pull[p].phase = "stream" /\ transfer[p].next > Size[File(p)][transfer[p].rev]
    /\ Fetched(p, transfer[p].fallback)
    /\ UNCHANGED <<world, disk, server, faults, troubled>>

\* A request or a stream that breaks leaves the file as far as it got.
Cut(p) ==
    /\ pull[p].phase \in {"native", "asked", "stream"}
    /\ faults < MaxFaults /\ faults' = faults + 1
    /\ Again(p, "failed")
    /\ UNCHANGED <<world, disk, control, server, troubled>>

\* Mutant: only the size is compared.
MatchesInSize(f, rev) == Len(disk[f]) = Size[f][rev]

Matches(f, rev) == Len(disk[f]) = Size[f][rev] /\ (f \in Summed => disk[f] = Whole(f, rev))

\* verify_download; then the next file of the repository, if it has one.
Verify(p) ==
    /\ pull[p].phase = "verify"
    /\ IF ~Matches(File(p), pull[p].listed)
       THEN Again(p, "failed")
       ELSE IF pull[p].at < Len(Serving(kind[p]))
       THEN pull' = [pull EXCEPT ![p].phase = "file", ![p].at = @ + 1] /\ UNCHANGED transfer
       ELSE Enters(p, "register") /\ UNCHANGED transfer
    /\ UNCHANGED <<world, disk, control, server, faults, troubled>>

\* What validate_gguf_model and a scan of the models directory look at: a name
\* and a readable header.
Readable(blocks) == blocks # <<>> /\ Head(blocks) # Hole

\* models.toml is read after the download and written with the new source.
RegisterGguf(p) ==
    /\ pull[p].phase = "register" /\ kind[p] = "gguf"
    /\ IF Readable(disk["gguf"])
       THEN Enters(p, "refresh") /\ registered' = registered \cup {"gguf"} /\ UNCHANGED transfer
       ELSE Again(p, "failed") /\ UNCHANGED registered
    /\ UNCHANGED <<world, disk, control, loaded, faults, troubled>>

\* models.toml was read before the download: what is written is that, merged.
RegisterVllm(p) ==
    /\ pull[p].phase = "register" /\ kind[p] = "vllm"
    /\ registered' = pull[p].snapshot \cup {"vllm"}
    /\ Enters(p, "refresh")
    /\ UNCHANGED <<transfer, world, disk, control, loaded, faults, troubled>>

\* What a rescan of the server leaves in models.toml: GGUF files that are there.
Rescanned == IF Readable(disk["gguf"]) THEN {"gguf"} ELSE {}

\* The running server is asked to refresh; that it does not answer is a warning.
Refresh(p) ==
    /\ pull[p].phase = "refresh"
    /\ \E answered \in BOOLEAN : registered' = IF answered THEN Rescanned ELSE registered
    /\ Again(p, "done")
    /\ UNCHANGED <<world, disk, control, loaded, faults, troubled>>

\* The command is interrupted, and an aria2c with it.
Kill(p) ==
    /\ pull[p].phase \notin Over
    /\ faults < MaxFaults /\ faults' = faults + 1
    /\ Again(p, "failed")
    /\ UNCHANGED <<world, disk, control, server, troubled>>

\* The user repeats the command.
Repeat(p) ==
    /\ pull[p].phase \in {"failed", "done"}
    /\ Again(p, "idle")
    /\ UNCHANGED <<world, disk, control, server, faults, troubled>>
----------------------------------------------------------------------------
\* The server.

Rescan ==
    /\ registered' = Rescanned
    /\ UNCHANGED <<world, disk, control, loaded, command, faults, troubled>>

\* Mutant: the header is read and the length of the file is not compared.
IntactByHeader(blocks) == Readable(blocks)

\* check_gguf_integrity: the tensors the header lists end within the file.
Intact(blocks) == Readable(blocks) /\ Len(blocks) >= Size["gguf"][Head(blocks)]

\* preflight_model_file refuses a damaged file before anything is unloaded.
Load ==
    /\ "gguf" \in registered /\ ~loaded /\ Intact(disk["gguf"])
    /\ loaded' = TRUE
    /\ UNCHANGED <<world, disk, control, registered, command, faults, troubled>>

Unload ==
    /\ loaded /\ loaded' = FALSE
    /\ UNCHANGED <<world, disk, control, registered, command, faults, troubled>>
----------------------------------------------------------------------------
Step(p) ==
    \/ Choose(p) \/ Begin(p)
    \/ StartAria2(p) \/ Aria2Fetches(p) \/ Aria2Done(p) \/ Aria2Fails(p)
    \/ StartNative(p) \/ Ask(p) \/ Open(p) \/ Chunk(p) \/ StreamEnds(p)
    \/ Verify(p) \/ RegisterGguf(p) \/ RegisterVllm(p) \/ Refresh(p) \/ Repeat(p)

Next ==
    \/ \E e \in Uploads : Upload(e)
    \/ Revise \/ Rescan \/ Load \/ Unload
    \/ \E p \in Pulls : Step(p) \/ Cut(p) \/ Kill(p)

Spec == Init /\ [][Next]_vars

\* Commands run, and a user repeats one that has not succeeded.
FairSpec == Spec /\ \A p \in Pulls : WF_vars(Step(p))
----------------------------------------------------------------------------
\* Types, and no control file outlives the transfer it was for, unless aria2c left
\* it behind and the native downloader was then started alone.
TypeOK ==
    /\ tree \subseteq Uploads /\ choice \in {Unread, "chosen", Refused}
    /\ kind \in Scenarios /\ hub \in Revisions
    /\ DOMAIN disk = Files /\ \A f \in Files : Len(disk[f]) <= 6
    /\ DOMAIN control \subseteq Files
    /\ \A f \in DOMAIN control : control[f] \subseteq 1..6
    /\ registered \subseteq {"gguf", "vllm"}
    /\ faults \in 0..MaxFaults /\ troubled \subseteq {"revised", "overlap", "handover"}
    /\ \A p \in Pulls :
          /\ pull[p].phase \in Over \cup {"file", "aria2", "native", "asked", "stream", "verify",
                                       "register", "refresh"}
          /\ troubled \subseteq {"revised"} /\ pull[p].phase \in {"verify", "register"} =>
                 File(p) \notin DOMAIN control

\* Resuming neither skips nor repeats a byte, across cuts, kills, servers that
\* ignore ranges and returns of aria2c: a file without a control file is a prefix
\* of the revision on the hub, as long as that did not change, one command ran at
\* a time and the native downloader never took a file over from aria2c.
ResumesExactly ==
    troubled = {} => \A f \in Files \ DOMAIN control : IsPrefix(disk[f], Whole(f, hub))

\* Whatever was on the disk before, an entry is written for a source only when
\* each of its checksummed files is the one the tree listed, through to the moment
\* of the write, unless commands overlapped.
RegistersWhole ==
    [][\A p \in Pulls :
          pull[p].phase = "register" /\ pull'[p].phase = "refresh" /\ "overlap" \notin troubled =>
              \A f \in Range(Serving(kind[p])) \cap Summed : disk[f] = Whole(f, pull[p].listed)]_vars

\* The server finds, registers and may load a file that a command is still writing:
\* comparing its length with its header is enough for it to load only whole files,
\* as long as the native downloader writes them and nothing troubled it.
LoadsWhole ==
    [][~loaded /\ loaded' /\ troubled = {} /\ "gguf" \notin DOMAIN control =>
          disk["gguf"] = Whole("gguf", hub)]_vars

\* A repeated pull ends well, whatever cut the earlier ones short, complete files
\* that were never verified included.
Heals ==
    \A p \in Pulls : pull[p].phase = "file" ~> troubled # {} \/ pull[p].phase = "done"

\* What `pull --quant auto` takes, `search` lists as supported.
SearchAgrees ==
    \A e \in SelectEntry(tree, "AUTO", Capacity) :
        \E o \in CompleteModelOptions(tree) :
            o.quant = e.label /\ o.bytes <= e.size /\ IsSupported(o.bytes, Capacity)

\* The files an option of `search` stands for: one, or every shard of a split model.
StandsFor(o, files) ==
    \/ \E e \in files : files = {e} /\ Single(e) /\ e.label = o.quant /\ e.size = o.bytes
    \/ \E e \in files :
           /\ {d.part : d \in files} = 1..e.total /\ Cardinality(files) = e.total
           /\ \A d \in files : d.stem = e.stem /\ d.group = o.quant
           /\ Bytes(files) = o.bytes

\* What `search` lists exists: a file, or every shard of a split one, of the bytes
\* it says.
OptionsWhole ==
    \A o \in CompleteModelOptions(tree) :
        \E files \in SUBSET ModelEntries(tree) : StandsFor(o, files)

\* search and pull see the same models in a repository.
SelectionAgrees == SearchAgrees /\ OptionsWhole

\* The refusal of a damaged file tells the user to download it again
\* (src/src/scheduler/mod.rs:462): doing so ends with a file that loads.
DownloadedAgain ==
    \A p \in Pulls : pull[p].phase = "file" ~> pull[p].phase = "done"
=============================================================================
