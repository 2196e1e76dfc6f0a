----------------------------- MODULE WorkerPacks -----------------------------
(***************************************************************************)
(* `greentic-dw worker` (greentic-dw-cli, worker.rs): commands that         *)
(* scaffold, validate and build worker packs, one process after the other, *)
(* on files that stay.  A build is several steps, each of which may fail   *)
(* and leave behind what the earlier ones wrote.                           *)
(*                                                                         *)
(* A file is a record whose type is "spec", "text", "pdf", "binary" or     *)
(* "pack".  The packer itself (greentic-dw-authoring) is external.         *)
(***************************************************************************)
EXTENDS TemplateSources

CONSTANTS
  WorkerCommands,           \* [do, kind, file, out, schema]; file and out optional
  Kinds,                    \* the kind each accepted spelling means
  FirstDisk,                \* the files before the first command, by absolute path
  Directories,              \* the directories, absolute; no command makes one
  Stems,                    \* the file stem of the names of documents
  PdfNames,                 \* the names that end in .pdf
  MaxCommands               \* bound on the commands of one behaviour

ASSUME WorkerAssumption ==
  /\ MaxCommands \in Nat
  /\ \A path \in DOMAIN FirstDisk : path # <<>> /\ Front(path) \in Directories
  /\ DOMAIN FirstDisk \cap Directories = {}
  /\ \A path \in DOMAIN FirstDisk : FirstDisk[path].type = "spec" =>
       /\ FirstDisk[path].pack # ".."
       /\ Len(FirstDisk[path].documents) \in Nat
       /\ DOMAIN FirstDisk[path].documents = 1..Len(FirstDisk[path].documents)
  /\ \A c \in WorkerCommands :
       /\ \A file, other \in c.file : file = other
       /\ \A o, other \in c.out :
            /\ o = other
            /\ o.path \in [absolute : BOOLEAN, segments : Seq(STRING)]
            /\ o.slash \in BOOLEAN

VARIABLES
  disk,                     \* the files
  command,                  \* the command that runs, a sequence of at most one
  step,                     \* how far it has come
  spec,                     \* the WorkerSpec it has read, a sequence of at most one
  texts,                    \* the knowledge inputs [id, text] read so far
  built,                    \* where the packer put the pack
  outcome,                  \* how the last command ended [error, path]
  before,                   \* the files when the command began
  ran                       \* the number of commands begun

workerVars == <<disk, command, step, spec, texts, built, outcome, before, ran>>

WorkerInit ==
  /\ disk = FirstDisk /\ before = FirstDisk
  /\ command = <<>> /\ step = "none" /\ spec = <<>> /\ texts = <<>>
  /\ built = <<>> /\ outcome = <<>> /\ ran = 0

-----------------------------------------------------------------------------
(* Files.                                                                  *)

\* fs::write and the packer: into a directory that is there, onto a file.
Writable(path) == path # <<>> /\ path \notin Directories /\ Front(path) \in Directories

WithFile(path, content) == [p \in DOMAIN disk \cup {path} |-> IF p = path THEN content ELSE disk[p]]

Exit(error, path) ==
  /\ outcome' = <<[error |-> error, path |-> path]>>
  /\ step' = "ended"

\* An error leaves the files as they are at that moment.
Refuse(error) ==
  /\ Exit({error}, <<>>)
  /\ UNCHANGED <<disk, command, spec, texts, built, before, ran>>

Succeed ==
  /\ Exit({}, <<>>)
  /\ UNCHANGED <<disk, command, spec, texts, built, before, ran>>

-----------------------------------------------------------------------------
(* Commands.                                                               *)

\* A process starts; the one before has ended.
Begin ==
  /\ step \in {"none", "ended"} /\ ran < MaxCommands
  /\ \E c \in WorkerCommands :
       /\ command' = <<c>>
       /\ step' = IF c.do = "init" THEN "scaffold"
                  ELSE IF c.schema \/ c.file = {} THEN "explain" ELSE "load"
  /\ before' = disk /\ ran' = ran + 1
  /\ spec' = <<>> /\ texts' = <<>> /\ built' = <<>> /\ outcome' = <<>>
  /\ UNCHANGED disk

\* `new` without answers, or with --schema, only explains itself.
Explain == step = "explain" /\ Succeed

\* Every scaffold has the same name, and so the same pack.
StarterSpec(kind) ==
  [type |-> "spec", kind |-> kind, pack |-> "my-worker.gtpack", valid |-> TRUE, documents |-> <<>>]

\* The file is named for the kind as it was spelled, unless --out says more.
ScaffoldPath(c) == OnDisk(IF c.out = {} THEN Relative(<<c.kind>>) ELSE (CHOOSE o \in c.out : TRUE).path)

\* run_init writes over whatever file is there.
Scaffold ==
  /\ step = "scaffold"
  /\ LET c == command[1] IN
     \/ c.kind \notin DOMAIN Kinds /\ Refuse("unknown_kind")
     \/ /\ c.kind \in DOMAIN Kinds /\ ~Writable(ScaffoldPath(c))
        /\ Refuse("spec_write")
     \/ /\ c.kind \in DOMAIN Kinds /\ Writable(ScaffoldPath(c))
        /\ disk' = WithFile(ScaffoldPath(c), StarterSpec(Kinds[c.kind]))
        /\ Exit({}, ScaffoldPath(c))
        /\ UNCHANGED <<command, spec, texts, built, before, ran>>

SpecFile == CHOOSE file \in command[1].file : TRUE

LoadSpec ==
  /\ step = "load"
  /\ \/ OnDisk(SpecFile) \notin DOMAIN disk /\ Refuse("spec_read")
     \/ /\ OnDisk(SpecFile) \in DOMAIN disk /\ disk[OnDisk(SpecFile)].type # "spec"
        /\ Refuse("spec_parse")
     \/ /\ OnDisk(SpecFile) \in DOMAIN disk /\ disk[OnDisk(SpecFile)].type = "spec"
        /\ spec' = <<disk[OnDisk(SpecFile)]>>
        /\ step' = "check"
        /\ UNCHANGED <<disk, command, texts, built, outcome, before, ran>>

\* run_validate, and the first line of build_from_spec.
CheckSpec ==
  /\ step = "check"
  /\ \/ ~spec[1].valid /\ Refuse("spec_invalid")
     \/ spec[1].valid /\ command[1].do = "validate" /\ Succeed
     \/ /\ spec[1].valid /\ command[1].do # "validate"
        /\ step' = "documents"
        /\ UNCHANGED <<disk, command, spec, texts, built, outcome, before, ran>>

\* Mutant: a file of that name in the working directory hides the document.
DocumentPathHere(document) ==
  IF OnDisk(document) \in DOMAIN disk THEN OnDisk(document)
  ELSE OnDisk(Join(Parent(SpecFile), document))

\* A relative document is looked for beside the spec and nowhere else.
DocumentPath(document) == OnDisk(Join(Parent(SpecFile), document))

\* extract_document_text: the name says whether it is a pdf.
DocumentError(path) ==
  IF path \notin DOMAIN disk THEN {"document_read"}
  ELSE IF Last(path) \in PdfNames THEN (IF disk[path].type = "pdf" THEN {} ELSE {"document_extract"})
  ELSE IF disk[path].type \in {"text", "spec"} THEN {} ELSE {"document_read"}

\* load_knowledge_inputs: the next document, known by its stem from here on.
ReadDocument ==
  /\ step = "documents" /\ Len(texts) < Len(spec[1].documents)
  /\ LET path == DocumentPath(spec[1].documents[Len(texts) + 1]) IN
     \/ \E error \in DocumentError(path) : Refuse(error)
     \/ /\ DocumentError(path) = {}
        /\ texts' = Append(texts, [id |-> Stems[Last(path)], text |-> disk[path]])
        /\ UNCHANGED <<disk, command, step, spec, built, outcome, before, ran>>

\* resolve_out_dir: the directory that holds --out, whatever --out is.
OutDir(out) ==
  IF \E o \in out : o.path.segments # <<>>
    THEN Parent((CHOOSE o \in out : TRUE).path) ELSE Relative(<<>>)

PackPath == OnDisk(Join(OutDir(command[1].out), Relative(<<spec[1].pack>>)))

\* build_worker_pack names the file itself; it may fail and then writes
\* nothing.
AssemblePack ==
  /\ step = "documents" /\ Len(texts) = Len(spec[1].documents)
  /\ \/ Refuse("assemble")
     \/ /\ Writable(PackPath)
        /\ disk' = WithFile(PackPath, [type |-> "pack", spec |-> spec[1], knowledge |-> texts])
        /\ built' = PackPath
        /\ step' = "finalize"
        /\ UNCHANGED <<command, spec, texts, outcome, before, ran>>

\* out_names_directory: empty, with a separator at its end, or a directory.
NamesDirectory(o) == o.path.segments = <<>> \/ o.slash \/ OnDisk(o.path) \in Directories

\* Mutant: a copy stays behind.
MovedByCopy(from, to) == WithFile(to, disk[from])

\* fs::rename, also onto itself or over another file.
Moved(from, to) ==
  [p \in (DOMAIN disk \ {from}) \cup {to} |-> IF p = to THEN disk[from] ELSE disk[p]]

\* finalize_pack_path: the pack moves to the name that was asked for, over
\* whatever file is there; if it cannot it stays where the packer put it.
FinalizePack ==
  /\ step = "finalize"
  /\ \/ /\ \A o \in command[1].out : NamesDirectory(o)
        /\ Exit({}, built)
        /\ UNCHANGED <<disk, command, spec, texts, built, before, ran>>
     \/ \E o \in command[1].out :
          /\ ~NamesDirectory(o)
          /\ \/ Refuse("pack_write")
             \/ /\ disk' = Moved(built, OnDisk(o.path))
                /\ Exit({}, OnDisk(o.path))
                /\ UNCHANGED <<command, spec, texts, built, before, ran>>

WorkerNext ==
  \/ Begin \/ Explain \/ Scaffold \/ LoadSpec \/ CheckSpec
  \/ ReadDocument \/ AssemblePack \/ FinalizePack

-----------------------------------------------------------------------------
(* Safety.                                                                 *)

Built == \E o \in ToSet(outcome) : o.error = {} /\ built # <<>>

\* A build that succeeds has put at the path it reports, which is the one
\* asked for if --out names a file, a pack of the spec as it was and of every
\* document, in order, as it lay beside the spec (load_knowledge_inputs: "never
\* shadowed by a coincidentally same-named file").
PacksHoldWhatTheSpecSays ==
  Built =>
    LET file == OnDisk(SpecFile)
        pack == disk[outcome[1].path]
        documents == before[file].documents
    IN  /\ pack.type = "pack" /\ pack.spec = before[file] /\ before[file].valid
        /\ Len(pack.knowledge) = Len(documents)
        /\ \A i \in DOMAIN documents :
             LET path == OnDisk(Join(Parent(SpecFile), documents[i])) IN
             /\ path \in DOMAIN before /\ pack.knowledge[i].text = before[path]
             /\ pack.knowledge[i].text.type # "binary"
        /\ \A o \in command[1].out :
             ~o.slash /\ o.path.segments # <<>> /\ OnDisk(o.path) \notin Directories =>
               outcome[1].path = OnDisk(o.path)

\* A build touches two names in one directory: that of the pack and, in the
\* directory that holds it, the one asked for.  A command that is refused
\* before the packer has run has touched nothing, and no command leaves a
\* pack behind under both names (build_from_spec, finalize_pack_path).
BuildsTouchTheirOwnFiles ==
  command # <<>> /\ command[1].do # "init" =>
    LET touched == {p \in DOMAIN disk \cup DOMAIN before :
                      p \in DOMAIN disk /\ p \in DOMAIN before => disk[p] # before[p]}
        asked == {OnDisk(o.path) : o \in command[1].out}
    IN  /\ built = <<>> => touched = {}
        /\ Built /\ outcome[1].path # built => built \notin DOMAIN disk
        /\ \A p \in touched :
             /\ p \in asked \/ Last(p) = spec[1].pack
             /\ \A o \in command[1].out : o.path.segments # <<>> /\ Last(o.path.segments) # ".." =>
                  Front(p) = Front(OnDisk(o.path))
             /\ (\A o \in command[1].out : o.path.segments = <<>>) => Front(p) = Cwd
=============================================================================
