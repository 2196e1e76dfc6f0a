--------------------------- MODULE TemplateSources ---------------------------
(***************************************************************************)
(* How a template catalog finds its templates on disk (greentic-dw-types,  *)
(* template_catalog.rs and source_ref.rs).  A path is a record of whether  *)
(* it is absolute and of its components; ".." is the only component with a *)
(* meaning.  The files are a set of absolute paths; there are no links.    *)
(***************************************************************************)
EXTENDS Naturals, Sequences, SequencesExt

CONSTANTS
  Cwd,                      \* the working directory, a sequence of components
  Files                     \* the regular files, absolute sequences

\* The operating system names the working directory without "..".
ASSUME CwdAssumption ==
  Cwd \in Seq(STRING) /\ \A i \in DOMAIN Cwd : Cwd[i] # ".."

-----------------------------------------------------------------------------
(* Paths.                                                                  *)

Relative(segments) == [absolute |-> FALSE, segments |-> segments]
Rooted(segments) == [absolute |-> TRUE, segments |-> segments]

\* PathBuf::join: an absolute path replaces what it is joined to.
Join(base, path) ==
  IF path.absolute THEN path ELSE [base EXCEPT !.segments = @ \o path.segments]

Parent(path) == [path EXCEPT !.segments = Front(@)]

PopOrPush(segments, segment) ==
  IF segment = ".." THEN (IF segments = <<>> THEN <<>> ELSE Front(segments))
                    ELSE Append(segments, segment)

\* normalize_path: without looking at the disk.
Normalize(path) == [path EXCEPT !.segments = FoldLeft(PopOrPush, <<>>, @)]

\* Where the operating system looks for a path.
OnDisk(path) == Normalize(Join(Rooted(Cwd), path)).segments

IsFile(path) == OnDisk(path) \in Files

\* Path::canonicalize answers for what is on disk: a file or a directory
\* above one.  The empty path is nowhere.
Canonicalize(path) ==
  IF path = Relative(<<>>) \/ ~\E file \in Files : IsPrefix(OnDisk(path), file)
    THEN {} ELSE {Rooted(OnDisk(path))}

-----------------------------------------------------------------------------
(* The catalog: entries [id, kind, path], and the directory it was read in. *)

IsLocal(entry) == entry.kind \in {"local_path", "dev_path"}

\* rebase_local_refs puts the catalog's directory, as it was spelled on the
\* command line, in front of a relative reference.
Rebase(entry, dir) ==
  IF IsLocal(entry) THEN [entry EXCEPT !.path = Join(dir, @)] ELSE entry

\* TemplateCatalog::from_json_path, once the file is there and parses.
Catalog(path, entries) ==
  [base_dir |-> Canonicalize(Parent(path)),
   entries |-> [i \in DOMAIN entries |-> Rebase(entries[i], Parent(path))]]

\* find: the first entry of that id.
FindEntry(catalog, id) ==
  LET hits == {i \in DOMAIN catalog.entries : catalog.entries[i].id = id}
  IN  {catalog.entries[i] : i \in {j \in hits : \A k \in hits : j <= k}}

\* resolve_local_ref_path
Candidate(catalog, path) ==
  Normalize(IF catalog.base_dir = {} THEN path
            ELSE Join(CHOOSE dir \in catalog.base_dir : TRUE, path))

\* The path the candidate is judged by: where it is on disk, else its parent
\* there with its name, else the candidate itself.
CheckedTarget(candidate) ==
  LET parents == Canonicalize(Parent(candidate))
  IN  IF Canonicalize(candidate) # {} THEN Canonicalize(candidate)
      ELSE IF parents # {}
        THEN {Join(dir, Relative(<<Last(candidate.segments)>>)) : dir \in parents}
        ELSE {candidate}

\* resolve_local_ref_within_catalog: outside its directory a catalog has no
\* templates; one whose directory is not known is not judged.
WithinCatalog(catalog, candidate) ==
  \A dir \in catalog.base_dir : \A target \in CheckedTarget(candidate) :
    target.absolute /\ IsPrefix(dir.segments, target.segments)

\* resolve_template: "found", or the error it ends with.
Resolution(catalog, id) ==
  IF FindEntry(catalog, id) = {} THEN "not_found"
  ELSE LET entry == CHOOSE e \in FindEntry(catalog, id) : TRUE
           candidate == Candidate(catalog, entry.path)
       IN  CASE ~IsLocal(entry) -> "unsupported"
             [] ~WithinCatalog(catalog, candidate) -> "escapes_catalog"
             [] ~IsFile(candidate) -> "unreadable"
             [] OTHER -> "found"
=============================================================================
