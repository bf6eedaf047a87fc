---------------------------- MODULE UploadArchive ----------------------------
(***************************************************************************)
(* A ZIP uploaded from the dashboard, up to the one layer written under     *)
(* server-chosen names (upload_archive), and the looser reading of the      *)
(* trusted source ZIP (family_archive).                                     *)
(*                                                                         *)
(* An entry is [kind, plain, folder, stem, suffix, encrypted, method,       *)
(* packed, declared, real]: whether its name is a plain one, its parts, and *)
(* its compressed, declared and real sizes.                                 *)
(***************************************************************************)
EXTENDS ShapefileLayer

CONSTANTS
    MAX_ARCHIVE_ENTRIES,
    MAX_TOTAL_UNCOMPRESSED_BYTES,
    RATIO_CHECK_MIN_BYTES,
    MAX_COMPRESSION_RATIO,
    Lower       \* the lower-case form of each stem

ASSUME ArchiveAssumption ==
    {MAX_ARCHIVE_ENTRIES, MAX_TOTAL_UNCOMPRESSED_BYTES, RATIO_CHECK_MIN_BYTES, MAX_COMPRESSION_RATIO}
        \subseteq Nat

ACCEPTED_SUFFIXES == REQUIRED_MEMBER_SUFFIXES \cup OPTIONAL_MEMBER_SUFFIXES
NoStem == ""    \* a layer name that is blank or too long

Total(sizes) == FoldSeq(LAMBDA n, sum : n + sum, 0, sizes)

_is_symlink(entry) == entry.kind = "link"

\* A file has at most one folder, a directory none, and every part is a plain name.
_split_member_name(entry) == << Fails(~entry.plain, "unsafe_member") >>

\* Names are compared without regard to case.
SameName(e, f) ==
    e.folder = f.folder /\ Lower[e.stem] = Lower[f.stem] /\ e.suffix = f.suffix

Layered(entry) == entry.kind # "dir" /\ entry.suffix \in ACCEPTED_SUFFIXES

\* A member of a kind that an earlier entry has.
SecondOfKind(entries, i) ==
    Layered(entries[i]) /\ \E j \in 1..(i - 1) : Layered(entries[j]) /\ entries[j].suffix = entries[i].suffix

\* The ratio is looked at where the bytes are many.
SuspectRatio(entry) ==
    /\ entry.declared >= RATIO_CHECK_MIN_BYTES
    /\ entry.declared > MAX_COMPRESSION_RATIO * (IF entry.packed > 1 THEN entry.packed ELSE 1)

\* The checks one entry meets, in the order of the loop.
EntryChecks(entries, i) ==
    LET e == entries[i]
        file == e.kind # "dir"
    IN  << Fails(e.encrypted, "encrypted"),
           Fails(_is_symlink(e), "unsafe_member") >>
        \o _split_member_name(e)
        \o << Fails(file /\ \E j \in 1..(i - 1) : entries[j].kind # "dir" /\ SameName(entries[j], e),
                    "duplicate_member"),
              Fails(file /\ ~e.method, "unsupported_compression"),
              Fails(SecondOfKind(entries, i), "multiple_layers"),
              Fails(Layered(e) /\ SuspectRatio(e), "compression_ratio") >>

_check_directory(entries) ==
    LET members == SelectSeq(entries, Layered)
        folders == {e.folder : e \in Range(members)}
        directories == {e.folder : e \in {d \in Range(entries) : d.kind = "dir"}}
        stems == {e.stem : e \in Range(members)}
    IN  << Fails(Len(entries) > MAX_ARCHIVE_ENTRIES, "too_many_members") >>
        \o FlattenSeq([i \in DOMAIN entries |-> EntryChecks(entries, i)])
        \o << Fails(\E e \in Range(entries) : e.kind # "dir" /\ ~Layered(e), "unexpected_member"),
              Fails(Cardinality(folders) > 1 \/ directories \ folders # {}, "multiple_layers"),
              Fails(Cardinality(stems) > 1, "multiple_layers"),
              Fails(~(REQUIRED_MEMBER_SUFFIXES \subseteq {e.suffix : e \in Range(members)}),
                    "missing_members"),
              Fails(Total([i \in DOMAIN members |-> members[i].declared]) > MAX_TOTAL_UNCOMPRESSED_BYTES,
                    "too_large_uncompressed"),
              Fails(stems = {NoStem}, "unsafe_member") >>

\* Whether some member expands past what it declares, or all of them past the limit.
Expands(members) ==
    \/ \E e \in Range(members) : e.real > e.declared
    \/ Total([i \in DOMAIN members |-> members[i].real]) > MAX_TOTAL_UNCOMPRESSED_BYTES

\* The layer's name and the members written, or the reason.
extract_upload_archive(zip) ==
    LET checks == _check_directory(zip.entries)
        members == SelectSeq(zip.entries, Layered)
    IN  IF ~zip.readable THEN Refusal("not_zip")
        ELSE IF FirstFailure(checks) # 0 THEN Refusal(checks[FirstFailure(checks)].error)
        ELSE IF Expands(members) THEN Refusal("too_large_uncompressed")
        ELSE [layer_name |-> members[1].stem, suffixes |-> {e.suffix : e \in Range(members)},
              total_uncompressed_bytes |-> Total([i \in DOMAIN members |-> members[i].real])]

-----------------------------------------------------------------------------
\* family_archive, for the import script's own ZIP.

_safe_member_target(entry) == << Fails(~entry.plain, "unsafe path") >>

extract_family_archive(zip) ==
    LET files == SelectSeq(zip.entries, LAMBDA e : e.kind # "dir")
        shps == SelectSeq(files, LAMBDA e : e.suffix = ".shp")
        checks == FlattenSeq([i \in DOMAIN files |-> _safe_member_target(files[i])])
                    \o << Fails(Len(shps) # 1, "not one .shp") >>
    IN  IF ~zip.readable THEN Refusal("not a ZIP")
        ELSE IF FirstFailure(checks) # 0 THEN Refusal(checks[FirstFailure(checks)].error)
        ELSE [layer_name |-> shps[1].stem,
              suffixes |-> {e.suffix : e \in {f \in Range(files) : /\ f.folder = shps[1].folder
                                                                   /\ f.stem = shps[1].stem}}]
=============================================================================
