---- MODULE ArchiveListing ----
(***************************************************************************)
(* What cmake/bootstrap/archive.cmake accepts as the listing of an         *)
(* archive, before a byte of it is extracted.  A listing is the sequence   *)
(* of entries that `tar tf` prints; an archive's shape is what the lock    *)
(* says of it.                                                             *)
(***************************************************************************)
EXTENDS Naturals, FiniteSets, Sequences, Functions

CONSTANTS
  Folded,           \* a name, in lower case
  Oversized,        \* the names longer than 128 bytes
  MaxEntries,       \* bound of the code: 300000 entries
  MaxPathDepth      \* bound of the code: 32 components

\* An entry, its trailing slash taken off and remembered.  `plain` is false of
\* one with a backslash, a colon, a leading slash or more than 1024 bytes.
AdmissiblePath(entry) ==
  /\ entry.plain
  /\ Len(entry.path) \in 1 .. MaxPathDepth
  /\ \A i \in DOMAIN entry.path :
       entry.path[i] \notin ({"", ".", ".."} \union Oversized)

FoldedPath(entry) == [i \in DOMAIN entry.path |-> Folded[entry.path[i]]]

NoneCollide(listing) ==
  \A i, j \in DOMAIN listing :
    i # j => FoldedPath(listing[i]) # FoldedPath(listing[j])

\* rf_validate_archive_listing
ValidateListing(listing, roots) ==
  /\ Len(listing) <= MaxEntries
  /\ \A i \in DOMAIN listing : AdmissiblePath(listing[i])
  /\ {listing[i].path[1] : i \in DOMAIN listing} = roots
  /\ NoneCollide(listing)

\* rf_validate_rootless_archive_listing
ValidateRootlessListing(listing, shape) ==
  LET Tops(at) == {Folded[listing[i].path[1]] : i \in at}
      inside   == {i \in DOMAIN listing : Len(listing[i].path) > 1 \/ listing[i].dir}
      atTop    == DOMAIN listing \ inside
  IN  /\ Len(listing) <= MaxEntries
      /\ Len(listing) = shape.entries
      /\ \A i \in DOMAIN listing : AdmissiblePath(listing[i])
      /\ NoneCollide(listing)
      /\ Tops(inside) \intersect Tops(atTop) = {}
      /\ Cardinality(Tops(inside)) = shape.directories
      /\ Cardinality(Tops(atTop)) = shape.files

\* rf_extract_single_file_archive, up to the extraction
ValidateSingleFile(listing, shape) ==
  /\ ValidateListing(listing, shape.roots)
  /\ Len(listing) = 1
  /\ listing[1].path = <<shape.only>>

Accepted(listing, shape) ==
  CASE shape.kind = "rooted"   -> ValidateListing(listing, shape.roots)
    [] shape.kind = "rootless" -> ValidateRootlessListing(listing, shape)
    [] shape.kind = "single"   -> ValidateSingleFile(listing, shape)
====
