------------------------------ MODULE RealPath ------------------------------
(***************************************************************************)
(* tool.real_file_path: where the file a tool call names really is         *)
(* (event.rs).  The file may not exist yet, so the nearest ancestor that   *)
(* does is made canonical and the rest appended; a symlink to something    *)
(* that is not there is followed by hand.  When that fails the path is     *)
(* normalised as text.                                                     *)
(*                                                                         *)
(* A path is the sequence of its components, ".." among them; `.` and      *)
(* repeated separators are gone once it is taken apart.  A file system     *)
(* maps the canonical paths that exist to what is there: a directory, a    *)
(* file, or a link, which has an absolute or relative target.              *)
(***************************************************************************)
EXTENDS Integers, Sequences, FiniteSets, SequencesExt

Up == ".."
Root == <<>>
Directory == [kind |-> "dir"]
RegularFile == [kind |-> "file"]
Link(absolute, target) == [kind |-> "link", absolute |-> absolute, target |-> target]

Ok(path) == [status |-> "ok", path |-> path]
Fail(status) == [status |-> status, path |-> Root]
Parent(path) == IF path = Root THEN Root ELSE Front(path)
-------------------------------------------------------------------------------
(* The operating system's walk from a directory along the components that are
   left.  At most `hops` links are followed.  Where a component is missing it
   fails, or, to say where the path would lead, goes on as if there were an
   empty directory.                                                          *)
RECURSIVE Walk(_, _, _, _, _, _)
Walk(fs, at, rest, hops, followLast, create) ==
  IF rest = <<>> THEN Ok(at)
  ELSE LET next == Append(at, Head(rest))
           there == at \in DOMAIN fs
       IN
       IF there /\ fs[at].kind = "file" THEN Fail("not_a_directory")
       ELSE IF Head(rest) = Up THEN Walk(fs, Parent(at), Tail(rest), hops, followLast, create)
       ELSE IF next \notin DOMAIN fs THEN
         IF create THEN Walk(fs, next, Tail(rest), hops, followLast, create)
         ELSE Fail("not_found")
       ELSE IF fs[next].kind = "link" /\ (followLast \/ Len(rest) > 1) THEN
         IF hops = 0 THEN Fail("loop")
         ELSE Walk(fs, IF fs[next].absolute THEN Root ELSE at,
                   fs[next].target \o Tail(rest), hops - 1, followLast, create)
       ELSE Walk(fs, next, Tail(rest), hops, followLast, create)

MaxSymlinkDepth == 4   \* bound: 40

Canonicalize(fs, path) == Walk(fs, Root, path, MaxSymlinkDepth, TRUE, FALSE)
SymlinkMetadata(fs, path) == Walk(fs, Root, path, MaxSymlinkDepth, FALSE, FALSE)
-------------------------------------------------------------------------------
(* normalize_path: a `..` never goes past the root. *)
NormalizePath(path) ==
  FoldLeft(LAMBDA result, component :
             IF component = Up THEN Parent(result) ELSE Append(result, component),
           Root, path)

NoPath == [found |-> FALSE, path |-> Root, suffix |-> <<>>]

(* The nearest ancestor there is, and the components below it, the last one
   first.  A missing component after which the path goes up has no file name. *)
RECURSIVE Peel(_, _, _)
Peel(fs, current, suffix) ==
  LET status == SymlinkMetadata(fs, current).status IN
  IF status = "ok" THEN [found |-> TRUE, path |-> current, suffix |-> suffix]
  ELSE IF status # "not_found" \/ Last(current) = Up THEN NoPath
  ELSE Peel(fs, Front(current), Append(suffix, Last(current)))

\* Mutated form: what is missing is appended in the order it was taken off.
WithSuffixForward(resolved, suffix) == resolved \o suffix

WithSuffix(resolved, suffix) == resolved \o Reverse(suffix)

TargetOf(current, link) == IF link.absolute THEN link.target ELSE Front(current) \o link.target

(* canonicalize_allow_missing *)
RECURSIVE CanonicalizeFrom(_, _, _, _)
CanonicalizeFrom(fs, current, suffix, depth) ==
  LET peeled == Peel(fs, current, suffix)
      resolved == Canonicalize(fs, peeled.path)
      entry == fs[SymlinkMetadata(fs, peeled.path).path]
  IN  IF ~peeled.found THEN NoPath
      ELSE IF resolved.status = "ok" THEN
        [found |-> TRUE, suffix |-> <<>>,
         path |-> NormalizePath(WithSuffix(resolved.path, peeled.suffix))]
      ELSE IF resolved.status # "not_found" \/ depth = MaxSymlinkDepth \/ entry.kind # "link"
      THEN NoPath
      ELSE CanonicalizeFrom(fs, TargetOf(peeled.path, entry), peeled.suffix, depth + 1)

CanonicalizeAllowMissing(fs, path) == CanonicalizeFrom(fs, path, <<>>, 0)

(* resolve_path *)
ResolvePath(fs, path) ==
  LET resolved == CanonicalizeAllowMissing(fs, path) IN
  IF resolved.found THEN resolved.path ELSE NormalizePath(path)

Absolute(path, absolute, cwd) == IF absolute THEN path ELSE cwd \o path

(* resolve_file_path, with the cwd as resolve_path gives it. *)
ResolveFilePath(fs, path, absolute, cwd) ==
  ResolvePath(fs, Absolute(path, absolute, ResolvePath(fs, cwd)))
-------------------------------------------------------------------------------
(* Where the path leads, every link followed and every missing component taken
   as one to be made.                                                        *)
Lands(fs, path) == Walk(fs, Root, path, MaxSymlinkDepth, TRUE, TRUE)

(* A path, with the links on its way replaced by their targets, that goes up
   from a component that is not there leads nowhere until that is made.     *)
RECURSIVE UpFromMissing(_, _, _, _)
UpFromMissing(fs, at, rest, hops) ==
  /\ rest # <<>>
  /\ LET next == Append(at, Head(rest)) IN
     IF Head(rest) = Up
     THEN (at \notin DOMAIN fs) \/ UpFromMissing(fs, Parent(at), Tail(rest), hops)
     ELSE IF next \in DOMAIN fs /\ fs[next].kind = "link" THEN
       hops > 0 /\ UpFromMissing(fs, IF fs[next].absolute THEN Root ELSE at,
                                 fs[next].target \o Tail(rest), hops - 1)
     ELSE UpFromMissing(fs, next, Tail(rest), hops)
=============================================================================
