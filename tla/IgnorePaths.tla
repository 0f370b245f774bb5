----------------------------- MODULE IgnorePaths -----------------------------
(***************************************************************************)
(* The parser of the ignorepaths setting in reload_ignored_folders         *)
(* (plocalscan.c): the setting is a string of directory paths separated by *)
(* ';' or a newline; each piece is trimmed of white space and a piece that *)
(* starts with "$HOME" has those five characters replaced by the home      *)
(* directory ppath_home returns (the piece is dropped when it returns      *)
(* NULL).  Every resulting directory is handed to add_ignored_dir.         *)
(*                                                                         *)
(* A string is a sequence of one-character strings; position Len(s)+1 is  *)
(* the terminating NUL.  The operators below walk the string with the     *)
(* code's own pointers start, end and next.                                *)
(***************************************************************************)
EXTENDS Integers, Sequences, SequencesExt

\* ppath_home() returned NULL.
NoHome == <<"NULL">>

\* isspace() on the characters the inputs use.
IsSpace(c) == c \in {" ", "\n"}

\* The character at position i, NUL past the end.
At(s, i) == IF i <= Len(s) THEN s[i] ELSE "NUL"

\* while (isspace(*start)) start++;
RECURSIVE SkipSpace(_, _)
SkipSpace(s, i) == IF IsSpace(At(s, i)) THEN SkipSpace(s, i + 1) ELSE i

\* while (*end && *end != ';' && *end != '\n') end++;
RECURSIVE PieceEnd(_, _)
PieceEnd(s, i) == IF At(s, i) \in {"NUL", ";", "\n"} THEN i ELSE PieceEnd(s, i + 1)

\* Mutant: the trailing white space of a piece is kept.
TrimEnd_Keep(s, start, end) == end

\* while (end > start && isspace(*(end - 1))) end--;
RECURSIVE TrimEnd(_, _, _)
TrimEnd(s, start, end) ==
  IF end > start /\ IsSpace(s[end - 1]) THEN TrimEnd(s, start, end - 1) ELSE end

\* The "$HOME" prefix test: dirlen >= 5 && !memcmp(start, "$HOME", 5).
HomeTag == <<"$", "H", "O", "M", "E">>

\* The directory built from one trimmed piece, or NoHome when the piece
\* names $HOME and ppath_home() failed.
DirOf(piece, home) ==
  IF Len(piece) >= 5 /\ SubSeq(piece, 1, 5) = HomeTag
    THEN IF home = NoHome THEN NoHome ELSE home \o SubSeq(piece, 6, Len(piece))
    ELSE piece

\* if (dir) add_ignored_dir(dir);
AddDir(acc, d) == IF d = NoHome THEN acc ELSE Append(acc, d)

\* One pass of the while (1) loop: start at the first non-space character,
\* end at the separator, next one past it (or at the NUL).
RECURSIVE ParseFrom(_, _, _, _), ParsePiece(_, _, _, _, _)
ParseFrom(s, next, home, acc) ==
  IF At(s, SkipSpace(s, next)) = "NUL" THEN acc
  ELSE ParsePiece(s, SkipSpace(s, next), PieceEnd(s, SkipSpace(s, next)), home, acc)

ParsePiece(s, start, end, home, acc) ==
  ParseFrom(s, IF At(s, end) = "NUL" THEN end ELSE end + 1, home,
            AddDir(acc, DirOf(SubSeq(s, start, TrimEnd(s, start, end) - 1), home)))

\* The directories reload_ignored_folders passes to add_ignored_dir, in order.
IgnoredDirs(s, home) == ParseFrom(s, 1, home, <<>>)

=============================================================================
