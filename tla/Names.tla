------------------------------- MODULE Names -------------------------------
(***************************************************************************)
(* What the service makes of the path in a URL: the canonical path that    *)
(* the router insists on, the route, and the names the handler takes from  *)
(* the path of a picture.                                                  *)
(*                                                                         *)
(* A path is what its slashes separate, a segment what its dots separate:  *)
(* "/a.png" is << <<"">>, <<"a", "png">> >>.                               *)
(***************************************************************************)
EXTENDS Naturals, Sequences

SE == INSTANCE SequencesExt

CONSTANTS
  Unparsable,  (* parts of names that no URL has, like "100%"              *)
  BlockSize    (* transformBlockSize                                       *)

ASSUME BlockSizeAssumption == BlockSize \in Nat \ {0}

Empty == <<"">>
Dot == <<"", "">>
DotDot == <<"", "", "">>
Root == <<Empty, Empty>>

-----------------------------------------------------------------------------
(* path.Clean of a path that begins with a slash.                          *)
CleanSegments(segments) ==
  SE!FoldLeft(LAMBDA done, segment :
             IF segment \in {Empty, Dot} THEN done
             ELSE IF segment # DotDot THEN Append(done, segment)
             ELSE IF done = << >> THEN done ELSE SE!Front(done),
           << >>, segments)

Clean(path) ==
  IF CleanSegments(path) = << >> THEN Root ELSE <<Empty>> \o CleanSegments(path)

(* Mutant of cleanPath: the root gets its slash back, too.                 *)
cleanPathOfRoot(path) ==
  IF SE!Last(path) = Empty /\ Len(path) > 1 THEN Append(Clean(path), Empty) ELSE Clean(path)

(* A trailing slash that Clean has removed is put back.                    *)
cleanPath(path) ==
  IF SE!Last(path) = Empty /\ Clean(path) # Root THEN Append(Clean(path), Empty) ELSE Clean(path)

-----------------------------------------------------------------------------
(* The routes of main, on canonical paths: /resize/{size}/{path}, with any *)
(* path, /health-check and /purge, all of them for GET.                    *)
Route(method, path) ==
  IF method # "GET" THEN "none"
  ELSE IF Len(path) >= 4 /\ path[2] = <<"resize">> THEN "resizing"
  ELSE IF path = <<Empty, <<"health-check">>>> THEN "healthCheck"
  ELSE IF path = <<Empty, <<"purge">>>> THEN "purgeCache"
  ELSE "none"

NoVars == [size |-> << >>, path |-> << >>]

Vars(method, path) ==
  IF Route(method, path) = "resizing"
    THEN [size |-> path[3], path |-> SubSeq(path, 4, Len(path))]
    ELSE NoVars

-----------------------------------------------------------------------------
(* url.Parse fails, and GetExtension dereferences a nil URL.               *)
ParseFails(path) ==
  \E i \in DOMAIN path : \E j \in DOMAIN path[i] : path[i][j] \in Unparsable

Dotted(path) == {i \in DOMAIN path : Len(path[i]) > 1}
FirstDotted(path) == CHOOSE i \in Dotted(path) : \A j \in Dotted(path) : i <= j

(* Mutant of GetExtension: what precedes the first dot.                    *)
GetExtensionBefore(path) ==
  IF Dotted(path) = {} THEN "jpeg" ELSE path[FirstDotted(path)][1]

(* What is between the first dot of the path and the second, or the end.   *)
(* With a slash in it, it is no extension that anybody knows.              *)
GetExtension(path) ==
  LET i == FirstDotted(path) IN
  IF Dotted(path) = {} THEN "jpeg"
  ELSE IF Len(path[i]) = 2 /\ i < Len(path) THEN "other"
  ELSE IF path[i][2] = "" THEN "jpeg"
  ELSE path[i][2]

(* The last segment up to its last dot, as the parts between its dots.     *)
ExtractIdFromUrl(path) ==
  IF Len(SE!Last(path)) = 1 THEN SE!Last(path) ELSE SE!Front(SE!Last(path))

NoId(path) == ExtractIdFromUrl(path) = Empty

(* The directories of a key: as many whole blocks as it has.               *)
blockTransform(key) ==
  [i \in 1 .. Len(key) \div BlockSize |-> SubSeq(key, (i - 1) * BlockSize + 1, i * BlockSize)]
=============================================================================
