-------------------------- MODULE MCConfiguration --------------------------
(***************************************************************************)
(* Files with every kind of value where it is wanted and where it is not.  *)
(* Requests are explored for a few of them, with sizes and pictures small  *)
(* enough to enumerate, of several proportions.                            *)
(***************************************************************************)
EXTENDS Configuration

CONSTANT Explored

Num(n) == [kind |-> "int", is |-> n]
Float(n) == [kind |-> "float", is |-> n]
Str(s) == [kind |-> "string", is |-> s]
Yes == [kind |-> "bool", is |-> TRUE]
List(items) == [kind |-> "list", items |-> items]
Map(fields) == [kind |-> "map", fields |-> fields]

(* A map of lower-case keys.                                               *)
Lower(values) == Map([key \in {<<name, "lower">> : name \in DOMAIN values} |-> values[key[1]]])

SizeMap(w, h) == Lower([Width |-> w, Height |-> h])
Placeholder(name, size) == Lower([Name |-> name, Size |-> size])
Thumbnails(size) == List(<<Placeholder(Str("thumbnail"), size)>>)

File(port, limits, placeholders) ==
  Lower([Port |-> port, SizeLimits |-> limits, Placeholders |-> placeholders])

TheLimits == SizeMap(Num(9), Num(9))
TheFile == File(Num(8), TheLimits, Thumbnails(SizeMap(Num(4), Num(5))))
NoWidth == File(Num(8), TheLimits, Thumbnails(Lower([Height |-> Str("06")])))
Bare == File(Num(8), TheLimits, Thumbnails(Null))
WrongSize == File(Num(8), TheLimits, Thumbnails(Num(5)))
Twice ==
  File(Num(8), TheLimits,
       List(<<Placeholder(Str("thumbnail"), TheLimits), Placeholder(Str("thumbnail"), Null),
              Null, Placeholder(Num(7), Null)>>))

Ports == {Num(8), Num(-8), Num(12), Float(-8), Str("06"), Str("eight"), Yes, List(<< >>), Null}
Limits == {TheLimits, Null, EmptyMap, List(<<TheLimits>>), SizeMap(Float(-1), Yes),
           Map(<<"Width", "field">> :> Num(9) @@ <<"Width", "lower">> :> Str("wide")
                 @@ <<"Height", "other">> :> Num(9) @@ <<"Height", "lower">> :> Num(5))}
Placeholderss ==
  {Thumbnails(SizeMap(Num(4), Num(5))), Thumbnails(List(<< >>)), Thumbnails(Num(5)),
   Null, EmptyMap, List(<< >>), Yes,
   List(<<Lower([Name |-> Str("thumbnail")])>>),
   List(<<Placeholder(Num(7), TheLimits), Null, Placeholder(Yes, Null)>>)}

(* A file with keys in several spellings, and what is no configuration.    *)
Shouting == Map(<<"Port", "lower">> :> Num(8) @@ <<"Port", "field">> :> Num(6)
                  @@ <<"Port", "other">> :> Yes @@ <<"Cacheenabled", "other">> :> Str("t")
                  @@ <<"Warmupsizes", "lower">> :> List(<<TheLimits, Null>>))
Unreadable == [kind |-> "unreadable"]

Documents ==
  {File(port, limits, placeholders) :
     port \in Ports, limits \in Limits, placeholders \in Placeholderss}
    \cup {TheFile, NoWidth, Bare, WrongSize, Twice, Shouting, EmptyMap, Null, Unreadable}

Alone(ext, document) == [e \in {SupportedExts[i] : i \in DOMAIN SupportedExts} |->
                           IF e = ext THEN document ELSE NoFile]
MCDirectories ==
  {Alone("json", document) : document \in Documents}
    \cup {Alone("hcl", document) : document \in {Shouting, NoFile}}
    \cup {[Alone("yaml", TheFile) EXCEPT !["json"] = document] : document \in {Bare, Unreadable}}

(* The documents and all that is in them, five levels deep.                *)
Parts(v) ==
  CASE v.kind = "map" -> {v.fields[key] : key \in DOMAIN v.fields}
    [] v.kind = "list" -> {v.items[i] : i \in DOMAIN v.items}
    [] OTHER -> {}
WithParts(values) == values \cup UNION {Parts(v) : v \in values}
MCValues == WithParts(WithParts(WithParts(WithParts(WithParts(Documents)))))

MCNumerals == [s \in {"06", "8"} |-> IF s = "8" THEN 8 ELSE 6]

(* For the smaller run: the file of one placeholder with both dimensions.  *)
OneDirectory == {Alone("json", TheFile)}

MCNext ==
  \/ Main
  \/ files \in Explored /\ (\E p \in Procs : Request(p)) /\ UNCHANGED mainVars

MCSpec == MainInit /\ [][MCNext]_<<vars, mainVars>>

MCExplored == {Alone("json", document) : document \in {TheFile, NoWidth, Bare, WrongSize, Twice}}

-----------------------------------------------------------------------------
Box(w, h) == [width |-> w, height |-> h]

MCLiterals == {Box(w, h) : w \in {1, 5, 6}, h \in {0, 1, 7}}
MCImages == {Box(2, 1), Box(1, 6), Box(5, 5)}

Symmetry == Permutations(Procs)
=============================================================================
