--------------------------- MODULE Configuration ---------------------------
(***************************************************************************)
(* How main comes by its configuration, before the service listens and     *)
(* requests use it: viper finds a file and makes its keys insensitive to   *)
(* case, mapstructure decodes what is in it into the Go structure.  main   *)
(* ignores the error of the decoding.                                      *)
(*                                                                         *)
(* A file is what the parser of its extension makes of it: a value that    *)
(* has a kind.  The keys of a map are pairs of a name and a spelling, the  *)
(* name as the Go structure has it: "Port" is <<"Port", "field">>, "port"  *)
(* is <<"Port", "lower">>.  A pointer is a set, empty if it is nil.        *)
(***************************************************************************)
EXTENDS Placeholders, Sequences, TLC

FSE == INSTANCE FiniteSetsExt

CONSTANTS
  Directories,  (* what can be in the working directory: a file for each   *)
                (* extension, or NoFile                                    *)
  Values,       (* what the parsers make of files, and all that is in it   *)
  Numerals,     (* strconv.ParseUint, for the strings it accepts           *)
  MaxUint,      (* the largest unsigned integer                            *)
  MaxPort       (* the largest port                                        *)

VARIABLES
  files,     (* in the working directory                                   *)
  settings,  (* viper's, from the file                                     *)
  pointer,   (* the global variable config                                 *)
  phase      (* of main                                                    *)

mainVars == <<files, settings, pointer, phase>>

Null == [kind |-> "null"]
EmptyMap == [kind |-> "map", fields |-> << >>]
NoFile == [kind |-> "missing"]
Nil == {}

SupportedExts == <<"json", "toml", "yaml", "yml", "properties", "props", "prop", "hcl">>

(* The numbers among the values are whole.                                 *)
ASSUME ValuesAssumption ==
  /\ \A v \in Values :
       /\ v.kind \in {"int", "float"} => v.is \in Int
       /\ v.kind = "bool" => v.is \in BOOLEAN
       /\ v.kind = "null" => v = Null
       /\ v.kind = "list" => v.items \in Seq(Values)
       /\ v.kind = "map" => \A key \in DOMAIN v.fields : v.fields[key] \in Values
  /\ \A directory \in Directories : \A i \in DOMAIN SupportedExts :
       directory[SupportedExts[i]].kind = "map" => directory[SupportedExts[i]] \in Values

ASSUME NumbersAssumption ==
  MaxUint \in Nat \ {0} /\ \A s \in DOMAIN Numerals : Numerals[s] \in Nat

MainTypeOK ==
  /\ TypeOK
  /\ phase \in {"start", "read", "unmarshalled", "serving", "ended", "panicked"}
  /\ serving <=> phase = "serving"
  /\ \A c \in pointer :
       /\ {c.Port, c.SizeLimits.Width, c.SizeLimits.Height} \subseteq 0 .. MaxUint
       /\ c.Cacheenabled \in BOOLEAN /\ c.Cachethumbnails \in BOOLEAN

MainInit ==
  /\ Init
  /\ files \in Directories
  /\ settings = Null /\ pointer = Nil /\ phase = "start"

-----------------------------------------------------------------------------
(* The functions that choose one member of each set.                       *)
Selections(sets) ==
  {f \in [DOMAIN sets -> UNION {sets[i] : i \in DOMAIN sets}] :
     \A i \in DOMAIN sets : f[i] \in sets[i]}

(* The values a map has for a name, in all its spellings.  A name that it  *)
(* does not have is ignored, like a null.                                  *)
NamesIn(m) == {key[1] : key \in DOMAIN m.fields}
Spelt(m, name) == {m.fields[key] : key \in {k \in DOMAIN m.fields : k[1] = name}}
AnyOf(m, name) == IF name \in NamesIn(m) THEN Spelt(m, name) ELSE {Null}

-----------------------------------------------------------------------------
(* viper.ReadInConfig.                                                     *)
Exists(ext) == files[ext] # NoFile

(* The parsers fill a map that is there already: a null leaves it empty,   *)
(* and is no error.                                                        *)
Parsed(file) == IF file = Null THEN EmptyMap ELSE file

ConfigFile ==
  LET found == {i \in DOMAIN SupportedExts : Exists(SupportedExts[i])}
  IN IF found = {} THEN NoFile ELSE Parsed(files[SupportedExts[FSE!Min(found)]])

(* Only the keys of the file itself are made lower case, not those of the  *)
(* maps in it.  A key that is lower case gives way to one that is not, and *)
(* of several that are not the last in the order of Go's map remains.      *)
Candidates(m, name) ==
  LET others == {m.fields[key] : key \in {k \in DOMAIN m.fields : k[1] = name /\ k[2] # "lower"}}
  IN IF others = {} THEN Spelt(m, name) ELSE others

insensitiviseMap(m) ==
  {[kind |-> "map", fields |-> [key \in {<<name, "lower">> : name \in NamesIn(m)} |-> f[key[1]]]] :
     f \in Selections([name \in NamesIn(m) |-> Candidates(m, name)])}

(* A directory with no file, a file that cannot be read and one that does  *)
(* not parse are errors, on which main panics.                             *)
ReadInConfig ==
  /\ phase = "start"
  /\ IF ConfigFile.kind = "map"
       THEN settings' \in insensitiviseMap(ConfigFile) /\ phase' = "read"
       ELSE phase' = "panicked" /\ UNCHANGED settings
  /\ UNCHANGED <<vars, files, pointer>>

-----------------------------------------------------------------------------
(* mapstructure, with weakly typed input: what a value can be decoded to,  *)
(* and whether that is an error.                                           *)
Got(x) == [value |-> x, failed |-> FALSE]
Failed(zero) == [value |-> zero, failed |-> TRUE]

(* An integer below zero wraps around.  What becomes of a float below zero *)
(* depends on the processor: it wraps around, too, or becomes zero.        *)
decodeUint(v) ==
  CASE v.kind = "int" -> {Got(v.is % (MaxUint + 1))}
    [] v.kind = "float" -> {Got(v.is % (MaxUint + 1))} \cup (IF v.is < 0 THEN {Got(0)} ELSE {})
    [] v.kind = "bool" -> {Got(IF v.is THEN 1 ELSE 0)}
    [] v.kind = "string" /\ v.is \in DOMAIN Numerals /\ Numerals[v.is] <= MaxUint ->
         {Got(Numerals[v.is])}
    [] OTHER -> {Failed(0)}

decodeString(v) ==
  CASE v.kind = "string" -> {Got(v.is)}
    [] v.kind = "bool" -> {Got(IF v.is THEN "1" ELSE "0")}
    [] v.kind \in {"int", "float"} -> {Got(ToString(v.is))}
    [] OTHER -> {Failed("")}

(* strconv.ParseBool.                                                      *)
Trues == {"1", "t", "T", "TRUE", "true", "True"}
Falses == {"0", "f", "F", "FALSE", "false", "False"}

decodeBool(v) ==
  CASE v.kind = "bool" -> {Got(v.is)}
    [] v.kind \in {"int", "float"} -> {Got(v.is # 0)}
    [] v.kind = "string" /\ v.is \in Trues \cup Falses \cup {""} -> {Got(v.is \in Trues)}
    [] OTHER -> {Failed(FALSE)}

(* Mutant of All: the errors of elements and fields are not handed on.     *)
AllForgiven(results) ==
  [value |-> [i \in DOMAIN results |-> results[i].value], failed |-> FALSE]

(* One element or field that fails is an error of the whole, but the       *)
(* others are decoded.                                                     *)
All(results) ==
  [value |-> [i \in DOMAIN results |-> results[i].value],
   failed |-> \E i \in DOMAIN results : results[i].failed]

(* The value of a field: under the field's own name, or else under any     *)
(* that differs from it in case only.                                      *)
FieldValues(m, name) ==
  IF <<name, "field">> \in DOMAIN m.fields THEN {m.fields[<<name, "field">>]} ELSE AnyOf(m, name)

(* Mutant of decodePtr: the pointer is set before the error is looked at.  *)
decodePtrAnyway(results) == {[r EXCEPT !.value = {@}] : r \in results}

(* A pointer is set only if there is no error in what it leads to.         *)
decodePtr(results) ==
  {[r EXCEPT !.value = IF r.failed THEN Nil ELSE {@}] : r \in results}

(* The results of a list, given those of each of its elements.             *)
decodeSlice(v, elements) ==
  IF v.kind = "list" THEN {All(r) : r \in Selections(elements)}
                     ELSE {IF v = EmptyMap THEN Got(<< >>) ELSE Failed(<< >>)}

(* The results of a map, given those of all fields of the structure.       *)
decodeStruct(v, zero, fields) ==
  IF v.kind = "map" THEN {All(r) : r \in fields} ELSE {Failed(zero)}

(* Nothing is set from a null.                                             *)
decode(v, zero, results) == IF v = Null THEN {Got(zero)} ELSE results

-----------------------------------------------------------------------------
(* The types of the configuration: what any of some values decodes to.     *)
Uints(values) == UNION {decode(v, 0, decodeUint(v)) : v \in values}
Strings(values) == UNION {decode(v, "", decodeString(v)) : v \in values}
Bools(values) == UNION {decode(v, FALSE, decodeBool(v)) : v \in values}

NoWidthOrHeight == [Width |-> 0, Height |-> 0]
decodeSize(v) ==
  decodeStruct(v, NoWidthOrHeight,
    {[Width |-> width, Height |-> height] :
       width \in Uints(FieldValues(v, "Width")), height \in Uints(FieldValues(v, "Height"))})
Sizes(values) == UNION {decode(v, NoWidthOrHeight, decodeSize(v)) : v \in values}
SizePtrs(values) == UNION {decode(v, Nil, decodePtr(decodeSize(v))) : v \in values}

Unnamed == [Name |-> "", Size |-> Nil]
decodePlaceholder(v) ==
  decodeStruct(v, Unnamed,
    {[Name |-> name, Size |-> size] :
       name \in Strings(FieldValues(v, "Name")), size \in SizePtrs(FieldValues(v, "Size"))})
Placeholders(values) == UNION {decode(v, Unnamed, decodePlaceholder(v)) : v \in values}

StringLists(values) ==
  UNION {decode(v, << >>, decodeSlice(v, [i \in DOMAIN v.items |-> Strings({v.items[i]})])) :
           v \in values}
SizeLists(values) ==
  UNION {decode(v, << >>, decodeSlice(v, [i \in DOMAIN v.items |-> Sizes({v.items[i]})])) :
           v \in values}
PlaceholderLists(values) ==
  UNION {decode(v, << >>, decodeSlice(v, [i \in DOMAIN v.items |-> Placeholders({v.items[i]})])) :
           v \in values}

(* Of viper's settings, which are a map.                                   *)
decodeConfiguration(m) ==
  {All([Port |-> port, ImageHost |-> host, HostWhiteList |-> hosts, SizeLimits |-> limits,
        Placeholders |-> placeholders, Warmupsizes |-> sizes,
        Cacheenabled |-> enabled, Cachethumbnails |-> thumbnails]) :
     port \in Uints(FieldValues(m, "Port")),
     host \in Strings(FieldValues(m, "ImageHost")),
     hosts \in StringLists(FieldValues(m, "HostWhiteList")),
     limits \in Sizes(FieldValues(m, "SizeLimits")),
     placeholders \in PlaceholderLists(FieldValues(m, "Placeholders")),
     sizes \in SizeLists(FieldValues(m, "Warmupsizes")),
     enabled \in Bools(FieldValues(m, "Cacheenabled")),
     thumbnails \in Bools(FieldValues(m, "Cachethumbnails"))}

-----------------------------------------------------------------------------
(* The error is ignored, the variable config stays nil.                    *)
Unmarshal ==
  /\ phase = "read"
  /\ pointer' \in {r.value : r \in decodePtr(decodeConfiguration(settings))}
  /\ phase' = "unmarshalled"
  /\ UNCHANGED <<vars, files, settings>>

-----------------------------------------------------------------------------
(* What requests see of the configuration: of the placeholders that have a *)
(* name the first.                                                         *)
AsSize(s) == [width |-> s.Width, height |-> s.Height]
SizesOf(c) ==
  LET places(name) == {i \in DOMAIN c.Placeholders : c.Placeholders[i].Name = name}
      first(name) == c.Placeholders[FSE!Min(places(name))].Size
  IN [name \in {n \in Names : places(n) # {}} |->
        IF first(name) = Nil THEN NoSize ELSE AsSize(CHOOSE s \in first(name) : TRUE)]

(* The port of a nil configuration.  ListenAndServe returns at once if it  *)
(* cannot listen, and so does main.                                        *)
ListenAndServe ==
  /\ phase = "unmarshalled"
  /\ \/ pointer = Nil /\ phase' = "panicked" /\ UNCHANGED vars
     \/ pointer # Nil /\ phase' = "ended" /\ UNCHANGED vars
     \/ \E c \in pointer :
          c.Port <= MaxPort /\ phase' = "serving" /\ Serve(SizesOf(c), AsSize(c.SizeLimits))
  /\ UNCHANGED <<files, settings, pointer>>

Main == ReadInConfig \/ Unmarshal \/ ListenAndServe

MainNext ==
  \/ Main
  \/ (\E p \in Procs : Request(p)) /\ UNCHANGED mainVars

MainSpec == MainInit /\ [][MainNext]_<<vars, mainVars>>

-----------------------------------------------------------------------------
(***************************************************************************)
(* The error of the decoding is ignored, but the service never serves with *)
(* half a configuration: it serves only if every value of the file that    *)
(* has a field is of a kind that the field takes.                          *)
(***************************************************************************)
TakesUint(v) ==
  v = Null \/ v.kind \in {"int", "float", "bool"} \/ (v.kind = "string" /\ v.is \in DOMAIN Numerals)
TakesString(v) == v = Null \/ v.kind \in {"int", "float", "bool", "string"}
TakesBool(v) ==
  \/ v = Null \/ v.kind \in {"int", "float", "bool"}
  \/ v.kind = "string" /\ v.is \in Trues \cup Falses \cup {""}

TakesList(v) == v \in {Null, EmptyMap} \/ v.kind = "list"
Items(v) == IF v.kind = "list" THEN {v.items[i] : i \in DOMAIN v.items} ELSE {}

TakesSize(v) ==
  v # Null =>
    /\ v.kind = "map"
    /\ \E w \in FieldValues(v, "Width") : TakesUint(w)
    /\ \E h \in FieldValues(v, "Height") : TakesUint(h)
TakesPlaceholder(v) ==
  v # Null =>
    /\ v.kind = "map"
    /\ \E name \in FieldValues(v, "Name") : TakesString(name)
    /\ \E size \in FieldValues(v, "Size") : TakesSize(size)

TakesConfiguration(file) ==
  /\ \E v \in AnyOf(file, "Port") : TakesUint(v)
  /\ \E v \in AnyOf(file, "ImageHost") : TakesString(v)
  /\ \E v \in AnyOf(file, "HostWhiteList") : TakesList(v) /\ \A x \in Items(v) : TakesString(x)
  /\ \E v \in AnyOf(file, "SizeLimits") : TakesSize(v)
  /\ \E v \in AnyOf(file, "Placeholders") : TakesList(v) /\ \A x \in Items(v) : TakesPlaceholder(x)
  /\ \E v \in AnyOf(file, "Warmupsizes") : TakesList(v) /\ \A x \in Items(v) : TakesSize(x)
  /\ \E v \in AnyOf(file, "Cacheenabled") : TakesBool(v)
  /\ \E v \in AnyOf(file, "Cachethumbnails") : TakesBool(v)

NeverHalfConfigured == serving => TakesConfiguration(ConfigFile)

(***************************************************************************)
(* A request panics on its size only if the file has a placeholder without *)
(* size that can have its name, and none before it must have that name.    *)
(***************************************************************************)
NamesOf(placeholder) ==
  IF placeholder = Null THEN {""}
                        ELSE {r.value : r \in Strings(FieldValues(placeholder, "Name"))}

Unsized(placeholder) == placeholder = Null \/ Null \in FieldValues(placeholder, "Size")

OnlyUnsizedPanic ==
  \A p \in Procs : req[p].at = "panic" =>
    \E list \in Spelt(ConfigFile, "Placeholders") : list.kind = "list" /\ \E i \in DOMAIN list.items :
      /\ req[p].name \in NamesOf(list.items[i]) /\ Unsized(list.items[i])
      /\ \A j \in 1 .. i - 1 : NamesOf(list.items[j]) # {req[p].name}
=============================================================================
