---------------------------- MODULE ImportResolver ----------------------------
(***************************************************************************)
(* ImportResolver of analysis/resolver.py: which file of the checkout an   *)
(* import means.  A path is the sequence of its names and an extension; a  *)
(* dotted name and a specifier are sequences of names.  The resolver keeps *)
(* the tsconfig files that it has loaded, whose `extends` it follows by    *)
(* recursion.                                                              *)
(***************************************************************************)
EXTENDS Integers, SequencesExt, FiniteSetsExt

CONSTANTS
  Checkouts,       \* files and tsconfig files of a repository
  Identifiers,     \* names that are Python identifiers
  PythonImports,   \* importer, level, dotted and the names after `import`
  JsImports,       \* importer and specifier
  MaxExtendsDepth, \* _MAX_EXTENDS_DEPTH
  NotLoaded,       \* a tsconfig nobody has asked for
  NotSet           \* a tsconfig, or an option of one, that has no value

Place == Seq(STRING)
SourceFile == [path : Place \ {<< >>}, ext : STRING]
Pattern == [prefix : Place, wild : BOOLEAN, to : Place]
LoadedConfig == [directory : Place, paths : Seq(Pattern), base : Place \cup {NotSet}]
IsWritten(config, configs) ==
  /\ config.directory \in Place /\ config.valid \in BOOLEAN
  /\ config.base = NotSet \/ config.base \in Place
  /\ config.paths = NotSet \/ config.paths \in Seq(Pattern)
  /\ config.extends = NotSet \/ config.extends \in configs

\* A tsconfig extends one of the checkout or counts as extending none.
ASSUME ResolverAssumption ==
  /\ MaxExtendsDepth \in Nat
  /\ NotSet # NotLoaded /\ NotSet \notin Place
  /\ NotSet \notin LoadedConfig /\ NotLoaded \notin LoadedConfig
  /\ \A s \in Checkouts :
       /\ s.files \subseteq SourceFile /\ IsFiniteSet(s.files)
       /\ NotSet \notin DOMAIN s.configs
       /\ \A c \in DOMAIN s.configs : IsWritten(s.configs[c], DOMAIN s.configs)
  /\ \A i \in PythonImports :
       i.level \in Nat /\ i.dotted \in Place /\ \A name \in i.names : name \in STRING
  /\ PythonImports \cap JsImports = {}

VARIABLES
  source,  \* the checkout
  loaded,  \* _ts_configs
  frames,  \* calls of _load_ts_config under way, the innermost one last
  asked,   \* the import
  answer

resolverVars == <<source, loaded, frames, asked, answer>>

Paths == source.files
Dir(file) == Front(file.path)
File(path, ext) == [path |-> path, ext |-> ext]

Nothing == [status |-> "none"]
Resolved(file, confidence, strategy) ==
  [status |-> "resolved", file |-> file, confidence |-> confidence, strategy |-> strategy]
External == [status |-> "external"]
Unresolved == [status |-> "unresolved"]

\* The first candidate that exists.
FirstFile(candidates) ==
  LET existing == {n \in DOMAIN candidates : candidates[n] \in Paths}
  IN IF existing = {} THEN << >> ELSE <<candidates[Min(existing)]>>

-----------------------------------------------------------------------------
(* Python.                                                                 *)

ModuleFile(base) ==
  IF base = << >> THEN << >>
  ELSE FirstFile(<<File(base, "py"), File(Append(base, "__init__"), "py"), File(base, "pyi")>>)

\* One directory too many for every level.
RelativeStartAbove(importer, level) ==
  SubSeq(Dir(importer), 1, Len(Dir(importer)) - level)

\* The directory that a relative import starts from; the one above the root
\* is the root.
RelativeStart(importer, level) ==
  LET dir == Dir(importer)
  IN SubSeq(dir, 1, Len(dir) - (level - 1))

\* _python_index: the files that provide a dotted name; a directory without
\* __init__.py may be a source root, and the root is one.
Parts(file) == IF Last(file.path) = "__init__" THEN Dir(file) ELSE file.path
Provides(file, dotted) ==
  /\ file.ext \in {"py", "pyi"} /\ ToSet(dotted) \subseteq Identifiers
  /\ \E start \in 0..(Len(Parts(file)) - 1) :
       /\ start > 0 => File(Append(SubSeq(Parts(file), 1, start), "__init__"), "py") \notin Paths
       /\ SubSeq(Parts(file), start + 1, Len(Parts(file))) = dotted
Candidates(dotted) == {file \in Paths : Provides(file, dotted)}

\* _shared_prefix: the name of a file, with its extension, is no directory.
SharedPrefix(dir, file) ==
  LET agree == {n \in 0..Len(dir) : n <= Len(Dir(file)) /\ SubSeq(dir, 1, n) = SubSeq(Dir(file), 1, n)}
  IN CHOOSE n \in agree : \A k \in agree : k <= n

\* The closest candidates; the code takes the shortest path of them, and
\* among equals whichever its set of paths gives first.
Closest(importer, files) ==
  {f \in files : \A g \in files : SharedPrefix(Dir(importer), f) >= SharedPrefix(Dir(importer), g)}

Absolute(importer, dotted) ==
  LET files == Candidates(dotted)
  IN IF Cardinality(files) = 1 THEN {Resolved(CHOOSE f \in files : TRUE, "confirmed", "package")}
     ELSE {Resolved(f, "inferred", "ambiguous") : f \in Closest(importer, files)}

Relative(base) ==
  {Resolved(file, "confirmed", "relative") : file \in ToSet(ModuleFile(base))}

\* The module, and each name of a from-import as a submodule.
Extras(imported) == {<< >>} \cup {<<name>> : name \in imported.names}

\* The possible targets of each.
PythonTargets(imported) ==
  LET base == RelativeStart(imported.importer, imported.level) \o imported.dotted
      TargetsOf(extra) ==
        IF imported.level > 0 THEN Relative(base \o extra)
        ELSE Absolute(imported.importer, imported.dotted \o extra)
  IN [extra \in Extras(imported) |-> TargetsOf(extra)]

\* The answer holds one of the targets of each, and is external or
\* unresolved when there are none.
ResolvePython ==
  /\ answer = Nothing /\ frames = << >>
  /\ \E imported \in PythonImports :
       /\ imported.importer \in Paths
       /\ asked' = imported
       /\ LET targets == PythonTargets(imported)
              known == {extra \in DOMAIN targets : targets[extra] # {}}
          IN \E chosen \in [known -> UNION {targets[extra] : extra \in known}] :
               /\ \A extra \in known : chosen[extra] \in targets[extra]
               /\ answer' = IF known # {} THEN [status |-> "resolved", targets |-> chosen]
                            ELSE IF imported.level > 0 THEN Unresolved ELSE External
  /\ UNCHANGED <<source, loaded, frames>>

-----------------------------------------------------------------------------
(* JavaScript and TypeScript.                                              *)

JsExtensions == <<"ts", "tsx", "d.ts", "js", "jsx", "mjs", "cjs", "mts", "cts">>
JsSourceSuffix == {"js", "jsx", "mjs", "cjs"}
Behind(name, ext) == IF ext = "" THEN name ELSE name \o "." \o ext
WithExtensions(path, ext) ==
  [n \in DOMAIN JsExtensions |->
     File(path, IF ext = "" THEN JsExtensions[n] ELSE Behind(ext, JsExtensions[n]))]
AsDirectory(base) == Append(Front(base.path), Behind(Last(base.path), base.ext))

\* _js_file: as written, with an extension, with another one instead of that
\* of JavaScript, or the index of a directory.
JsFile(base) ==
  IF base.path = << >> THEN << >>
  ELSE FirstFile(<<base>> \o WithExtensions(base.path, base.ext)
         \o (IF base.ext \in JsSourceSuffix THEN WithExtensions(base.path, "") ELSE << >>)
         \o WithExtensions(Append(AsDirectory(base), "index"), ""))

\* A tsconfig as it is loaded: where its paths and its baseUrl come from.
TsConfigs == DOMAIN source.configs
Written(c) == source.configs[c]

\* _match_path_pattern: a name, or a prefix and the rest of the specifier.
Matches(pattern, specifier) ==
  IF pattern.wild
  THEN Len(specifier) > Len(pattern.prefix) /\ IsPrefix(pattern.prefix, specifier)
  ELSE specifier = pattern.prefix
Replaced(pattern, specifier) ==
  pattern.to \o SubSeq(specifier, Len(pattern.prefix) + 1, Len(specifier))

\* _alias_candidates.
AliasCandidates(tsconfig, specifier) ==
  LET matching == SelectSeq(tsconfig.paths, LAMBDA pattern : Matches(pattern, specifier.path))
      root == IF tsconfig.base = NotSet THEN tsconfig.directory ELSE tsconfig.base
  IN [n \in DOMAIN matching |-> File(root \o Replaced(matching[n], specifier.path), specifier.ext)]
       \o IF tsconfig.base = NotSet THEN << >>
          ELSE <<File(tsconfig.base \o specifier.path, specifier.ext)>>

\* The answer for a specifier that is no relative path, given its tsconfig.
ThroughConfig(tsconfig, specifier) ==
  LET found == IF tsconfig = NotSet THEN << >>
               ELSE FlattenSeq([n \in DOMAIN AliasCandidates(tsconfig, specifier) |->
                                  JsFile(AliasCandidates(tsconfig, specifier)[n])])
  IN IF found = << >> THEN External ELSE Resolved(Head(found), "confirmed", "tsconfig")

\* _ts_config_for: the nearest one above the importer, a tsconfig.json
\* rather than a jsconfig.json.
NearestConfig(importer) ==
  LET above == {c \in TsConfigs : /\ Written(c).name \in {"tsconfig", "jsconfig"}
                                /\ IsPrefix(Written(c).directory, Dir(importer))}
      Nearer(c, d) == \/ Len(Written(c).directory) > Len(Written(d).directory)
                      \/ /\ Written(c).directory = Written(d).directory
                         /\ Written(c).name = "tsconfig"
  IN {c \in above : \A d \in above \ {c} : Nearer(c, d)}

Answers(imported, given) == asked' = imported /\ answer' = given
Begins(c) == loaded' = [loaded EXCEPT ![c] = NotSet] /\ frames' = Append(frames, c)

ResolveRelative(imported) ==
  LET specifier == imported.specifier
      dir == Dir(imported.importer)
      found == JsFile(File(SubSeq(dir, 1, Len(dir) - specifier.up) \o specifier.path, specifier.ext))
  IN /\ specifier.kind = "relative"
     /\ Answers(imported, IF specifier.up > Len(dir) \/ found = << >> THEN Unresolved
                          ELSE Resolved(Head(found), "confirmed", "relative"))
     /\ UNCHANGED <<loaded, frames>>

\* An absolute path, a URL or a protocol.
ResolveAbsolute(imported) ==
  /\ imported.specifier.kind = "absolute"
  /\ Answers(imported, External)
  /\ UNCHANGED <<loaded, frames>>

ResolveAlias(imported) ==
  /\ imported.specifier.kind = "bare"
  /\ LET nearest == NearestConfig(imported.importer)
     IN IF nearest = {} \/ \E c \in nearest : loaded[c] # NotLoaded
        THEN /\ Answers(imported,
                        ThroughConfig(IF nearest = {} THEN NotSet
                                      ELSE loaded[CHOOSE c \in nearest : TRUE],
                                      imported.specifier))
             /\ UNCHANGED <<loaded, frames>>
        ELSE /\ asked' = imported
             /\ \E c \in nearest : Begins(c)
             /\ UNCHANGED answer

ResolveJs ==
  /\ answer = Nothing /\ frames = << >>
  /\ \E imported \in JsImports :
       /\ imported.importer \in Paths
       /\ ResolveRelative(imported) \/ ResolveAbsolute(imported) \/ ResolveAlias(imported)
  /\ UNCHANGED source

-----------------------------------------------------------------------------
(* _load_ts_config.                                                        *)

Loading == Last(frames)
ExtendsDepth == Len(frames) - 1
Parent == Written(Loading).extends

\* One level too few.
HasParentAbove == Parent \in TsConfigs /\ ExtendsDepth + 1 < MaxExtendsDepth

HasParent == Parent \in TsConfigs /\ ExtendsDepth < MaxExtendsDepth

\* What a tsconfig adds to what it inherits.
Merged(c, inherited) ==
  LET own == Written(c)
      base == IF own.base # NotSet THEN own.directory \o own.base ELSE inherited.base
  IN [directory |-> own.directory,
      paths |-> IF own.paths # NotSet THEN own.paths ELSE inherited.paths,
      base |-> IF own.paths # NotSet /\ base = NotSet THEN own.directory ELSE base]
NoParent == [paths |-> << >>, base |-> NotSet]

\* The parent is loaded first, unless it was loaded before or is being
\* loaded in an outer call: then it counts as nothing.
LoadParent ==
  /\ frames # << >> /\ Written(Loading).valid
  /\ HasParent /\ loaded[Parent] = NotLoaded
  /\ Begins(Parent)
  /\ UNCHANGED <<source, asked, answer>>

\* A file that cannot be read or is no object stays without a value.
LoadEnds ==
  /\ frames # << >>
  /\ Written(Loading).valid /\ HasParent => loaded[Parent] # NotLoaded
  /\ loaded' =
       IF ~Written(Loading).valid THEN loaded
       ELSE [loaded EXCEPT ![Loading] =
               Merged(Loading, IF HasParent /\ loaded[Parent] # NotSet
                               THEN loaded[Parent] ELSE NoParent)]
  /\ frames' = Front(frames)
  /\ answer' = IF Len(frames) = 1 THEN ThroughConfig(loaded'[Loading], asked.specifier) ELSE answer
  /\ UNCHANGED <<source, asked>>

-----------------------------------------------------------------------------

ResolverInit ==
  /\ source \in Checkouts
  /\ loaded = [c \in DOMAIN source.configs |-> NotLoaded]
  /\ frames = << >> /\ asked = Nothing /\ answer = Nothing

\* The next import of the repository.
NextImport ==
  /\ answer # Nothing
  /\ asked' = Nothing /\ answer' = Nothing
  /\ UNCHANGED <<source, loaded, frames>>

ResolverNext == ResolvePython \/ ResolveJs \/ LoadParent \/ LoadEnds \/ NextImport
ResolverSpec == ResolverInit /\ [][ResolverNext]_resolverVars

-----------------------------------------------------------------------------
(* Properties.                                                             *)

IsPython == answer # Nothing /\ asked \in PythonImports

\* The dotted name that a relative import stands for in its checkout.
FullName(imported, extra) ==
  LET dir == Dir(imported.importer)
      kept == {n \in DOMAIN dir : n + imported.level <= Len(dir) + 1}
  IN [n \in 1..Cardinality(kept) |-> dir[n]] \o imported.dotted \o extra

\* The files at a place, but for the stub of a package, which only absolute
\* imports find.
FilesAt(name) ==
  {f \in Paths : /\ f.ext = "py" \/ (f.ext = "pyi" /\ Last(f.path) # "__init__")
                 /\ Parts(f) = name}

\* A name that an absolute import can be written with and that the index of
\* the resolver knows; it knows a package by its own name only.
IsIndexed(name) == ToSet(name) \subseteq Identifiers /\ Last(name) # "__init__"

FormsAgree(imported, extra, targets) ==
  LET files == Candidates(imported.dotted \o extra)
      name == FullName(imported, extra)
  IN IF extra \notin DOMAIN targets
     THEN IF imported.level = 0 THEN files = {} ELSE name = << >> \/ FilesAt(name) = {}
     ELSE LET target == targets[extra]
          IN /\ target.strategy = "relative" => (IsIndexed(name) => target.file \in Candidates(name))
             /\ target.strategy = "package" => files = {target.file}
             /\ target.strategy = "ambiguous" => target.file \in files /\ Cardinality(files) > 1

\* A relative import and the absolute import of the same name agree: the
\* first resolves to a candidate of the second, and resolves whenever there
\* is a file at its place; a confirmed package is the only file that
\* provides its name, and an inferred one has a rival (resolver.py:67-121).
RelativeAgreesWithAbsolute ==
  IsPython => \A extra \in Extras(asked) :
    FormsAgree(asked, extra, IF answer.status = "resolved" THEN answer.targets ELSE << >>)

\* A tsconfig and the ones above it, as far as they can be read; from an
\* unreadable one upwards there is nothing.
IsReadable(c) == c \in TsConfigs /\ Written(c).valid
Upwards(c) ==
  LET up[n \in 0..(MaxExtendsDepth + 1)] ==
        IF n = 0 THEN c ELSE IF IsReadable(up[n - 1]) THEN Written(up[n - 1]).extends ELSE NotSet
  IN up
Levels(c) == {n \in 0..MaxExtendsDepth : IsReadable(Upwards(c)[n])}

\* No cycles, and no longer chain than is followed.
Tame == \A c \in TsConfigs : ~IsReadable(Upwards(c)[MaxExtendsDepth + 1])

LevelsWithBase(c) == {n \in Levels(c) : Written(Upwards(c)[n]).base # NotSet}
LevelsWithPaths(c) == {n \in Levels(c) : Written(Upwards(c)[n]).paths # NotSet}

\* The nearest paths, and the nearest baseUrl, or else the directory of the
\* first tsconfig that has paths.
PathsTogether(c) ==
  IF LevelsWithPaths(c) = {} THEN << >> ELSE Written(Upwards(c)[Min(LevelsWithPaths(c))]).paths
BaseTogether(c) ==
  IF LevelsWithBase(c) # {}
  THEN LET b == Written(Upwards(c)[Min(LevelsWithBase(c))]) IN b.directory \o b.base
  ELSE IF LevelsWithPaths(c) # {} THEN Written(Upwards(c)[Max(LevelsWithPaths(c))]).directory
  ELSE NotSet

\* A loaded tsconfig says what its files say together, in whatever order the
\* imports of the repository asked for it and its relatives
\* (resolver.py:211-254).
LoadedAsWritten ==
  Tame => \A c \in TsConfigs : loaded[c] \notin {NotLoaded, NotSet} =>
    loaded[c].paths = PathsTogether(c) /\ loaded[c].base = BaseTogether(c)

=============================================================================
