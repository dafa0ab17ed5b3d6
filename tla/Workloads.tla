----------------------------- MODULE Workloads -----------------------------
(***************************************************************************)
(* How the workload scanner recognises a tool in a raw workload and reads  *)
(* its version from an image or a label.                                   *)
(*                                                                         *)
(* A text (an image reference, a label) is a sequence of tokens: the       *)
(* separators, numbers, and words that contain neither.  Left out: spaces  *)
(* around a label, and words that run into a number or into each other.    *)
(***************************************************************************)
EXTENDS Knowledge, SequencesExt

CONSTANTS
    Number,     \* the tokens that are numbers -> their value
    Detections, \* tool -> its detection rules, in the order of the file
    References  \* image references, taken apart: see IsReference

\* "" where a rule does not give a workload's name or a container; an empty
\* image matches none.
Rule == [name: STRING, container: STRING, image: Seq(STRING), from: {"image_tag", "label", ""}]

Container == [name: STRING, image: Seq(STRING)]

ASSUME DetectionsAssumption ==
    /\ DOMAIN Number \subseteq STRING /\ \A word \in DOMAIN Number : Number[word] \in Nat
    /\ Detections \in [Tools -> Seq(Rule)]
    /\ References \subseteq [parts: Seq(Seq(STRING)), release: Seq(STRING),
                             suffix: Seq(STRING), digest: BOOLEAN]

-----------------------------------------------------------------------------
(* Versions in texts.                                                      *)

DropV(text) == IF text # <<>> /\ text[1] = "v" THEN Tail(text) ELSE text

\* One to three numbers with dots between them.
Numeric(text) ==
    /\ Len(text) \in {1, 3, 5}
    /\ \A i \in DOMAIN text : IF i % 2 = 1 THEN text[i] \in DOMAIN Number ELSE text[i] = "."

PreReleases == {"alpha", "beta", "rc"}

\* A named pre-release: "-rc", "-rc1", "-rc.1".
PreRelease(text) ==
    /\ Len(text) > 1 /\ text[1] = "-" /\ text[2] \in PreReleases
    /\ \A i \in 3..Len(text) :
         \/ text[i] \in DOMAIN Number
         \/ text[i] = "." /\ i < Len(text) /\ text[i + 1] \in DOMAIN Number

versionPrefix(text) ==
    \E i \in 0..Len(text) :
      /\ Numeric(DropV(SubSeq(text, 1, i)))
      /\ i = Len(text) \/ PreRelease(SubSeq(text, i + 1, Len(text)))

\* The longest version at the start of a text, or the text when there is none.
CleanVersion(text) ==
    LET found == {p \in Prefixes(text) : versionPrefix(p)}
    IN IF found = {} THEN text ELSE CHOOSE p \in found : \A q \in found : Len(q) <= Len(p)

\* A text as a version of the matrix; a partial one is completed with zeros.
parseVersion(text) ==
    LET plain == DropV(text)
        dash == SelectInSeq(plain, LAMBDA word : word = "-")
        core == IF dash = 0 THEN plain ELSE SubSeq(plain, 1, dash - 1)
        part(i) == IF i <= Len(core) THEN Number[core[i]] ELSE 0
    IN CASE text = <<>>                     -> NoVersion
         [] text # <<>> /\ ~Numeric(core)   -> BadVersion
         [] OTHER -> <<part(1), part(3), part(5), IF dash = 0 THEN 1 ELSE 0>>

-----------------------------------------------------------------------------
(* Image references.                                                       *)

\* Mutant: the first colon starts the tag.
splitImageAtColon(image) ==
    LET colon == SelectInSeq(image, LAMBDA word : word = ":")
    IN [repository |-> IF colon = 0 THEN image ELSE SubSeq(image, 1, colon - 1),
        tag |-> IF colon = 0 THEN <<>> ELSE SubSeq(image, colon + 1, Len(image))]

\* A digest is dropped, and a colon starts the tag only after the last "/".
splitImage(image) ==
    LET digest == SelectInSeq(image, LAMBDA word : word = "@")
        plain == IF digest = 0 THEN image ELSE SubSeq(image, 1, digest - 1)
        colon == SelectLastInSeq(plain, LAMBDA word : word = ":")
        slash == SelectLastInSeq(plain, LAMBDA word : word = "/")
    IN IF colon > slash
         THEN [repository |-> SubSeq(plain, 1, colon - 1),
               tag |-> SubSeq(plain, colon + 1, Len(plain))]
         ELSE [repository |-> plain, tag |-> <<>>]

\* The image's repository is the one wanted, or ends in "/" and that.
imageMatches(image, want) ==
    LET repository == splitImage(image).repository
    IN want # <<>> /\ (repository = want \/ IsSuffix(<<"/">> \o want, repository))

imageVersion(image) == parseVersion(CleanVersion(splitImage(image).tag))

\* The version of the first of an application's images a rule of t matches
\* that has one.
VersionFromImages(images, t) ==
    LET rules == Detections[t]
        versions == FlattenSeq([i \in DOMAIN rules |->
                      [j \in DOMAIN images |->
                        IF imageMatches(images[j], rules[i].image) THEN imageVersion(images[j])
                        ELSE NoVersion]])
        known == SelectSeq(versions, LAMBDA v : v # NoVersion)
    IN IF known = <<>> THEN NoVersion ELSE Head(known)

-----------------------------------------------------------------------------
(* Detection rules.                                                        *)

\* The workload has the rule's name or runs its image.
matchesWorkload(w, dm) ==
    \/ dm.name # "" /\ w.name = dm.name
    \/ \E c \in Range(w.containers) : imageMatches(c.image, dm.image)

\* The version of the first container with the rule's image, or else of the one
\* with the rule's container name; or that of the label.
extractVersion(w, dm) ==
    LET images == SelectSeq(w.containers, LAMBDA c : imageMatches(c.image, dm.image))
        named == SelectSeq(w.containers, LAMBDA c : dm.container # "" /\ c.name = dm.container)
    IN CASE dm.from = "image_tag" -> IF images \o named = <<>> THEN NoVersion
                                     ELSE imageVersion(Head(images \o named).image)
         [] dm.from = "label"     -> parseVersion(CleanVersion(w.label))
         [] OTHER                 -> NoVersion

\* The rules of tool t that match the workload; the first one is used.
Matching(w, t) == SelectSeq(Detections[t], LAMBDA dm : matchesWorkload(w, dm))

\* The tools a workload is taken for -> the version it shows.
ToolsOf(w) == [t \in {u \in Tools : Matching(w, u) # <<>>} |->
                 extractVersion(w, Head(Matching(w, t)))]

-----------------------------------------------------------------------------
\* A reference written out: its parts, the registry's host and port first, a
\* tag of a release and a distribution's suffix, and a digest.
Repository(ref) ==
    FlattenSeq([i \in DOMAIN ref.parts |-> IF i = 1 THEN ref.parts[i] ELSE <<"/">> \o ref.parts[i]])

Written(ref) ==
    LET tag == ref.release \o ref.suffix
    IN Repository(ref) \o (IF tag = <<>> THEN <<>> ELSE <<":">> \o tag)
         \o (IF ref.digest THEN <<"@", "sha256", ":", "abc">> ELSE <<>>)

\* How a reference is put together: only the first of several parts has a
\* port, and a tag is a release with what is added after a "-", or no release.
IsReference(ref) ==
    /\ ref.parts # <<>>
    /\ \A i \in DOMAIN ref.parts :
         /\ ref.parts[i] # <<>> /\ Range(ref.parts[i]) \intersect {"/", "@"} = {}
         /\ i > 1 \/ Len(ref.parts) = 1 => ":" \notin Range(ref.parts[i])
    /\ (Range(ref.release) \union Range(ref.suffix)) \intersect {"/", ":", "@"} = {}
    /\ \/ /\ versionPrefix(ref.release)
          /\ \/ ref.suffix \in {<<>>, <<"-">>}
             \/ Len(ref.suffix) > 1 /\ ref.suffix[1] = "-" /\ ref.suffix[2] \notin PreReleases
       \/ /\ \A p \in Prefixes(ref.release) : ~versionPrefix(p)
          /\ ref.suffix = <<>>

\* A separator is no number.
ASSUME ReferencesAssumption ==
    /\ {"-", ".", "/", ":", "@"} \intersect DOMAIN Number = {}
    /\ \A ref \in References : IsReference(ref)

\* What an image reference was put together from is read back: its repository
\* matches the repositories that are whole path suffixes of it and no others,
\* whatever registry, port, tag or digest it has; and its version is the release
\* without the distribution's suffix, but with its pre-release.
ReadBack ==
    \A ref \in References :
      /\ \A want \in References :
           imageMatches(Written(ref), Repository(want)) <=> IsSuffix(want.parts, ref.parts)
      /\ CleanVersion(splitImage(Written(ref)).tag) = ref.release
=============================================================================
