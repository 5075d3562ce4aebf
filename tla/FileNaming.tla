------------------------------ MODULE FileNaming ------------------------------
(***************************************************************************)
(* generate_filename (output/naming.rs): the name of the file that a       *)
(* downloaded image is written to, by the four strategies, and how long it *)
(* may be.                                                                 *)
(*                                                                         *)
(* A name is <<base, ext>>, with the dot between the two left out.  A base *)
(* is <<origin, value, chars>>: where it comes from, and how many of its   *)
(* characters are used.  Texts are values with a number of characters.     *)
(* SHA-256 is taken to be without collisions.                              *)
(***************************************************************************)
EXTENDS Integers

CONSTANTS
    Urls, Images, Stems, Exts,
    NoSegment,       \* no last path segment, or one without a dot
    SegmentOf,       \* URL -> its last path segment [stem, ext], or NoSegment
    Sanitized,       \* stem or extension -> what sanitize makes of it: need not be
                     \* injective, and keeps the dot between the two
    FirstOf,         \* stem -> the stems that begin alike have the same one
    Chars,           \* the number of characters of each stem and extension
    Lowercase,       \* alphanumeric extension -> its lower case
    Detected,        \* image -> detect_extension_from_magic_bytes
    NoExt,           \* a name that is cut off within its extension, or before
    NamingStrategy,  \* config.naming_strategy
    NameLimit,       \* 200 in the code
    OverflowChecks   \* debug builds panic on underflow, release builds wrap

ASSUME NamingAssumption ==
    /\ SegmentOf \in [Urls -> [stem : Stems, ext : Exts] \cup {NoSegment}]
    /\ Sanitized \in [Stems \cup Exts -> Stems \cup Exts] /\ FirstOf \in [Stems -> Stems]
    /\ \A s \in Stems : Sanitized[s] \in Stems
    /\ \A e \in Exts : Sanitized[e] \in Exts
    /\ Chars \in [Stems \cup Exts -> Nat]
    /\ \A x \in Stems \cup Exts : Chars[Sanitized[x]] = Chars[x]
    /\ DOMAIN Lowercase \subseteq Exts /\ \A e \in DOMAIN Lowercase : Lowercase[e] \in Exts
    /\ Detected \in [Images -> Exts]
    /\ "bin" \in Exts /\ NoExt \notin Exts
    /\ NamingStrategy \in {"UrlBased", "Sequential", "ContentHash", "FileHeader"}
    /\ NameLimit \in Nat /\ OverflowChecks \in BOOLEAN

Segment(u) == <<"segment", Sanitized[SegmentOf[u].stem], Chars[SegmentOf[u].stem]>>
UrlHash(u, digits) == <<"url", u, digits>>
ImageHash(image) == <<"image", image, 32>>

\* format!("{index:03}")
digits[n \in Nat] == IF n < 10 THEN 1 ELSE 1 + digits[n \div 10]
Index(n) == <<"index", n, IF n < 1000 THEN 3 ELSE digits[n]>>

\* Alphanumeric, and of at most ten characters.
HasUrlExtension(u) ==
    /\ SegmentOf[u] # NoSegment
    /\ SegmentOf[u].ext \in DOMAIN Lowercase
    /\ Chars[SegmentOf[u].ext] \in 1 .. 10

extension_from_url(u, image) ==
    IF HasUrlExtension(u) THEN Lowercase[SegmentOf[u].ext] ELSE Detected[image]

RawName(u, index, image) ==
    CASE NamingStrategy = "UrlBased" ->
           IF SegmentOf[u] = NoSegment THEN <<UrlHash(u, 32), "bin">>
                                       ELSE <<Segment(u), Sanitized[SegmentOf[u].ext]>>
      [] NamingStrategy = "Sequential" -> <<Index(index), extension_from_url(u, image)>>
      [] NamingStrategy = "ContentHash" -> <<ImageHash(image), extension_from_url(u, image)>>
      [] NamingStrategy = "FileHeader" ->
           <<IF SegmentOf[u] = NoSegment THEN UrlHash(u, 16) ELSE Segment(u), Detected[image]>>

\* The characters of the extension with its dot, and of the name.
ExtChars(name) == IF name[2] = NoExt THEN 0 ELSE Chars[name[2]] + 1
NameChars(name) == name[1][3] + ExtChars(name)

\* The first n characters of a base.  Only a segment can be longer than the limit.
Cut(base, n) ==
    IF base[1] = "segment" /\ n < base[3] THEN <<"segment", FirstOf[base[2]], n>> ELSE base

\* 200 - ext_chars is negative: a panic, or a stem that is never cut.
Underflows(name) == NameChars(name) > NameLimit /\ ExtChars(name) > NameLimit

CutWholeName(name) ==   \* a mistake: the extension is counted to the stem
    IF NameChars(name) <= NameLimit THEN name ELSE <<Cut(name[1], NameLimit), name[2]>>
truncate_filename(name) ==
    IF NameChars(name) <= NameLimit \/ ExtChars(name) > NameLimit THEN name
    ELSE IF ExtChars(name) < NameLimit
         THEN <<Cut(name[1], NameLimit - ExtChars(name)), name[2]>>
         ELSE <<Cut(name[1], NameLimit), NoExt>>

generate_filename(u, index, image) == truncate_filename(RawName(u, index, image))

NamePanics(u, index, image) == OverflowChecks /\ Underflows(RawName(u, index, image))
=============================================================================
