-------------------------- MODULE MCDownloadBatch --------------------------
(* Small instances of DownloadBatch. *)
EXTENDS DownloadBatch

CONSTANTS u1, u2, u3, h1, h2, c1, c2, c3

TwoUrls == {u1, u2}
ThreeUrls == {u1, u2, u3}
OneHost == {h1}
TwoHosts == {h1, h2}

\* Two URLs of one host, and one of another.
SameHost == [u \in Urls |-> h1]
SplitHosts == [u \in Urls |-> IF u = u1 THEN h1 ELSE IF u = u2 THEN h2 ELSE h1]
ThirdInvalid == [u \in Urls |-> IF u = u3 THEN NoHost ELSE h1]

NoRedirects == {}
Redirects == Hosts \cup {NoHost}
ToSecondHost == {h2}

ThreeImages == {c1, c2, c3}
OwnImage == [u \in Urls |-> IF u = u1 THEN c1 ELSE IF u = u2 THEN c2 ELSE c3]
SameImage == [u \in Urls |-> c1]

\* Segments: two that sanitize makes equal, one that is too long, and extensions,
\* one of which is longer than a name may be.
FourStems == {"a b", "a_b", "a", "long"}
SomeExts == {"JPG", "jpg", "jp g", "jp_g", "bin", "tail"}
CharsOf == [x \in Stems \cup Exts |->
              CASE x = "long" -> 230 [] x = "tail" -> 210 [] x = "a" -> 1
                [] x \in {"jp g", "jp_g"} -> 4 [] OTHER -> 3]
Underscored ==
    [x \in Stems \cup Exts |-> CASE x = "a b" -> "a_b" [] x = "jp g" -> "jp_g" [] OTHER -> x]
Itself == [s \in Stems |-> s]
Lower == [e \in {"JPG", "jpg", "bin"} |-> IF e = "JPG" THEN "jpg" ELSE e]
AllJpg == [c \in Images |-> "jpg"]

\* A segment that is cut, one that makes the name panic, and none.
OddSegments ==
    [u \in Urls |-> CASE u = u1 -> [stem |-> "long", ext |-> "jp g"]
                       [] u = u2 -> [stem |-> "a", ext |-> "tail"]
                       [] OTHER -> NoSegment]
\* Segments that are equal when they are sanitized.
AlikeSegments ==
    [u \in Urls |-> IF u = u1 THEN [stem |-> "a b", ext |-> "jpg"]
                              ELSE [stem |-> "a_b", ext |-> "jpg"]]
\* Extensions that are equal in lower case.
TwoCases ==
    [u \in Urls |-> IF u = u1 THEN [stem |-> "a", ext |-> "jpg"]
                              ELSE [stem |-> "a", ext |-> "JPG"]]

Pair == {<<u1, u2>>}
PairAndDuplicates == {<<>>, <<u1, u2, u1, u3>>}
Triple == {<<u3, u1, u2>>}

AllFaults == Errors
NoFaults == {}
SomeFaults == {"HttpTransient", "HttpStatus", "TooManyRedirects", "WriteError"}
=============================================================================
