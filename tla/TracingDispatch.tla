-------------------------- MODULE TracingDispatch --------------------------
(***************************************************************************)
(* The tracing HTTP middleware (tracing.Middleware, src/unnamed/part_000)  *)
(* and the URL helpers it relies on (src/pkg/rhttp/utils/utils.go).        *)
(*                                                                         *)
(* A URL is a string over a small alphabet that contains "/"; the helpers  *)
(* are operators on those strings, checked against reference definitions  *)
(* of what they compute.  The middleware is a state machine: the handler   *)
(* map is built once from the registered prefixes, then every request is   *)
(* dispatched to the handler of one prefix, or to the no-op handler.       *)
(***************************************************************************)
EXTENDS Naturals, Sequences, SequencesExt

CONSTANTS
    Alphabet,  \* characters of a URL, "/" included
    MaxLen,    \* longest URL string considered
    ServicePrefixes,  \* prefixes services may register (strings over Alphabet)
    Paths,     \* request paths (strings over Alphabet)
    Noop       \* the no-op handler

Str == UNION {[1..k -> Alphabet] : k \in 0..MaxLen}
Slash == <<"/">>

ASSUME /\ "/" \in Alphabet
       /\ ServicePrefixes \subseteq Str /\ Paths \subseteq Str
       /\ Noop \notin Str

(***************************************************************************)
(* String helpers                                                          *)
(***************************************************************************)
\* strings.TrimRight(s, "/")
RECURSIVE TrimRightSlash(_)
TrimRightSlash(s) ==
    IF s # <<>> /\ Last(s) = "/" THEN TrimRightSlash(Front(s)) ELSE s

\* strings.Split(s, "/"): the pieces between separators; "" gives <<"">>.
RECURSIVE Split(_)
Split(s) ==
    IF \A i \in DOMAIN s : s[i] # "/" THEN <<s>>
    ELSE LET i == CHOOSE j \in DOMAIN s : s[j] = "/" /\ \A k \in 1..j-1 : s[k] # "/"
         IN  <<SubSeq(s, 1, i - 1)>> \o Split(SubSeq(s, i + 1, Len(s)))

\* cleanURL: a leading slash is added when missing, trailing ones removed.
CleanURL(url) ==
    IF url = <<>> THEN url
    ELSE TrimRightSlash(IF url[1] # "/" THEN Slash \o url ELSE url)

\* Mutant: the prefix has one segment more than the URL and is accepted.
UrlHasPrefixOffByOne(url, prefix) ==
    LET partsURL == Split(CleanURL(url))
        partsPrefix == Split(CleanURL(prefix))
    IN  /\ Len(partsPrefix) <= Len(partsURL) + 1
        /\ \A i \in 1..Min({Len(partsPrefix), Len(partsURL)}) :
              partsPrefix[i] = partsURL[i]

\* UrlHasPrefix: the segments of the cleaned prefix are the first segments
\* of the cleaned URL.
UrlHasPrefix(url, prefix) ==
    LET partsURL == Split(CleanURL(url))
        partsPrefix == Split(CleanURL(prefix))
    IN  /\ Len(partsPrefix) <= Len(partsURL)
        /\ \A i \in 1..Len(partsPrefix) : partsPrefix[i] = partsURL[i]

\* GetSubURL: the cleaned URL after the cleaned prefix (pre: UrlHasPrefix).
GetSubURL(url, prefix) ==
    SubSeq(CleanURL(url), Len(CleanURL(prefix)) + 1, Len(CleanURL(url)))

(***************************************************************************)
(* The middleware                                                          *)
(***************************************************************************)
VARIABLES
    handlers,  \* keys of the handlers map built by Middleware
    served     \* the last request: its path and the prefix (or Noop) served

vars == <<handlers, served>>

\* Mutant: the loop keeps the last matching prefix it meets, not the longest.
DispatchAnyMatch(hs, path) ==
    IF path \in hs THEN {path}
    ELSE LET cands == {p \in hs : UrlHasPrefix(path, p) /\ Len(p) > 0}
         IN  IF cands # {} THEN cands
             ELSE IF <<>> \in hs THEN {<<>>} ELSE {Noop}

\* handlerFunc: the handler of the path itself if one is registered; else
\* the longest (by string length) registered prefix UrlHasPrefix accepts,
\* ties going to whichever the map iteration meets first; a prefix of
\* length 0 is never picked by the loop but is found as handlers[""].
Dispatch(hs, path) ==
    IF path \in hs THEN {path}
    ELSE LET cands == {p \in hs : UrlHasPrefix(path, p) /\ Len(p) > 0}
             longest == {p \in cands : \A q \in cands : Len(q) <= Len(p)}
         IN  IF cands # {} THEN longest
             ELSE IF <<>> \in hs THEN {<<>>} ELSE {Noop}

\* Mutant: the handlers map is keyed by the cleaned prefix.
InitCleanedKeys ==
    /\ handlers \in {{CleanURL(p) : p \in S} : S \in SUBSET ServicePrefixes}
    /\ served = Noop

\* Middleware(h, ms): one handler per registered prefix.
Init ==
    /\ handlers \in SUBSET ServicePrefixes
    /\ served = Noop

\* A request reaches handlerFunc.
Serve(path) ==
    /\ \E by \in Dispatch(handlers, path) : served' = [path |-> path, by |-> by]
    /\ UNCHANGED handlers

Next == \E path \in Paths : Serve(path)

Spec == Init /\ [][Next]_vars

(***************************************************************************)
(* Properties                                                              *)
(***************************************************************************)
TypeOK ==
    /\ handlers \subseteq ServicePrefixes
    /\ served \in {Noop} \cup [path : Paths, by : ServicePrefixes \cup {Noop}]

\* Reference: url lies at or below prefix in the path tree when, cleaned,
\* it is the prefix followed by nothing or by a "/" and more.
AtOrBelow(url, prefix) ==
    LET u == CleanURL(url)
        p == CleanURL(prefix)
    IN  IsPrefix(p, u) /\ (Len(p) = Len(u) \/ u[Len(p) + 1] = "/")

\* UrlHasPrefix, which compares the pieces of strings.Split, agrees with the
\* path-tree reference for the path just served against every string up to
\* MaxLen, including empty segments ("a//b"), missing leading and extra
\* trailing slashes; and GetSubURL then returns the rest of the path as an
\* absolute path or "".  Paths holds every string, so every pair is met.
UrlHelpersCorrect ==
    served # Noop =>
      \A p \in Str :
        LET u == served.path
        IN  /\ UrlHasPrefix(u, p) <=> AtOrBelow(u, p)
            /\ UrlHasPrefix(u, p) =>
                  /\ CleanURL(p) \o GetSubURL(u, p) = CleanURL(u)
                  /\ GetSubURL(u, p) = <<>> \/ GetSubURL(u, p)[1] = "/"

\* Number of segments of the cleaned prefix: how specific it is.
Depth(p) == Len(Split(CleanURL(p)))

\* A request goes to the most specific registered prefix at or above its
\* path, and to the no-op handler only when no registered prefix is.
DispatchMostSpecific ==
    served # Noop =>
      LET above == {p \in handlers : AtOrBelow(served.path, p)}
      IN  IF above = {} THEN served.by = Noop
          ELSE /\ served.by \in above
               /\ \A q \in above : Depth(q) <= Depth(served.by)

=============================================================================
