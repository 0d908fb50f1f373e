--------------------------- MODULE MCArgsBridge ---------------------------
EXTENDS ArgsBridge

\* Type strings: known and matching the pattern, known but not matching
\* it ("std::string"), and unknown.
MCTypeStrs == {"int", "NDArray", "bogus"}
MCNames    == {"x", "self", "out"}
MCDefaults == {"None", "0"}

\* The strings of the enumerated sets that the patterns of lines 78-85 match.
MCNameMatches    == {"x", "self", "out", "axis"}
MCTypeMatches    == {"int", "NDArray", "bogus", "List[NDArray]"}
MCDefaultMatches == {"None", "0"}

\* Wider strings, for the pattern check.
MCPatternTypeStrs == {"int", "std::string"}
MCPatternNames    == {"x", "1x"}
MCPatternDefaults == {"None", "(0"}
=============================================================================
