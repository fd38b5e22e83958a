----------------------------- MODULE MC_Lexer -----------------------------
(* Texts for TLC: all short ones over a few characters each.               *)
EXTENDS Lexer

LOCAL Short(characters, most) == UNION {[1..k -> characters] : k \in 0..most}

AllTexts ==
  Short({"i", "f", "1", " ", "\n", ";"}, 5)            \* words and their ends
  \cup Short({"0", "1", "f", "u", ".", "~", "$"}, 4)   \* numbers
  \cup Short({"<", "=", "/", "a", " ", "\n"}, 5)       \* operators
  \cup Short({"/", "*", " ", "\n"}, 7)                 \* comments
  \cup Short({"\"", "\\", "n", " ", "\n"}, 6)          \* strings
  \cup Short({"'", "\\", "n", ";", "\n"}, 5)           \* characters
  \cup Short({"$", "_", ",", "&", "!", "\n"}, 3)       \* anything else
=============================================================================
