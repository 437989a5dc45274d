--------------------------- MODULE MCOptionsMenu ---------------------------
EXTENDS OptionsMenu

\* Ascending, and small: a base cap of 2, 3 or 4 has a doubled or tripled cap
\* among them, 8 has none at all.
MCPresets == <<0, 2, 3, 4, 6, 9>>

MCGenerated == <<0, 2, 3>>
=============================================================================
