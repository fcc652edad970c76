--------------------------- MODULE MCCMakeRewrite ---------------------------
(* Example CMakeLists.txt texts for CMakeRewrite.                          *)
EXTENDS CMakeRewrite

NL == <<"\n">>
ProjectLine == <<"p", "(", "n", ")">>                       \* project(demo)
\* target_link_libraries(demo onesdk)
LinkByName == <<"T", "(", "n", " ", "n", ")">>
\* target_link_libraries(demo ${ONESDK_LIBS})
LinkByVar == <<"T", "(", "n", " ", "$", "{", "n", "}", ")">>

\* the link call last, the file ending without a newline
VarLastNoNewline == ProjectLine \o NL \o <<"H">> \o NL \o LinkByVar
\* the link call last, the file ending with a newline
VarLastNewline == ProjectLine \o NL \o <<"M9">> \o NL \o LinkByVar \o NL
\* a link call by name followed by another line
NameThenMore == ProjectLine \o NL \o LinkByName \o NL \o <<"M12">>
\* a sub-directory's CMakeLists.txt, with no project() call
NoProject == <<"M5">> \o NL \o LinkByVar \o NL

MCInitTexts == {VarLastNoNewline, VarLastNewline, NameThenMore, NoProject}
VarLastTexts == {VarLastNoNewline, VarLastNewline}
=============================================================================
