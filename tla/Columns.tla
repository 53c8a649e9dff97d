------------------------------ MODULE Columns ------------------------------
(***************************************************************************)
(* The columns of the SQL functions, each told three times in the source:  *)
(* the schema bound before a call (output_schema, *_struct_fields), the    *)
(* arrays built from the core's rows, each named here by the field its     *)
(* builder is fed with, and what the metadata advertises to users.  Arrow  *)
(* compares the types of arrays and schema, never their names.             *)
(***************************************************************************)
EXTENDS Sequences

\* <<name, type>> for each name, all of one type.
Each(names, type) == [k \in DOMAIN names |-> <<names[k], type>>]

\* DuckDB's name of an Arrow type (external).
SqlType == [UInt64 |-> "UBIGINT", UInt8 |-> "UTINYINT", Int32 |-> "INTEGER", Utf8 |-> "VARCHAR",
            Binary |-> "BLOB", ListUtf8 |-> "VARCHAR[]", Boolean |-> "BOOLEAN",
            Float64 |-> "DOUBLE"]

disassemble_schema == <<<<"address", "UInt64">>, <<"size", "UInt8">>, <<"bytes", "Binary">>>>
                        \o Each(<<"mnemonic", "op_str">>, "Utf8") \o Each(<<"groups">>, "ListUtf8")
disassemble_result == <<<<"address", "UBIGINT">>, <<"size", "UTINYINT">>, <<"bytes", "BLOB">>>>
                        \o Each(<<"mnemonic", "op_str">>, "VARCHAR") \o Each(<<"groups">>, "VARCHAR[]")
disassemble_arrays == <<<<"address", "UInt64">>, <<"size", "UInt8">>, <<"bytes", "Binary">>>>
                        \o Each(<<"mnemonic", "op_str">>, "Utf8") \o Each(<<"groups">>, "ListUtf8")

sections_schema == Each(<<"name", "kind">>, "Utf8") \o Each(<<"vaddr", "size", "file_off">>, "UInt64")
                     \o <<<<"exec", "Boolean">>, <<"entropy", "Float64">>>>
sections_result == Each(<<"name", "kind">>, "VARCHAR") \o Each(<<"vaddr", "size", "file_off">>, "UBIGINT")
                     \o <<<<"exec", "BOOLEAN">>, <<"entropy", "DOUBLE">>>>
\* Mutant of sections_arrays: two arrays of the same type change places.
sections_arrays_swapped ==
    Each(<<"name", "kind">>, "Utf8") \o Each(<<"file_off", "size", "vaddr">>, "UInt64")
      \o <<<<"exec", "Boolean">>, <<"entropy", "Float64">>>>
sections_arrays == Each(<<"name", "kind">>, "Utf8") \o Each(<<"vaddr", "size", "file_off">>, "UInt64")
                     \o <<<<"exec", "Boolean">>, <<"entropy", "Float64">>>>

imports_schema == Each(<<"library", "name">>, "Utf8") \o <<<<"ordinal", "Int32">>, <<"kind", "Utf8">>>>
imports_result == Each(<<"library", "name">>, "VARCHAR") \o <<<<"ordinal", "INTEGER">>, <<"kind", "VARCHAR">>>>
imports_arrays == Each(<<"library", "name">>, "Utf8") \o <<<<"ordinal", "Int32">>, <<"kind", "Utf8">>>>

strings_schema == <<<<"offset", "UInt64">>>> \o Each(<<"encoding", "value">>, "Utf8")
strings_result == <<<<"offset", "UBIGINT">>>> \o Each(<<"encoding", "value">>, "VARCHAR")
strings_arrays == <<<<"offset", "UInt64">>>> \o Each(<<"encoding", "value">>, "Utf8")

capabilities_schema == Each(<<"rule", "attack_id", "attack_name", "severity", "evidence">>, "Utf8")
capabilities_result == Each(<<"rule", "attack_id", "attack_name", "severity", "evidence">>, "VARCHAR")
capabilities_arrays == Each(<<"rule", "attack_id", "attack_name", "severity", "evidence">>, "Utf8")

\* The fields of the STRUCT a scalar returns; its description names them without types.
format_fields == Each(<<"container", "arch", "mode">>, "Utf8")
                   \o <<<<"bits", "UInt8">>, <<"endian", "Utf8">>, <<"entry", "UInt64">>>>
format_result == <<"container", "arch", "mode", "bits", "endian", "entry">>
format_arrays == Each(<<"container", "arch", "mode">>, "Utf8")
                   \o <<<<"bits", "UInt8">>, <<"endian", "Utf8">>, <<"entry", "UInt64">>>>

entrypoint_fields == Each(<<"arch", "mode">>, "Utf8") \o Each(<<"vaddr", "file_off">>, "UInt64")
                       \o <<<<"section", "Utf8">>>>
entrypoint_result == <<"arch", "mode", "vaddr", "file_off", "section">>
entrypoint_arrays == Each(<<"arch", "mode">>, "Utf8") \o Each(<<"vaddr", "file_off">>, "UInt64")
                       \o <<<<"section", "Utf8">>>>

-----------------------------------------------------------------------------
Function(schema, arrays, result) == [schema |-> schema, arrays |-> arrays, result |-> result]

TableFunctions ==
    [disassemble  |-> Function(disassemble_schema, disassemble_arrays, disassemble_result),
     sections     |-> Function(sections_schema, sections_arrays, sections_result),
     imports      |-> Function(imports_schema, imports_arrays, imports_result),
     strings      |-> Function(strings_schema, strings_arrays, strings_result),
     capabilities |-> Function(capabilities_schema, capabilities_arrays, capabilities_result)]

ScalarFunctions ==
    [format     |-> Function(format_fields, format_arrays, format_result),
     entrypoint |-> Function(entrypoint_fields, entrypoint_arrays, entrypoint_result)]

AdapterOf(fn) == IF fn \in DOMAIN ScalarFunctions THEN ScalarFunctions[fn] ELSE TableFunctions[fn]

\* The fields of the core's rows that the builders are fed with.
FieldsOf(fn) == {AdapterOf(fn).arrays[k][1] : k \in DOMAIN AdapterOf(fn).arrays}

TypesOf(columns) == [k \in DOMAIN columns |-> columns[k][2]]
=============================================================================
