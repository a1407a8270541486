------------------------- MODULE MCSwaggerSpecification -------------------------
(***************************************************************************)
(* Instances of SwaggerSpecification for TLC: the specs users write and    *)
(* the documents the APIs of the definitions serve.                        *)
(***************************************************************************)
EXTENDS SwaggerSpecificationProperties, TLC

To(section, name) == {[section |-> section, name |-> name]}

\* Every definition serves the path /v1/pets, and schemas of the same names.
Pets == [form |-> "document", base |-> <<"v1">>, paths |-> (<<"pets">> :> To("schemas", "Pet")),
         schemas |-> ("Pet" :> To("schemas", "Tag") @@ "Tag" :> {}), security |-> {"token"}]

\* A path that shares a parameter: the parameter is not renamed.
Shared == [Pets EXCEPT !.paths = (<<"pets">> :> To("parameters", "Page"))]

\* "components": null
Odd == [Pets EXCEPT !.form = "odd"]

Plain == [valid |-> TRUE, suspend |-> FALSE]
MCSpecs == {Plain, [Plain EXCEPT !.suspend = TRUE], [Plain EXCEPT !.valid = FALSE]}
MCPlainSpecs == {Plain}

MCOneDefinition == {1}
MCTwoDefinitions == {1, 2}
MCContents == {Pets, Shared, Odd}
MCPlainContents == {Pets}

===============================================================================
