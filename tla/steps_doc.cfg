\* remediation.py: a numbered list is split into its steps.
SPECIFICATION Spec
CONSTANT Answers <- ShortAnswers
INVARIANT IndividualSteps
CHECK_DEADLOCK FALSE
