\* One call of a browser.
CONSTANTS
    Call = {c1}
SPECIFICATION Spec
INVARIANTS SessionAnswersCalls
