SPECIFICATION Spec
PROPERTY PromptObeyed
